------------------------------- MODULE Router -------------------------------
(***************************************************************************)
(* The router (server.rs) and the request path every server shares         *)
(* (server_request.rs).                                                    *)
(*                                                                         *)
(* A handler (Arc<dyn HandlerErased>) is a record with a kind: a leaf that *)
(* runs a user function, or one of the three wrappers - a middleware       *)
(* pipeline, an off-reader mark, a mount with a fallthrough.  Running one  *)
(* gives its result, Ok(message) or Err(error), and the names of the       *)
(* middleware and functions that ran, each with the call context it saw.   *)
(* A leaf's reply says what its function returns: [ok |-> format] (its     *)
(* input, under that body format) or [err |-> code].                       *)
(*                                                                         *)
(* The registrars are actions, taken in any order; what a router answers   *)
(* is a function of its state.                                             *)
(***************************************************************************)
EXTENDS Message, SequencesExt, TLC

CONSTANTS STACK_SEGS, Scenarios

VARIABLES
    scenario,    \* the registrations to make and the requests to answer
    router,      \* the Router
    todo         \* registrations not made yet

vars == <<scenario, router, todo>>

JP == INSTANCE JsonPointer

Outcome(out, ran) == [out |-> out, ran |-> ran]
Ran(name, ctx) == << <<name, ctx>> >>
-----------------------------------------------------------------------------
(***************************************************************************)
(* Leaf handlers.  `view' says which of a handler's two entry points runs: *)
(* handle_view on a borrowed frame, or handle on an owned message.         *)
(***************************************************************************)
\* The query as the path it spells, None when it is not UTF-8.
query_str(req) ==
    LET chars == [i \in DOMAIN req.query |-> val(req.query[i])] IN
    IF \E i \in DOMAIN chars : chars[i] = "\\xff" THEN None ELSE chars

path_of(req) == IF query_str(req) = None THEN <<>> ELSE query_str(req)

error_for(req, code, view) ==
    IF view THEN create_error_response_unstamped_view(req, code, code)
    ELSE create_error_response_like(req, code, code)

to_error_code(error) ==
    CASE error \in {"InvalidSpec", "InvalidHeaderLength", "LengthMismatch",
                    "FrameLengthOverflow"} -> "InvalidHeader"
      [] error \in {"BufferTooSmall", "Json", "Beve", "Io"} -> "ParseError"
      [] error = "UnexpectedBodyFormat" -> "InvalidBody"
      [] OTHER -> error                     \* ServerError carries its code

BadFormat == Err("bad format")

decode_typed_body(req) ==
    CASE req.header.body_format \in {"Json", "Utf8"} -> json_read(req.body)
      [] req.header.body_format = "Beve" -> beve_read(req.body)
      [] OTHER -> BadFormat

\* A typed array has no JSON form.
decode_typed_slice_param(req) ==
    IF req.header.body_format = "Beve" THEN beve_read(req.body) ELSE BadFormat

\* structio::beve_slice_ref: the elements in place, if they are aligned there.
beve_slice_ref(body, base) ==
    IF IsOk(beve_read(body)) /\ (base + 1 + val(body[1])[2]) % ALIGN = 0
    THEN beve_read(body).ok ELSE None

\* Borrow from the receive buffer, where the body follows the header and the
\* query, or copy.
decode_typed_slice_ref_body(req, view) ==
    LET base     == IF view THEN HEADER_SIZE + Len(req.query) ELSE 0
        borrowed == beve_slice_ref(req.body, base)
    IN  IF borrowed # None THEN Ok(borrowed) ELSE beve_read(req.body)

decode_typed_slice_ref_param(req, view) ==
    IF req.header.body_format = "Beve" THEN decode_typed_slice_ref_body(req, view)
    ELSE BadFormat

\* From a decoded input to a response: a format the handler does not take is
\* answered, a body that does not parse is an Err, and otherwise it runs.
Call(h, req, decoded, success, ctx, view) ==
    IF decoded = BadFormat THEN Outcome(Ok(error_for(req, "InvalidBody", view)), <<>>)
    ELSE IF ~IsOk(decoded) THEN Outcome(decoded, <<>>)
    ELSE Outcome(Ok(IF "err" \in DOMAIN h.reply THEN error_for(req, h.reply.err, view)
                    ELSE success),
                 Ran(h.name, ctx))

TypedHandler(h, req, view) ==
    LET decoded == decode_typed_body(req) IN
    Call(h, req, decoded, create_response_unstamped(req, decoded.ok, h.reply.ok), None, view)

TypedHandlerCtx(h, req, ctx) ==
    LET decoded == decode_typed_body(req) IN
    Call(h, req, decoded, create_response_unstamped(req, decoded.ok, h.reply.ok), ctx, FALSE)

JsonTypedAdapter(h, req) ==
    LET decoded == decode_typed_body(req) IN
    Call(h, req, decoded, create_response_unstamped(req, decoded.ok, "Json"), None, FALSE)

TypedSliceHandler(h, req, view) ==
    LET decoded == decode_typed_slice_param(req) IN
    Call(h, req, decoded, create_typed_slice_response_unstamped(req, decoded.ok), None, view)

TypedSliceRefHandler(h, req, view) ==
    LET decoded == decode_typed_slice_ref_param(req, view) IN
    Call(h, req, decoded, create_typed_slice_response_unstamped(req, decoded.ok), None, view)

\* A hand-written handler: any message, with a query of its own if it likes,
\* or any error.
ErasedHandler(h, req) ==
    Outcome(IF "err" \in DOMAIN h.reply THEN Err(h.reply.err)
            ELSE Ok(build([MessageBuilder EXCEPT !.id = req.header.id, !.query = h.reply.ok])),
            Ran(h.name, None))
-----------------------------------------------------------------------------
(***************************************************************************)
(* The mounts.  A mounted function answers the value <<7>>, in BEVE to a   *)
(* BEVE request and in JSON to any other (ResponseBody::with_format).      *)
(***************************************************************************)
Answer(req, value) ==
    IF req.header.body_format = "Beve"
    THEN create_body_response_unstamped(req, beve_bytes(value, 0), "Beve")
    ELSE create_body_response_unstamped(req, json_to_vec(value), "Json")

\* Registry::body_of refuses a format code it does not know; empty is no body.
body_of(req) ==
    IF req.body # <<>> /\ req.header.body_format = "unknown"
    THEN Err("InvalidBody") ELSE Ok(req.body)

Registry_call(functions, pointer) ==
    LET key == JP!canonical_key(pointer) IN
    IF key # None /\ key \in DOMAIN functions THEN Ok(functions[key]) ELSE Err("MethodNotFound")

\* RegisteredRegistry::dispatch.
RegisteredRegistry(h, req, ctx) ==
    LET pointer  == JP!pointer_for(h.prefix, path_of(req))
        found    == Registry_call(h.functions, pointer)
        error(c) == Ok(create_error_response_like(req, c, c))
    IN  IF pointer = None THEN Outcome(error("MethodNotFound"), <<>>)
        ELSE IF ~IsOk(body_of(req)) THEN Outcome(error(body_of(req).err), <<>>)
        ELSE IF ~IsOk(found) THEN Outcome(error(found.err), <<>>)
        ELSE Outcome(IF "err" \in DOMAIN found.ok.reply THEN error(found.ok.reply.err)
                     ELSE Ok(Answer(req, <<7>>)),
                     Ran(found.ok.name, ctx))

\* RegisteredStruct::handle, for a struct whose lock is free (ServedStruct has
\* the locks): the members by their segments.
RegisteredStruct(h, req) ==
    LET relative == JP!relative_pointer(h.root, path_of(req))
        segments == JP!with_segments(relative)
        error(c) == Ok(create_error_response_like(req, c, c))
    IN  IF relative = None THEN Outcome(error("MethodNotFound"), <<>>)
        ELSE IF req.body # <<>> /\ req.header.body_format \notin {"Json", "Utf8", "Beve"}
        THEN Outcome(error("InvalidBody"), <<>>)
        ELSE IF segments = None \/ segments \notin DOMAIN h.members
        THEN Outcome(error("MethodNotFound"), <<>>)
        ELSE Outcome(Ok(Answer(req, <<7>>)), Ran(h.members[segments], None))
-----------------------------------------------------------------------------
(***************************************************************************)
(* Running a handler, `via' one of its entry points: "handle",             *)
(* "handle_with_ctx" or "handle_view".                                     *)
(***************************************************************************)
Leaf(h, req, ctx, via) ==
    LET view  == via = "handle_view"
        given == IF via = "handle" THEN "detached" ELSE ctx
    IN  CASE h.kind = "typed"     -> TypedHandler(h, req, view)
          [] h.kind = "typed_ctx" -> TypedHandlerCtx(h, req, given)
          [] h.kind = "json"      -> JsonTypedAdapter(h, req)
          [] h.kind = "slice"     -> TypedSliceHandler(h, req, view)
          [] h.kind = "slice_ref" -> TypedSliceRefHandler(h, req, view)
          [] h.kind = "erased"    -> ErasedHandler(h, req)
          [] h.kind = "registry"  -> RegisteredRegistry(h, req, given)
          [] h.kind = "struct"    -> RegisteredStruct(h, req)

\* MountFallthrough::or_fallback: the mount's own MethodNotFound, framed or not.
or_fallback(mount, fallback) ==
    LET declined == IF IsOk(mount.out) THEN mount.out.ok.header.ec = "MethodNotFound"
                    ELSE to_error_code(mount.out.err) = "MethodNotFound"
    IN  IF declined THEN Outcome(fallback.out, mount.ran \o fallback.ran) ELSE mount

RECURSIVE Run(_, _, _, _), Next_run(_, _, _, _)

Around(middleware, rest, ctx) ==
    IF middleware.stops THEN Outcome(Err("ApplicationErrorBase"), Ran(middleware.name, ctx))
    ELSE Outcome(rest.out, Ran(middleware.name, ctx) \o rest.ran)

\* Next::run: the first middleware around the rest; past the last one the
\* handler, through handle_with_ctx when there is a context to pass on.
Next_run(middlewares, handler, req, ctx) ==
    IF middlewares = <<>>
    THEN Run(handler, req, ctx, IF ctx = None THEN "handle" ELSE "handle_with_ctx")
    ELSE Around(Head(middlewares), Next_run(Tail(middlewares), handler, req, ctx), ctx)

Run(h, req, ctx, via) ==
    CASE h.kind = "pipeline" ->
             Next_run(h.middlewares, h.handler, req, IF via = "handle" THEN None ELSE ctx)
      [] h.kind = "off_reader" -> Run(h.handler, req, ctx, via)
      [] h.kind = "fallthrough" ->
             or_fallback(Run(h.mount, req, ctx, via), Run(h.fallback, req, ctx, via))
      [] OTHER -> Leaf(h, req, ctx, via)

RECURSIVE execution(_)

execution(h) ==
    CASE h.kind = "pipeline" -> execution(h.handler)
      [] h.kind = "off_reader" -> "OffReader"
      [] h.kind = "fallthrough" ->
             IF "OffReader" \in {execution(h.mount), execution(h.fallback)}
             THEN "OffReader" ELSE "Inline"
      [] OTHER -> "Inline"
-----------------------------------------------------------------------------
(***************************************************************************)
(* Router: what each registrar does to it.                                 *)
(***************************************************************************)
EmptyRouter ==
    [inner |-> <<>>, structs |-> <<>>, registries |-> <<>>, fallback |-> None,
     middlewares |-> <<>>, mount_fallthrough |-> FALSE]

wrap_with_middlewares(handler, middlewares) ==
    IF middlewares = <<>> THEN handler
    ELSE [kind |-> "pipeline", handler |-> handler, middlewares |-> middlewares]

mount_dispatched_Dispatched(r, raw) ==
    wrap_with_middlewares(
        IF r.mount_fallthrough /\ r.fallback # None
        THEN [kind |-> "fallthrough", mount |-> raw, fallback |-> r.fallback.dispatched]
        ELSE raw,
        r.middlewares)

\* The fallback is composed in raw, inside the mount's own pipeline.
mount_dispatched(r, raw) ==
    wrap_with_middlewares(
        IF r.mount_fallthrough /\ r.fallback # None
        THEN [kind |-> "fallthrough", mount |-> raw, fallback |-> r.fallback.raw]
        ELSE raw,
        r.middlewares)

rebuild_mount_dispatch(r) ==
    LET rebuilt(entries) ==
            [i \in DOMAIN entries |->
                [entries[i] EXCEPT !.dispatched = mount_dispatched(r, entries[i].raw)]]
    IN  [r EXCEPT !.registries = rebuilt(@), !.structs = rebuilt(@)]

insert_route(r, path, raw) ==
    [r EXCEPT !.inner =
        (path :> [raw |-> raw, dispatched |-> wrap_with_middlewares(raw, r.middlewares)])
            @@ r.inner]

OffReaderHandler(h) == [kind |-> "off_reader", handler |-> h]

register_fallback(r, handler) ==
    rebuild_mount_dispatch(
        [r EXCEPT !.fallback =
            [raw |-> handler, dispatched |-> wrap_with_middlewares(handler, r.middlewares)]])

register_fallback_blocking(r, handler) == register_fallback(r, OffReaderHandler(handler))

set_mount_fallthrough(r, enabled) ==
    IF r.mount_fallthrough = enabled THEN r
    ELSE rebuild_mount_dispatch([r EXCEPT !.mount_fallthrough = enabled])

\* Every dispatched slot is wrapped again, from its raw handler.
register_middleware(r, middleware) ==
    LET list == Append(r.middlewares, middleware) IN
    rebuild_mount_dispatch(
        [r EXCEPT
            !.middlewares = list,
            !.inner = [path \in DOMAIN r.inner |->
                [r.inner[path] EXCEPT
                    !.dispatched = wrap_with_middlewares(r.inner[path].raw, list)]],
            !.fallback = IF r.fallback = None THEN None
                         ELSE [r.fallback EXCEPT
                             !.dispatched = wrap_with_middlewares(r.fallback.raw, list)]])

with_typed(r, path, f) == insert_route(r, path, [f EXCEPT !.kind = "typed"])

with_typed_slice(r, path, f) == insert_route(r, path, [f EXCEPT !.kind = "slice"])

with_typed_slice_ref(r, path, f) == insert_route(r, path, [f EXCEPT !.kind = "slice_ref"])

with_typed_ctx(r, path, f) == insert_route(r, path, [f EXCEPT !.kind = "typed_ctx"])

with_typed_blocking(r, path, f) ==
    insert_route(r, path, OffReaderHandler([f EXCEPT !.kind = "typed"]))

with_typed_ctx_blocking(r, path, f) ==
    insert_route(r, path, OffReaderHandler([f EXCEPT !.kind = "typed_ctx"]))

with_handler(r, path, f) == insert_route(r, path, [f EXCEPT !.kind = "json"])

with_erased_handler(r, path, f) == insert_route(r, path, [f EXCEPT !.kind = "erased"])

register_struct_shared(r, root, members) ==
    LET raw == [kind |-> "struct", root |-> JP!struct_root(root), members |-> members] IN
    [r EXCEPT !.structs =
        Append(@, [root |-> raw.root, raw |-> raw, dispatched |-> mount_dispatched(r, raw)])]

register_registry(r, prefix, functions) ==
    LET raw == [kind |-> "registry", prefix |-> JP!normalize_mount(prefix),
                functions |-> functions]
    IN  [r EXCEPT !.registries =
            Append(@, [root |-> raw.prefix, raw |-> raw, dispatched |-> mount_dispatched(r, raw)])]

first_match(entries, path) == SelectInSeq(entries, LAMBDA e : JP!matches(e.root, path))

\* Router::get: an exact route, the first registry below which the path is,
\* the first such struct, the fallback.
get(r, path) ==
    LET registry == first_match(r.registries, path)
        struct   == first_match(r.structs, path)
    IN  IF path \in DOMAIN r.inner THEN r.inner[path].dispatched
        ELSE IF registry > 0 THEN r.registries[registry].dispatched
        ELSE IF struct > 0 THEN r.structs[struct].dispatched
        ELSE IF r.fallback # None THEN r.fallback.dispatched
        ELSE None
-----------------------------------------------------------------------------
(***************************************************************************)
(* server_request.rs                                                       *)
(***************************************************************************)
route(r, req) ==
    LET notify  == req.header.notify = 1
        handler == get(r, query_str(req))
    IN  IF req.header.version # 1 THEN [notify |-> notify, reject |-> "VersionMismatch"]
        ELSE IF req.header.query_format # "JsonPointer" \/ query_str(req) = None
        THEN [notify |-> notify, reject |-> "InvalidQuery"]
        ELSE IF handler = None THEN [notify |-> notify, reject |-> "MethodNotFound"]
        ELSE [notify |-> notify, handler |-> handler]

Rejected(outcome) == "reject" \in DOMAIN outcome

\* The response to what a handler did: its message, or the frame of its Err.
response_to(ran, req, notify, view) ==
    [response |-> IF notify THEN None
                  ELSE IF IsOk(ran.out) THEN ran.out.ok
                  ELSE error_for(req, to_error_code(ran.out.err), view),
     ran      |-> ran.ran]

\* dispatch_view, the borrowing path; a notify runs for its effects alone.
dispatch_view(handler, req, ctx, notify) ==
    response_to(Run(handler, req, ctx, "handle_view"), req, notify, TRUE)

\* dispatch, on an owned message.
dispatch(handler, req, ctx, notify) ==
    response_to(Run(handler, req, ctx, "handle_with_ctx"), req, notify, FALSE)

run_route(outcome, req) ==
    IF Rejected(outcome)
    THEN [response |-> IF outcome.notify THEN None
                       ELSE create_error_response_unstamped_view(req, outcome.reject,
                                                                 outcome.reject),
          ran      |-> <<>>]
    ELSE dispatch_view(outcome.handler, req, "detached", outcome.notify)

route_request_view(r, req) == run_route(route(r, req), req)

\* The response frame; the query is echoed as it is written.
framed(response, query) ==
    IF response = None THEN None ELSE write_view_response(response, query)

\* Router::call and call_into: one frame in, one frame or nothing out.
call_into(r, frame) ==
    LET view == view_from_slice_exact(frame) IN
    IF ~IsOk(view)
    THEN write_message(create_error_message(to_error_code(view.err), to_error_code(view.err)))
    ELSE framed(route_request_view(r, view.ok).response, view.ok.query)
-----------------------------------------------------------------------------
Init ==
    /\ scenario \in Scenarios
    /\ router = EmptyRouter
    /\ todo = scenario.steps

Take(s) == todo' = todo \ {s} /\ UNCHANGED scenario

RegisterRoute ==
    \E s \in todo :
        /\ s.op \in {"typed", "typed_slice", "typed_slice_ref", "typed_ctx", "typed_blocking",
                     "typed_ctx_blocking", "handler", "erased_handler"}
        /\ router' = CASE s.op = "typed" -> with_typed(router, s.path, s.f)
                       [] s.op = "typed_slice" -> with_typed_slice(router, s.path, s.f)
                       [] s.op = "typed_slice_ref" -> with_typed_slice_ref(router, s.path, s.f)
                       [] s.op = "typed_ctx" -> with_typed_ctx(router, s.path, s.f)
                       [] s.op = "typed_blocking" -> with_typed_blocking(router, s.path, s.f)
                       [] s.op = "typed_ctx_blocking" ->
                              with_typed_ctx_blocking(router, s.path, s.f)
                       [] s.op = "handler" -> with_handler(router, s.path, s.f)
                       [] s.op = "erased_handler" -> with_erased_handler(router, s.path, s.f)
        /\ Take(s)

RegisterFallback ==
    \E s \in todo :
        /\ s.op = "fallback"
        /\ router' = IF s.blocking THEN register_fallback_blocking(router, s.f)
                     ELSE register_fallback(router, s.f)
        /\ Take(s)

SetMountFallthrough ==
    \E s \in todo :
        /\ s.op = "fallthrough"
        /\ router' = set_mount_fallthrough(router, s.enabled)
        /\ Take(s)

RegisterMiddleware ==
    \E s \in todo :
        /\ s.op = "middleware"
        /\ router' = register_middleware(router, s.middleware)
        /\ Take(s)

RegisterStruct ==
    \E s \in todo :
        /\ s.op = "struct"
        /\ router' = register_struct_shared(router, s.path, s.members)
        /\ Take(s)

RegisterRegistry ==
    \E s \in todo :
        /\ s.op = "registry"
        /\ router' = register_registry(router, s.path, s.functions)
        /\ Take(s)

Next ==
    \/ RegisterRoute \/ RegisterFallback \/ SetMountFallthrough
    \/ RegisterMiddleware \/ RegisterStruct \/ RegisterRegistry

Spec == Init /\ [][Next]_vars
-----------------------------------------------------------------------------
(***************************************************************************)
(* Properties of the answers to scenario.requests, in every state.         *)
(***************************************************************************)
\* The table an outsider would write down: who answers a path, unwrapped.
Target(path) ==
    LET registry == first_match(router.registries, path)
        struct   == first_match(router.structs, path)
        At(entry, mount) == [raw |-> entry.raw, mount |-> mount]
    IN  IF path \in DOMAIN router.inner THEN At(router.inner[path], FALSE)
        ELSE IF registry > 0 THEN At(router.registries[registry], TRUE)
        ELSE IF struct > 0 THEN At(router.structs[struct], TRUE)
        ELSE IF router.fallback # None THEN At(router.fallback, FALSE)
        ELSE None

FallsThrough(target) ==
    target.mount /\ router.mount_fallthrough /\ router.fallback # None

Names(ran) == [i \in DOMAIN ran |-> ran[i][1]]

IsMethodNotFound(out) ==
    IF IsOk(out) THEN out.ok.header.ec = "MethodNotFound" ELSE out.err = "MethodNotFound"

\* The middleware in the order they were registered, each once, up to one that
\* answers itself; then the target; then the fallback, if the target is a mount
\* that has no such method.
Expected(req, target, own, other) ==
    LET stopper == SelectInSeq(router.middlewares, LAMBDA m : m.stops)
        around  == IF stopper = 0 THEN router.middlewares
                   ELSE SubSeq(router.middlewares, 1, stopper)
        round   == [i \in DOMAIN around |-> around[i].name]
    IN  IF stopper # 0
        THEN [out |-> Err("ApplicationErrorBase"), names |-> round]
        ELSE IF FallsThrough(target) /\ IsMethodNotFound(own.out)
        THEN [out |-> other.out, names |-> round \o Names(own.ran) \o Names(other.ran)]
        ELSE [out |-> own.out, names |-> round \o Names(own.ran)]

Outer(handler, req) == Run(handler, req, "peer", "handle_with_ctx")

Routed(req) == ~Rejected(route(router, req))

\* What a request runs and answers depends on what is registered in the end, not
\* on the order of the calls that got there (of two registrations under one
\* path, and of two settings of a switch, the later one counts): middleware goes round every route,
\* mount and fallback exactly once, whichever came first, and a mount falls
\* through exactly when it says MethodNotFound.
AnswersAsConfigured ==
    \A req \in scenario.requests : Routed(req) =>
        \A target \in {Target(query_str(req))} :
            \A own \in {Outer(target.raw, req)},
               other \in {IF FallsThrough(target) THEN Outer(router.fallback.raw, req) ELSE None},
               ran \in {Outer(route(router, req).handler, req)} :
                LET expected == Expected(req, target, own, other) IN
                ran.out = expected.out /\ Names(ran.ran) = expected.names

\* A handler registered as blocking never runs on the connection's reader,
\* whatever wraps it, a mount whose fallback is blocking included; and nothing
\* else leaves the reader.
BlockingStaysOff ==
    \A req \in scenario.requests :
        Routed(req) =>
            LET target == Target(query_str(req)) IN
            execution(route(router, req).handler) = "OffReader"
                <=> \/ target.raw.kind = "off_reader"
                    \/ FallsThrough(target) /\ router.fallback.raw.kind = "off_reader"

\* The frames the transports put on the wire: the TCP servers echo the query
\* as they write, the WebSocket server stamps it into the response, on the
\* reader or off it.
TcpFrame(req) == framed(route_request_view(router, req).response, req.query)

Stamped(response, req) ==
    IF response = None THEN None ELSE to_vec(stamp_response_query(response, req.query))

WsFrame(req, outcome, Dispatch(_, _, _, _)) ==
    IF Rejected(outcome) THEN Stamped(run_route(outcome, req).response, req)
    ELSE Stamped(Dispatch(outcome.handler, req, "peer", outcome.notify).response, req)

\* Every transport and entry point answers a request with the same bytes: the
\* borrowing path, the owned one off the reader, and a plugin's call.  Those
\* bytes are one well-formed frame that carries the request's id, and its query
\* unless the handler set one; a notify runs the same functions and is never
\* answered.
TransportsAgree ==
    \A req \in scenario.requests :
        \A tcp \in {TcpFrame(req)}, outcome \in {route(router, req)} :
            /\ WsFrame(req, outcome, dispatch_view) = tcp
            /\ WsFrame(req, outcome, dispatch) = tcp
            /\ call_into(router, to_vec(req)) = tcp
            /\ tcp = None <=> req.header.notify = 1
            /\ tcp # None =>
                  \A parsed \in {view_from_slice_exact(tcp)} :
                      /\ IsOk(parsed)
                      /\ parsed.ok.header.id = req.header.id
                      /\ parsed.ok.query \in {req.query, scenario.own_query}
            /\ ~Rejected(outcome) =>
                  Names(dispatch_view(outcome.handler, req, "peer", TRUE).ran)
                      = Names(dispatch(outcome.handler, req, "peer", FALSE).ran)

\* Over WebSocket a function and a middleware that take a context are given
\* the calling peer's, however many wrappers are in between.
PeerReaches ==
    \A req \in scenario.requests :
        Routed(req) =>
            LET h == route(router, req).handler IN
            \A ran \in {dispatch_view(h, req, "peer", FALSE).ran,
                        dispatch(h, req, "peer", FALSE).ran} :
                \A i \in DOMAIN ran : ran[i][2] \in {"peer", None}
=============================================================================
