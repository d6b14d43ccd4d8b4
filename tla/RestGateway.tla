---------------------------- MODULE RestGateway ----------------------------
(***************************************************************************)
(* The REST gateway (rest.rs): the path of a URL as a JSON Pointer, the    *)
(* verbs as calls of a registry, and the accept loop that serves at most   *)
(* max_connections connections.                                            *)
(*                                                                         *)
(* HTTP and hyper are external: a request is a record, and a connection    *)
(* awaits a head, then a body.  An HTTP/2 connection (scenario.http2) is   *)
(* served like one of HTTP/1 that carries its streams one by one, without  *)
(* the time limit on heads.  The registry holds three functions, the       *)
(* counter of the module's documentation (a body sets it, no body reads    *)
(* it), one that fails and one that panics.  An encoded body is the pair   *)
(* of its representation and its value; FNV is taken to have no            *)
(* collisions.                                                             *)
(***************************************************************************)
EXTENDS JsonPointer

CONSTANTS HttpConns, Scenarios

VARIABLES scenario,   \* the mount, the policy, and what the clients send
          located,    \* what the targets address: locate, tabulated
          counter,    \* what the registered function holds
          gate,       \* the accept loop and its semaphore
          http        \* the connections, from both ends
fixed == <<scenario, located>>
vars == <<fixed, counter, gate, http>>
-----------------------------------------------------------------------------
(***************************************************************************)
(* From a path to a pointer.                                               *)
(***************************************************************************)
\* Of the hex digits, four are used: their pairs are "/", "~", other ASCII
\* characters, which "." stands for, and bytes that no UTF-8 string has alone.
hex_nibble(x) == IF x \in {"2", "7", "E", "F"} THEN x ELSE None
Decoded(hi, lo) ==
    CASE hi \notin {"2", "7"} -> None
      [] hi = "2" /\ lo = "F" -> "/"
      [] hi = "7" /\ lo = "E" -> "~"
      [] OTHER -> "."

\* One character of percent_decode's loop: `digits' counts what an escape
\* still lacks.
PercentChar(scan, x) ==
    CASE scan.digits = 0 /\ x = "%" -> [scan EXCEPT !.digits = 2]
      [] scan.digits = 0 /\ x # "%" -> [scan EXCEPT !.out = Append(@, x)]
      [] scan.digits = 2 ->
            [scan EXCEPT !.digits = 1, !.hi = x, !.ok = @ /\ hex_nibble(x) # None]
      [] scan.digits = 1 ->
            [scan EXCEPT !.digits = 0, !.out = Append(@, Decoded(scan.hi, x)),
                         !.ok = @ /\ hex_nibble(x) # None /\ Decoded(scan.hi, x) # None]

percent_decode(segment) ==
    LET scan == FoldLeft(PercentChar, [out |-> <<>>, digits |-> 0, hi |-> "0", ok |-> TRUE], segment)
    IN  IF scan.ok /\ scan.digits = 0 THEN scan.out ELSE None

strip_suffix(path) == IF path # <<>> /\ Last(path) = "/" THEN Front(path) ELSE path

path_to_pointer(path) ==
    LET absolute == strip_suffix(path)
        decoded  == [i \in 1 .. Len(split(absolute, "/")) - 1 |->
                        percent_decode(split(absolute, "/")[i + 1])]
    IN  CASE absolute = <<>> -> <<>>
          [] absolute # <<>> /\ ~starts_with(absolute, "/") -> None
          [] absolute # <<>> /\ starts_with(absolute, "/") ->
                IF collect(decoded) = None THEN None
                ELSE FlattenSeq([i \in DOMAIN decoded |-> <<"/">> \o escape_token(decoded[i])])

strip_mount(mount, path) ==
    LET rest == strip_prefix(path, mount) IN
    IF mount = <<>> THEN path
    ELSE IF rest # None /\ (rest = <<>> \/ starts_with(rest, "/")) THEN rest
    ELSE None
-----------------------------------------------------------------------------
(***************************************************************************)
(* From a request to a response.                                           *)
(***************************************************************************)
\* The entries of Accept in order; q is in thousandths.  An earlier entry wins
\* a tie, and q = 0 refuses.
negotiate(accept) ==
    LET Better(best, entry) ==
            IF entry.media \in {"json", "beve"} /\ entry.q > best.q THEN entry ELSE best
    IN  FoldLeft(Better, [media |-> "json", q |-> 0], accept).media

\* RestResponse::empty and RestResponse::problem.
empty(status) ==
    [status |-> status, media |-> None, etag |-> None, allow |-> None,
     omit_body |-> FALSE, code |-> None, body |-> None]
problem(status, code) ==
    [empty(status) EXCEPT !.media = "problem", !.code = code, !.body = "problem"]

ALLOW_READ_ONLY == {"GET", "HEAD", "OPTIONS"}
ALLOW_CALL == ALLOW_READ_ONLY \cup {"PUT", "POST"}
allow == IF scenario.read_only THEN ALLOW_READ_ONLY ELSE ALLOW_CALL
method_not_allowed == [problem(405, None) EXCEPT !.allow = allow]

status_for(code) ==
    CASE code = "MethodNotFound" -> 404
      [] code = "ApplicationErrorBase" -> scenario.application_error_status
      [] code = "Timeout" -> 504
      [] code = "ResourceExhausted" -> 503
      [] code = "InternalError" -> 500
      [] OTHER -> 400
problem_for(code) == problem(status_for(code), code)

\* Registry::call finds a function by its canonical key.  The functions are
\* external: the counter, one that fails and one that panics ("panic" is the
\* unwinding, which no caller below handle stops).  `params' is None, or the
\* argument; `to' is what the counter holds afterwards.
invoke(pointer, params, repr) ==
    CASE canonical_key(pointer) = <<"/", "c">> ->
            IF params = "bad" THEN [err |-> "InvalidBody", to |-> counter]
            ELSE LET now == IF params = None THEN counter ELSE params
                 IN  [err |-> None, to |-> now, body |-> <<repr, now>>]
      [] canonical_key(pointer) = <<"/", "b">> ->
            [err |-> "ApplicationErrorBase", to |-> counter]
      [] canonical_key(pointer) = <<"/", "p">> -> [err |-> "panic", to |-> counter]
      [] OTHER -> [err |-> "MethodNotFound", to |-> counter]

\* Mutant: the tag is of the value, whatever the representation.
etag_for_Value(body) == [fnv |-> body[2]]

etag_for(body) == [fnv |-> body]

\* The header is absent ("none"), "*" ("any") or the tag of what the client
\* keeps ("cached").
if_none_match_matches(request, etag) ==
    request.if_none_match = "any" \/ (request.if_none_match = "cached" /\ request.tag = etag)

\* What a response does to the counter goes with it.
Unchanged(response) == [response |-> response, to |-> counter]

read(pointer, request) ==
    LET result == invoke(pointer, None, negotiate(request.accept)) IN
    IF result.err # None THEN Unchanged(problem_for(result.err))
    ELSE LET etag == etag_for(result.body) IN
         [to |-> result.to,
          response |->
             IF if_none_match_matches(request, etag)
             THEN [empty(304) EXCEPT !.etag = etag]
             ELSE [empty(200) EXCEPT !.etag = etag, !.body = result.body,
                      !.media = result.body[1], !.omit_body = (request.method = "HEAD")]]

body_format(content_type) ==
    CASE content_type \in {None, "json", "form"} -> "json"
      [] content_type = "beve" /\ scenario.accept_beve_bodies -> "beve"
      [] OTHER -> None

call(pointer, request) ==
    CASE scenario.read_only -> Unchanged(method_not_allowed)
      [] ~scenario.read_only /\ request.body = None -> Unchanged(problem(400, "InvalidBody"))
      [] ~scenario.read_only /\ request.body # None /\ body_format(request.content_type) = None ->
            Unchanged(problem(415, "InvalidBody"))
      [] OTHER ->
            LET result == invoke(pointer, request.body, negotiate(request.accept)) IN
            IF result.err # None THEN Unchanged(problem_for(result.err))
            ELSE [to |-> result.to,
                  response |-> [empty(200) EXCEPT !.media = result.body[1], !.body = result.body]]

\* The first half of respond: the path of a target, and what it addresses.
locate(target) ==
    LET path      == split(split(target, "?")[1], "#")[1]
        remainder == strip_mount(scenario.mount, path)
    IN  [star    |-> path = <<"*">>,
         mounted |-> remainder # None,
         pointer |-> IF remainder = None THEN None ELSE path_to_pointer(remainder)]

respond(request, at) ==
    IF request.method = "OPTIONS" /\ at.star THEN Unchanged([empty(204) EXCEPT !.allow = allow])
    ELSE IF ~at.mounted THEN Unchanged(problem(404, None))
    ELSE IF at.pointer = None THEN Unchanged(problem(400, None))
    ELSE CASE request.method \in {"GET", "HEAD"} -> read(at.pointer, request)
           [] request.method \in {"PUT", "POST"} -> call(at.pointer, request)
           [] request.method = "OPTIONS" -> Unchanged([empty(204) EXCEPT !.allow = allow])
           [] OTHER -> Unchanged(method_not_allowed)
-----------------------------------------------------------------------------
(***************************************************************************)
(* serve: the accept loop.  The lengths of its pauses are left out.        *)
(***************************************************************************)
Init ==
    /\ scenario \in Scenarios
    /\ located = [target \in UNION {{r.target : r \in Range(scenario.requests[c])} : c \in HttpConns} |-> locate(target)]
    /\ counter = "zero"
    /\ gate = [pc |-> "acquire", permits |-> scenario.max_connections, faults |-> 0]
    /\ http = [c \in HttpConns |->
                 [pc |-> "backlog", open |-> TRUE, next |-> 1, arrived |-> FALSE,
                  closing |-> FALSE, response |-> None, cache |-> None]]

Acquire ==
    /\ gate.pc = "acquire" /\ gate.permits > 0
    /\ gate' = [gate EXCEPT !.pc = "accept", !.permits = @ - 1]
    /\ UNCHANGED <<fixed, counter, http>>

\* Mutant: the permit is not moved into the task, and goes with the iteration.
Accept_KeepsPermit(c) ==
    /\ gate.pc = "accept" /\ http[c].pc = "backlog"
    /\ gate' = [gate EXCEPT !.pc = "acquire", !.permits = @ + 1]
    /\ http' = [http EXCEPT ![c].pc = "head"]
    /\ UNCHANGED <<fixed, counter>>

\* The permit goes to the connection's task.
Accept(c) ==
    /\ gate.pc = "accept" /\ http[c].pc = "backlog"
    /\ gate' = [gate EXCEPT !.pc = "acquire"]
    /\ http' = [http EXCEPT ![c].pc = "head"]
    /\ UNCHANGED <<fixed, counter>>

\* is_per_connection_accept_error: the client left the backlog, and the
\* iteration drops the permit.
AcceptAborted(c) ==
    /\ gate.pc = "accept" /\ http[c].pc = "backlog" /\ ~http[c].open
    /\ gate' = [gate EXCEPT !.pc = "acquire", !.permits = @ + 1]
    /\ http' = [http EXCEPT ![c].pc = "closed"]
    /\ UNCHANGED <<fixed, counter>>

\* Any other error, at most scenario.faults of them: the permit is held over
\* the pause.
AcceptFails ==
    /\ gate.pc = "accept" /\ gate.faults < scenario.faults
    /\ gate' = [gate EXCEPT !.pc = "sleep", !.faults = @ + 1]
    /\ UNCHANGED <<fixed, counter, http>>

Wake ==
    /\ gate.pc = "sleep"
    /\ gate' = [gate EXCEPT !.pc = "acquire", !.permits = @ + 1]
    /\ UNCHANGED <<fixed, counter, http>>
-----------------------------------------------------------------------------
(***************************************************************************)
(* The task of a connection: hyper, external, around handle.               *)
(***************************************************************************)
Request(c) ==
    [scenario.requests[c][http[c].next] EXCEPT !.tag =
        IF http[c].cache = None THEN None ELSE http[c].cache.etag]

\* The client sends a head, and a body if there is one; or leaves.
SendHead(c) ==
    /\ http[c].pc = "head" /\ http[c].open /\ http[c].next <= Len(scenario.requests[c])
    /\ http' = [http EXCEPT ![c].pc = "body", ![c].arrived = (Request(c).body = None)]
    /\ UNCHANGED <<fixed, counter, gate>>

SendBody(c) ==
    /\ http[c].pc = "body" /\ http[c].open /\ ~http[c].arrived
    /\ http' = [http EXCEPT ![c].arrived = TRUE]
    /\ UNCHANGED <<fixed, counter, gate>>

HangUp(c) ==
    /\ http[c].open /\ http[c].pc # "closed"
    /\ http' = [http EXCEPT ![c].open = FALSE]
    /\ UNCHANGED <<fixed, counter, gate>>

Http2(c) == c \in scenario.http2

\* The task is over, by returning or by unwinding, and drops its permit.
Finish(c) ==
    /\ http' = [http EXCEPT ![c].pc = "closed"]
    /\ gate' = [gate EXCEPT !.permits = @ + 1]
    /\ UNCHANGED <<fixed, counter>>

\* handle, once the body is there: respond has no await, so that the timeout
\* cannot part a call from its answer.  A panic ends the task of an HTTP/1
\* connection; a stream of HTTP/2 has a task of its own.
handle(c) ==
    /\ http[c].pc = "body" /\ http[c].arrived
    /\ \E request \in {Request(c)} : \E at \in {located[request.target]} :
       \E answer \in {IF request.body = "too large" THEN Unchanged(problem(413, None))
                      ELSE respond(request, at)} :
          \/ /\ answer.response.code # "panic"
             /\ counter' = answer.to
             /\ http' = [http EXCEPT ![c].pc = "send", ![c].response = answer.response]
             /\ UNCHANGED <<fixed, gate>>
          \/ answer.response.code = "panic" /\ ~Http2(c) /\ Finish(c)
          \/ /\ answer.response.code = "panic" /\ Http2(c)
             /\ http' = [http EXCEPT ![c].pc = "head", ![c].next = @ + 1, ![c].arrived = FALSE]
             /\ UNCHANGED <<fixed, counter, gate>>

\* Mutant: only the head has a time limit.
request_timeout_response_Never(c) == FALSE /\ UNCHANGED vars

request_timeout_response(c) ==
    /\ scenario.request_timeout /\ http[c].pc = "body" /\ ~http[c].arrived
    /\ http' = [http EXCEPT ![c].pc = "send", ![c].response = problem(408, None),
                            ![c].closing = TRUE]
    /\ UNCHANGED <<fixed, counter, gate>>

\* The client takes the response.  What a GET gave it, it may keep.  HTTP/2
\* has no "Connection: close".
Sent(c) ==
    LET got == http[c].response
        keep == scenario.requests[c][http[c].next].method = "GET" /\ got.status = 200
    IN
    /\ http[c].pc = "send" /\ http[c].open /\ c \notin scenario.stalled
    /\ http[c].closing => Http2(c)
    /\ http' = [http EXCEPT ![c].pc = "head", ![c].next = @ + 1, ![c].arrived = FALSE,
                            ![c].response = None, ![c].closing = FALSE,
                            ![c].cache = IF keep THEN [etag |-> got.etag, body |-> got.body] ELSE @]
    /\ UNCHANGED <<fixed, counter, gate>>

\* The end of the task: the head's time limit, which is set for HTTP/1 alone,
\* or the end of the stream, a body that breaks off, a response written with
\* "Connection: close" or to nobody.
TaskEnds(c) ==
    /\ \/ http[c].pc = "head" /\ (~Http2(c) \/ ~http[c].open)
       \/ http[c].pc = "body" /\ ~http[c].open /\ ~http[c].arrived
       \/ /\ http[c].pc = "send"
          /\ ~http[c].open \/ (http[c].closing /\ ~Http2(c) /\ c \notin scenario.stalled)
    /\ Finish(c)

Loop == Acquire \/ (\E c \in HttpConns : Accept(c) \/ AcceptAborted(c)) \/ AcceptFails \/ Wake
Task(c) == handle(c) \/ request_timeout_response(c) \/ Sent(c) \/ TaskEnds(c)
Client(c) == SendHead(c) \/ SendBody(c) \/ HangUp(c)

Next == Loop \/ \E c \in HttpConns : Task(c) \/ Client(c)

\* The runtime runs the tasks and the timers.  Nothing makes a client send.
Fairness == WF_vars(Loop) /\ \A c \in HttpConns : WF_vars(Task(c))
-----------------------------------------------------------------------------
(***************************************************************************)
(* Properties.                                                             *)
(***************************************************************************)
\* A path made of the atoms below, and the keys it names when one reads it
\* atom by atom: "/" separates, an escape is the character it stands for.
Atom(a) ==
    CASE a = "slash" -> [raw |-> <<"/">>, is |-> None]
      [] a = "x" -> [raw |-> <<"x">>, is |-> <<"x">>]
      [] a = "tilde" -> [raw |-> <<"~">>, is |-> <<"~">>]
      [] a = "tilde 1" -> [raw |-> <<"~", "1">>, is |-> <<"~", "1">>]
      [] a = "%2F" -> [raw |-> <<"%", "2", "F">>, is |-> <<"/">>]
      [] a = "%7E" -> [raw |-> <<"%", "7", "E">>, is |-> <<"~">>]
      [] a = "%E2" -> [raw |-> <<"%", "E", "2">>, is |-> None]
      [] a = "%2" -> [raw |-> <<"%", "2">>, is |-> None]
Broken == {"%E2", "%2"}
Keys(atoms) ==
    LET segments == split(IF Last(atoms) = "slash" THEN Front(atoms) ELSE atoms, "slash")
    IN  [i \in 1 .. Len(segments) - 1 |->
            FlattenSeq([j \in DOMAIN segments[i + 1] |-> Atom(segments[i + 1][j]).is])]

\* rest.rs, path_to_pointer: the pointer of a path has the keys of the path
\* as its tokens, so that an escaped separator never separates and a "~" of
\* the URL is never an escape of the pointer; a path with a broken escape has
\* none.  There is one exception: "//" has the single empty key, but its pointer
\* is "/", which the registry takes for the root.  It registers nothing there,
\* so that both miss.
PathNamesItsKey(atoms) ==
    LET pointer == path_to_pointer(FlattenSeq([i \in DOMAIN atoms |-> Atom(atoms[i]).raw]))
    IN  IF \E i \in DOMAIN atoms : atoms[i] \in Broken THEN pointer = None
        ELSE IF Len(atoms) <= 1 THEN pointer = <<>>
        ELSE parse(pointer) = IF Keys(atoms) = << <<>> >> THEN <<>> ELSE Keys(atoms)

\* rest.rs, RestGateway::new: a gateway and a router with the same registry
\* under the same mount find the same function under the same name, as long as
\* no escape and no trailing separator is in it.
SameAddress(m, path) ==
    LET mount     == normalize_mount(m)
        remainder == strip_mount(mount, path)
    IN  (~Contains(path, "~") /\ (path = <<>> \/ Last(path) # "/")) =>
          IF matches(mount, path) /\ canonical_key(pointer_for(mount, path)) # None
          THEN /\ remainder # None
               /\ canonical_key(path_to_pointer(remainder)) = canonical_key(pointer_for(mount, path))
          ELSE remainder = None \/ path_to_pointer(remainder) = None

\* rest.rs, allow: a verb is refused with 405 if and only if OPTIONS does not
\* offer it for the same target.
AllowIsTrue ==
    \A c \in {c \in HttpConns : http[c].pc = "body"} :
    \A request \in {[Request(c) EXCEPT !.if_none_match = "none"]} :
    \A at \in {located[request.target]} :
    \A offer \in {respond([request EXCEPT !.method = "OPTIONS"], at).response} :
        (~at.star /\ offer.status = 204) =>
            \A m \in ALLOW_CALL \cup {"DELETE"} :
                (respond([request EXCEPT !.method = m], at).response.status = 405)
                  <=> m \notin offer.allow

\* rest.rs, read: a client that is told 304 for the tag of what it keeps has
\* what a plain GET would give it at that moment, whatever calls other
\* connections made in between and whatever representation it asks for.
Revalidation ==
    \A c \in {c \in HttpConns : http[c].pc = "body" /\ Request(c).if_none_match = "cached"} :
        (http'[c].pc = "send" /\ http'[c].response.status = 304) =>
            \A at \in {located[Request(c).target]} :
                http[c].cache.body
                  = respond([Request(c) EXCEPT !.if_none_match = "none"], at).response.body

\* rest.rs, serve: every permit is with the semaphore, with the accept loop or
\* with one connection being served, so that never more than max_connections
\* are and no error path loses one.
PermitsConserved ==
    gate.permits + (IF gate.pc = "acquire" THEN 0 ELSE 1)
      + Cardinality({c \in HttpConns : http[c].pc \in {"head", "body", "send"}})
    = scenario.max_connections

\* RestConfig::request_timeout: who waits in the backlog is served, although
\* other clients may stop in the middle of a request, if they speak HTTP/1 and
\* read their responses.
Waits(c) ==
    /\ http[c].pc = "backlog" /\ scenario.request_timeout
    /\ scenario.stalled = {} /\ scenario.http2 = {}
=============================================================================
