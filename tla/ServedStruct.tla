---------------------------- MODULE ServedStruct ----------------------------
(***************************************************************************)
(* A struct served behind a lock (RegisteredStruct in src/server.rs).  The *)
(* connections' threads handle their requests at once; each is answered    *)
(* under a shared guard when the lock has that mode and the struct does    *)
(* not decline, and under the exclusive one otherwise.                     *)
(*                                                                         *)
(* A scenario has a `part': "serve" is the above; "args" and "declare" are *)
(* single states, an argument list and a declaration, for the properties   *)
(* of the pure definitions.                                                *)
(***************************************************************************)
EXTENDS StructDispatch

CONSTANT Scenarios

VARIABLES
    scenario,   \* the type, the lock and the requests
    value,      \* the struct
    lock,       \* [readers, writer, poisoned]
    handling    \* per request: [pc, buf, answer, out, ran]

vars == <<scenario, value, lock, handling>>

Requests == IF scenario.part = "serve" THEN DOMAIN scenario.requests ELSE {}
Type == scenario.type
Request(i) == scenario.requests[i]
Readable(r) == r.body = None \/ r.format \in {"Json", "Utf8", "Beve"}

Init ==
    /\ scenario \in Scenarios
    /\ value = IF scenario.part = "serve" THEN scenario.value ELSE None
    /\ lock = [readers |-> {}, writer |-> None, poisoned |-> FALSE]
    /\ handling = [i \in Requests |->
                      [pc |-> "arrived", buf |-> <<>>, answer |-> None, out |-> None, ran |-> <<>>]]

Answered(i, answer, out, ran) ==
    handling' = [handling EXCEPT ![i] = [pc |-> "answered", buf |-> <<>>, answer |-> answer,
                                         out |-> out, ran |-> @.ran \o ran]]

Goto(i, pc) == handling' = [handling EXCEPT ![i].pc = pc]
-----------------------------------------------------------------------------
\* RegisteredStruct::handle up to the first lock: a path outside the mount, then
\* a body in a format nobody reads (an empty frame needs none), then a pointer
\* with a bad escape, which has no segments.
Arrive(i) ==
    LET r == Request(i) IN
    /\ handling[i].pc = "arrived"
    /\ \/ /\ ~r.below
          /\ Answered(i, "MethodNotFound", None, <<>>)
       \/ /\ r.below /\ ~Readable(r)
          /\ Answered(i, "InvalidBody", None, <<>>)
       \/ /\ r.below /\ Readable(r) /\ r.segs = None
          /\ Answered(i, "MethodNotFound", None, <<>>)
       \/ /\ r.below /\ Readable(r) /\ r.segs # None
          /\ Goto(i, IF /\ scenario.lock.shared
                        /\ r.body = None \/ repe_shared_serves_bodies(Type)
                     THEN "shared" ELSE "exclusive")
    /\ UNCHANGED <<scenario, value, lock>>

lock_error_response(i) == Answered(i, "ParseError", None, <<>>)

\* Lockable::with_read takes the shared guard.
read(i) ==
    /\ handling[i].pc = "shared"
    /\ lock.writer = None
    /\ \/ /\ lock.poisoned
          /\ lock_error_response(i)
          /\ UNCHANGED lock
       \/ /\ ~lock.poisoned
          /\ lock' = [lock EXCEPT !.readers = @ \cup {i}]
          /\ Goto(i, "reading")
    /\ UNCHANGED <<scenario, value>>

\* One buffer for both attempts.
response_buffer(i) == [with_format(Request(i).format) EXCEPT !.buf = handling[i].buf]

\* finish_struct_response: an error response carries no body.
finish_struct_response(i, d, ran) ==
    Answered(i, code(d.answer), IF IsOk(d.answer) THEN d.out ELSE None, ran)

\* The dispatch under the shared guard, which the closure's end lets go.  A
\* decline clears the buffer.  A panic here poisons nothing: the guard is not
\* a writer's.
shared_struct_segments(i) ==
    /\ handling[i].pc = "reading"
    /\ \E d \in {dispatch(Type, TRUE, value, Request(i).segs, Request(i).body, response_buffer(i))} :
        /\ \/ /\ d.answer = None
              /\ handling' = [handling EXCEPT ![i].pc = "exclusive", ![i].buf = <<>>,
                                              ![i].ran = @ \o d.ran]
           \/ /\ d.answer # None
              /\ finish_struct_response(i, d, d.ran)
        /\ lock' = [lock EXCEPT !.readers = @ \ {i}]
        /\ UNCHANGED <<scenario, value>>

\* Lockable::lock: the exclusive guard.
write_lock(i) ==
    /\ handling[i].pc = "exclusive"
    /\ lock.writer = None /\ lock.readers = {}
    /\ \/ /\ lock.poisoned
          /\ lock_error_response(i)
          /\ UNCHANGED lock
       \/ /\ ~lock.poisoned
          /\ lock' = [lock EXCEPT !.writer = i]
          /\ Goto(i, "writing")
    /\ UNCHANGED <<scenario, value>>

\* The dispatch under the exclusive guard; a std lock whose guard unwinds is
\* poisoned.
dispatch_struct_segments(i) ==
    /\ handling[i].pc = "writing"
    /\ \E d \in {dispatch(Type, FALSE, value, Request(i).segs, Request(i).body, response_buffer(i))} :
        /\ value' = d.value
        /\ lock' = [lock EXCEPT !.writer = None,
                                !.poisoned = @ \/ (scenario.lock.poisons /\ code(d.answer) = "panic")]
        /\ finish_struct_response(i, d, d.ran)
        /\ UNCHANGED scenario

Handle(i) ==
    \/ Arrive(i)
    \/ read(i)
    \/ shared_struct_segments(i)
    \/ write_lock(i)
    \/ dispatch_struct_segments(i)

Next == \E i \in Requests : Handle(i)

Spec == Init /\ [][Next]_vars
-----------------------------------------------------------------------------
\* A request is answered alike under either borrow, from every value the
\* struct gets into: whatever the shared attempt does answer, the exclusive
\* one would have answered with the same outcome and the same bytes, and the
\* attempt itself leaves the value as it was (REPE_SHARED_SERVES_BODIES and
\* the lock's kind can therefore never show).
AnswersAlike ==
    \A i \in Requests : Request(i).segs # None =>
        LET Under(shared) == dispatch(Type, shared, value, Request(i).segs, Request(i).body,
                                      with_format(Request(i).format))
        IN  \A sh \in {Under(TRUE)}, ex \in {Under(FALSE)} :
                /\ sh.value = value
                /\ sh.answer # None =>
                      /\ sh.answer = ex.answer
                      /\ ex.value = value
                      /\ IsOk(ex.answer) => sh.out = ex.out

\* No request calls a method or a getter twice, though it may be dispatched
\* twice: a listing settles that no entry can decline, at any depth, before
\* it calls the first getter.  For derived types: a hand-written child that
\* promises not to decline and does is served a second time, as
\* repe_listing_declines documents.
RunsOnce == \A i \in Requests : IsInjective(handling[i].ran)

RECURSIVE AfterValue(_, _, _), AfterMembers(_, _, _, _)

\* Where the value that begins at i ends, or 0 if none does.
AfterValue(buf, i, format) ==
    IF i = 0 \/ i > Len(buf) THEN 0
    ELSE IF buf[i][1] # format THEN 0
    ELSE IF buf[i][2] \in {"value", "null", "signature"} THEN i + 1
    ELSE IF buf[i][2] # "{" THEN 0
    ELSE LET last == AfterMembers(buf, i + 1, format, buf[i][3][1]) IN
         IF format = "Beve" \/ last = 0 THEN last
         ELSE IF last <= Len(buf) /\ buf[last][2] = "}" THEN last + 1 ELSE 0

AfterMembers(buf, i, format, n) ==
    IF n = 0 \/ i = 0 THEN i
    ELSE IF i > Len(buf) \/ buf[i][2] # "key" THEN 0
    ELSE AfterMembers(buf, AfterValue(buf, i + 1, format), format, n - 1)

\* A successful body is exactly one value, in the one format the response
\* declares, every object with the members its header counts, whatever an
\* earlier attempt or a failed entry had begun to write.
BodyWellFormed ==
    \A i \in Requests : handling[i].answer = "Ok" =>
        LET out == handling[i].out IN AfterValue(out.buf, 1, out.format) = Len(out.buf) + 1

RECURSIVE Leaves(_, _), Writes(_, _)

\* The leaves of a value, <<path, content>>; calls count as the leaf "hits".
Leaves(type, v) ==
    CASE type.kind = "derived" ->
             { << <<"hits">>, v["hits"]>> } \cup
             UNION { LET f == type.fields[k] IN
                     { << <<f.endpoint>> \o leaf[1], leaf[2]>> :
                          leaf \in Leaves(f.ty, v[f.endpoint]) } :
                     k \in DOMAIN type.fields }
      [] type.kind = "optional" -> IF v = None THEN {} ELSE Leaves(type.inner, v)
      [] type.kind \in {"leaf", "handwritten"} -> { << <<>>, v>> }

\* Whether a document says something of the leaf at a path below it.
Writes(document, path) ==
    \/ document.kind = "null"
    \/ document.kind = "number" /\ path = <<>>
    \/ /\ document.kind = "object" /\ path # <<>>
       /\ \E k \in DOMAIN document.items :
             document.items[k][1] = Head(path) /\ Writes(document.items[k][2], Tail(path))

\* A write changes nothing its path and its document do not name: the keys a
\* body omits keep their values at any depth, and a request that names no
\* member changes nothing.  Calls are apart: they change only "hits".
WriteStaysPut ==
    \A i \in Requests :
        (handling[i].pc = "writing" /\ handling'[i].pc = "answered") =>
            LET r == Request(i) IN
            \A leaf \in Leaves(Type, value) \ Leaves(Type, value') :
                /\ handling'[i].answer \in {"Ok", "InvalidBody"} \/ Last(leaf[1]) = "hits"
                /\ \/ /\ r.body # None
                      /\ IsPrefix(r.segs, leaf[1])
                      /\ Writes(r.body.document, SubSeq(leaf[1], Len(r.segs) + 1, Len(leaf[1])))
                   \/ Last(leaf[1]) = "hits" /\ handling'[i].ran # <<>>

\* After a panic under the exclusive guard of a std lock nobody sees or
\* changes what it left behind: every later request that gets to the lock is
\* answered with the lock's error, on the shared path as on the exclusive one.
PanicIsQuarantined ==
    lock.poisoned =>
        /\ value' = value
        /\ lock'.poisoned
        /\ \A i \in Requests :
              handling'[i] # handling[i] /\ handling'[i].pc = "answered" =>
                  handling'[i].answer \in {"ParseError", "MethodNotFound", "InvalidBody"}
                      /\ handling'[i].out = None /\ handling'[i].ran = handling[i].ran

\* A guard is held exactly by the requests being dispatched under it, and
\* never with a writer beside another holder.  An attempt that declined holds
\* nothing, so the request cannot wait for itself, and since no dispatch waits
\* for a guard some request can always go on until all are answered.
GuardsFollowAttempts ==
    LET At(pc) == {i \in Requests : handling[i].pc = pc} IN
    /\ lock.readers = At("reading")
    /\ At("writing") = IF lock.writer = None THEN {} ELSE {lock.writer}
    /\ lock.writer # None => lock.readers = {}

\* A call of two or more arguments is the same call in every form the wire
\* has for it: an array, a typed array of numbers, and an object in any order, with
\* stale repeats before the last, keys nobody declared, and omitted nulls.
ArgsAlike ==
    scenario.part = "args" =>
        LET params == scenario.params
            items  == scenario.items
            Call(document) == decode_method_args(params, [document |-> document])
            keyed  == [k \in DOMAIN params |-> <<params[k].name, items[k]>>]
            stale  == [k \in DOMAIN params |-> <<params[k].name, Number(<<9>>)>>]
            given  == SelectSeq(Reverse(keyed), LAMBDA e : e[2].kind # "null")
        IN  /\ (\A k \in DOMAIN items : items[k].kind = "number") =>
                  Call(Array(items, TRUE)) = Call(Array(items, FALSE))
            /\ Call(Object(keyed)) = Call(Array(items, FALSE))
            /\ Call(Object(stale \o <<<<"unknown", Null>>>> \o Reverse(keyed)))
                   = Call(Array(items, FALSE))
            /\ Call(Object(given)) = Call(Array(items, FALSE))

\* A declaration that compiles lists every endpoint it serves exactly once,
\* in whichever of the four places it was declared and whatever its order.
ListingComplete ==
    scenario.part = "declare" /\ compiles(scenario.declaration) =>
        LET d      == scenario.declaration
            Named(names) == [k \in DOMAIN names |-> [endpoint |-> names[k]]]
            table(names) == IF d.block THEN Named(names) ELSE <<>>
            keys   == listing_entries([fields |-> Named(d.fields), listed |-> Named(d.listed),
                                       table |-> table(d.methods), accessors |-> table(d.getters),
                                       order |-> d.order])
            served == ToSet(declared(d))
                          \cup (IF d.block THEN ToSet(d.methods) \cup ToSet(d.getters) ELSE {})
        IN  IsInjective(keys) /\ ToSet(keys) = served
=============================================================================
