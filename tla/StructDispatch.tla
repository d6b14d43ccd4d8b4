--------------------------- MODULE StructDispatch ---------------------------
(***************************************************************************)
(* What a served struct does with one request: the code that               *)
(* #[derive(RepeStruct)] and #[repe::methods] generate (repe-derive) and   *)
(* the types it is written against (repe-core/src/structs.rs).             *)
(*                                                                         *)
(* A type is "derived" (its fields, the methods listed on the struct, and  *)
(* the methods and accessors of an annotated impl block), "optional"       *)
(* (Option<T>) or "handwritten" (serves itself exclusively and says        *)
(* whatever it likes of its listing).  A derived value maps the fields to  *)
(* their values, and "hits" to the calls that took &mut self.  Leaf        *)
(* values, arguments and results are sequences of numbers.  A skipped      *)
(* field is not on the wire and not in the type.                           *)
(*                                                                         *)
(* One generator makes both borrows, "exclusive" and "shared"; a shared    *)
(* dispatch answers None when it declines.  A dispatch gives its answer,   *)
(* the response body, the value it leaves and the functions it called.     *)
(***************************************************************************)
EXTENDS Naturals, SequencesExt

CONSTANT None

Ok == [ok |-> TRUE]
StructError(error, path) == [error |-> error, path |-> path]
IsOk(answer) == answer # None /\ "ok" \in DOMAIN answer

\* StructError::code, and a panic, which is no StructError.
code(answer) ==
    CASE IsOk(answer) -> "Ok"
      [] answer.error \in {"InvalidPath", "InvalidSubpath"} -> "MethodNotFound"
      [] answer.error \in {"BodyExpected", "BodyUnexpected", "Decode", "Arguments"} ->
             "InvalidBody"
      [] answer.error = "Execution" -> "ParseError"
      [] answer.error = "panic" -> "panic"

\* prepend_path: paths are relative to the struct that reports them.
prepend_path(answer, key) ==
    IF answer = None \/ IsOk(answer) THEN answer ELSE [answer EXCEPT !.path = <<key>> \o @]
-----------------------------------------------------------------------------
(***************************************************************************)
(* Documents, as structio reads them.  A kind is "number" (the items are   *)
(* the value), "null", "array", "object" (entries <<key, document>>) or    *)
(* "fault" (the parse stops here).                                         *)
(***************************************************************************)
Number(items) == [kind |-> "number", items |-> items]
Null == [kind |-> "null", items |-> <<>>]
Object(entries) == [kind |-> "object", items |-> entries]
Array(items, typed) == [kind |-> IF typed THEN "typed array" ELSE "array", items |-> items]
Fault == [kind |-> "fault", items |-> <<>>]

FieldOf(type, name) == SelectInSeq(type.fields, LAMBDA f : f.endpoint = name)

RECURSIVE Default(_), Merge(_, _, _)

Default(type) ==
    CASE type.kind = "derived" ->
             [name \in {type.fields[i].endpoint : i \in DOMAIN type.fields} \cup {"hits"} |->
                 IF name = "hits" THEN <<0>> ELSE Default(type.fields[FieldOf(type, name)].ty)]
      [] type.kind = "optional" -> None
      [] type.kind \in {"leaf", "handwritten"} -> <<0>>

\* One entry of a document, once its member has been read into.
Entered(so_far, name, into) ==
    [value |-> [so_far.value EXCEPT ![name] = into.value], whole |-> into.whole]

\* RequestBody::read_into: into the live value, member by member.  A key the
\* document omits keeps its value, an undeclared key is stepped over, and a
\* fault leaves the members before it written.
Merge(type, value, document) ==
    LET entry(so_far, e) ==
            IF ~so_far.whole THEN so_far
            ELSE IF FieldOf(type, e[1]) = 0
            THEN [so_far EXCEPT !.whole = e[2].kind # "fault"]
            ELSE Entered(so_far, e[1],
                         Merge(type.fields[FieldOf(type, e[1])].ty, so_far.value[e[1]], e[2]))
    IN  CASE type.kind \in {"leaf", "handwritten"} ->
                 [value |-> IF document.kind = "number" THEN document.items ELSE value,
                  whole |-> document.kind = "number"]
          [] type.kind = "optional" ->
                 IF document.kind = "null" THEN [value |-> None, whole |-> TRUE]
                 ELSE Merge(type.inner, IF value = None THEN Default(type.inner) ELSE value,
                            document)
          [] type.kind = "derived" ->
                 IF document.kind # "object" THEN [value |-> value, whole |-> FALSE]
                 ELSE FoldLeft(entry, [value |-> value, whole |-> TRUE], document.items)
-----------------------------------------------------------------------------
(***************************************************************************)
(* The arguments of a method: none, the body itself, or MethodArgs.        *)
(* A parameter is [name, optional]; null decodes as an optional one.       *)
(***************************************************************************)
read_arg(param, document) ==
    CASE document.kind = "number" -> document.items
      [] document.kind = "null" /\ param.optional -> <<>>
      [] OTHER -> None

\* split_json and split_beve: an array of exactly the arguments, typed or
\* not, or an object by name, where the last of a repeated key counts.
split(params, document) ==
    CASE document.kind \in {"array", "typed array"} ->
             IF Len(document.items) = Len(params) THEN document.items ELSE None
      [] document.kind = "object" ->
             [i \in DOMAIN params |->
                 LET at == SelectLastInSeq(document.items, LAMBDA e : e[1] = params[i].name)
                 IN  IF at = 0 THEN Null ELSE document.items[at][2]]
      [] OTHER -> None

Faulty(document) ==
    /\ document.kind \in {"array", "typed array", "object"}
    /\ \E i \in DOMAIN document.items :
          LET item == document.items[i] IN
          IF document.kind = "object" THEN item[2].kind = "fault" ELSE item.kind = "fault"

decoded(params, documents) ==
    LET args == [i \in DOMAIN params |-> read_arg(params[i], documents[i])] IN
    IF None \in Range(args) THEN [error |-> "Decode"] ELSE [args |-> args]

\* decode_method_args: [args] or [error].
decode_method_args(params, body) ==
    IF params = <<>> THEN [args |-> <<>>]
    ELSE IF body = None THEN [error |-> "BodyExpected"]
    ELSE IF Len(params) = 1 THEN decoded(params, <<body.document>>)
    ELSE IF Faulty(body.document) THEN [error |-> "Decode"]
    ELSE IF split(params, body.document) = None THEN [error |-> "Arguments"]
    ELSE decoded(params, split(params, body.document))
-----------------------------------------------------------------------------
(***************************************************************************)
(* ResponseBody and ObjectBody: a buffer of tokens <<format, what, of>>.   *)
(***************************************************************************)
with_format(requested) ==
    [buf |-> <<>>, requested |-> IF requested = "Beve" THEN "Beve" ELSE "Json",
     format |-> "Json", nested |-> FALSE]

write(out, what, value) ==
    [out EXCEPT !.buf = Append(@, <<out.requested, what, value>>),
                !.format = IF out.requested = "Beve" THEN "Beve" ELSE @]

write_null(out) == write(out, "null", <<>>)

write_typed_slice(out, value) ==
    IF out.nested THEN write(out, "value", value)
    ELSE [out EXCEPT !.buf = Append(@, <<"Beve", "value", value>>), !.format = "Beve"]

\* ResponseBody::object: the count of the members comes first.
object(out, entries) ==
    LET format == IF out.nested THEN out.format ELSE out.requested IN
    [buf |-> Append(out.buf, <<format, "{", <<entries>> >>), start |-> Len(out.buf),
     format |-> format, declared |-> entries, written |-> 0]

key(obj, name) ==
    [obj EXCEPT !.written = @ + 1, !.buf = Append(@, <<obj.format, "key", <<name>> >>)]

value_body(obj) ==
    [buf |-> obj.buf, requested |-> obj.format, format |-> obj.format, nested |-> TRUE]

\* entry_with and entry_try_with: an entry that fails or declines takes the
\* whole object with it.
entry_with(obj, answer, buf) ==
    [obj EXCEPT !.buf = IF IsOk(answer) THEN buf ELSE SubSeq(buf, 1, obj.start)]

finish(out, obj) ==
    [out EXCEPT !.format = IF out.nested THEN @ ELSE obj.format,
                !.buf = IF obj.format = "Beve" THEN obj.buf
                        ELSE Append(obj.buf, <<"Json", "}", <<>> >>)]
-----------------------------------------------------------------------------
(***************************************************************************)
(* What the macros publish of a type before any request.                   *)
(***************************************************************************)
methods(type) == type.listed \o type.table

\* Every endpoint, in declaration order, which is the order of the match arms.
members(type) == type.fields \o methods(type) \o type.accessors

AnyOf(seq, Test(_)) == \E i \in DOMAIN seq : Test(seq[i])

RECURSIVE repe_shared_serves_bodies(_), repe_listing_declines(_, _)

\* shared_body_terms: a hint; the router skips the shared attempt without it.
repe_shared_serves_bodies(type) ==
    CASE type.kind = "derived" ->
             \/ type.no_replace
             \/ AnyOf(methods(type), LAMBDA m : m.receiver = "Ref" /\ m.params # <<>>)
             \/ AnyOf(type.accessors, LAMBDA a : a.set \in {None, "Ref"})
             \/ AnyOf(type.fields, LAMBDA f :
                    f.readonly \/ repe_shared_serves_bodies(f.ty))
      [] type.kind = "optional" -> repe_shared_serves_bodies(type.inner)
      [] type.kind = "handwritten" -> TRUE
      [] type.kind = "leaf" -> FALSE

listing_decline_terms_OwnTable(type, value) ==
    AnyOf(type.accessors, LAMBDA a : a.get = "Mut")

\* A getter that takes &mut self, or a child, at any depth, that declines.
listing_decline_terms(type, value) ==
    \/ AnyOf(type.accessors, LAMBDA a : a.get = "Mut")
    \/ AnyOf(type.fields, LAMBDA f :
           repe_listing_declines(f.ty, value[f.endpoint]))

repe_listing_declines(type, value) ==
    CASE type.kind = "derived" -> listing_decline_terms(type, value)
      [] type.kind = "optional" -> value # None /\ repe_listing_declines(type.inner, value)
      [] type.kind = "handwritten" -> type.declines
      [] type.kind = "leaf" -> FALSE

\* listing_entries: declaration order, or the order the struct gives.
listing_entries(type) ==
    IF type.order = None THEN [i \in DOMAIN members(type) |-> members(type)[i].endpoint]
    ELSE type.order
-----------------------------------------------------------------------------
(***************************************************************************)
(* The dispatch, under either borrow.  `shared' is Borrow::Shared.         *)
(***************************************************************************)
Dispatched(answer, out, value, ran) ==
    [answer |-> answer, out |-> out, value |-> value, ran |-> ran]

refuse(error, segs, out, value) == Dispatched(StructError(error, segs), out, value, <<>>)
Decline(out, value) == Dispatched(None, out, value, <<>>)

emit_value(out, value) == write(out, "value", value)
Emit(how, out, value) ==
    CASE how = "null"        -> write_null(out)
      [] how = "value"       -> emit_value(out, value)
      [] how = "typed_slice" -> write_typed_slice(out, value)

\* call_and_emit: a &mut self call has its effect whether it returns, fails or
\* panics; only a success writes a body.
call_and_emit(callee, args, how, out, value) ==
    LET left == IF callee.receiver = "Mut" THEN [value EXCEPT !.hits = <<@[1] + 1>>] ELSE value
        ran  == << <<callee.endpoint>> >>
    IN  CASE callee.outcome = "ok" ->
                 Dispatched(Ok, Emit(how, out, left.hits \o FlattenSeq(args)), left, ran)
          [] callee.outcome = "err" ->
                 Dispatched(StructError("Execution", <<callee.endpoint>>), out, left, ran)
          [] callee.outcome = "panic" ->
                 Dispatched(StructError("panic", <<callee.endpoint>>), out, left, ran)

method_call(method, arguments, value, segs, out) ==
    IF "error" \in DOMAIN arguments THEN refuse(arguments.error, segs, out, value)
    ELSE call_and_emit(method, arguments.args, IF method.unit THEN "null" ELSE "value", out, value)

method_arm(method, shared, value, segs, body, out) ==
    IF shared /\ method.receiver = "Mut" THEN Decline(out, value)
    ELSE IF Len(segs) > 1 THEN refuse("InvalidSubpath", segs, out, value)
    ELSE method_call(method, decode_method_args(method.params, body), value, segs, out)

\* build_accessor_arm: shaped as a field's arm, whatever the method's receiver.
accessor_arm(accessor, shared, value, segs, body, out) ==
    LET half(receiver) == [endpoint |-> accessor.endpoint, receiver |-> receiver,
                           outcome |-> accessor.outcome]
        how == IF accessor.typed THEN "typed_slice" ELSE "value"
    IN  IF Len(segs) > 1 THEN refuse("InvalidSubpath", segs, out, value)
        ELSE IF body = None
        THEN IF shared /\ accessor.get = "Mut" THEN Decline(out, value)
             ELSE call_and_emit(half(accessor.get), <<>>, how, out, value)
        ELSE IF accessor.set = None THEN refuse("BodyUnexpected", segs, out, value)
        ELSE IF shared THEN Decline(out, value)
        ELSE IF body.document.kind # "number" THEN refuse("Decode", segs, out, value)
        ELSE call_and_emit(half(accessor.set), <<body.document.items>>, "null", out, value)

leaf_read(field, value, out) ==
    Dispatched(Ok, IF field.typed THEN write_typed_slice(out, value[field.endpoint])
                   ELSE emit_value(out, value[field.endpoint]), value, <<>>)

\* A write is acknowledged with null; what a failed one got to stays written.
written(whole, segs, out, left) ==
    Dispatched(IF whole THEN Ok ELSE StructError("Decode", segs),
               IF whole THEN write_null(out) ELSE out, left, <<>>)

leaf_write(merged, field, value, segs, out) ==
    written(merged.whole, segs, out, [value EXCEPT ![field.endpoint] = merged.value])

\* The other arm of build_field_arms.
leaf_arm(field, shared, value, segs, body, out) ==
    IF Len(segs) > 1 THEN refuse("InvalidSubpath", segs, out, value)
    ELSE IF body = None THEN leaf_read(field, value, out)
    ELSE IF field.readonly THEN refuse("BodyUnexpected", segs, out, value)
    ELSE IF shared THEN Decline(out, value)
    ELSE leaf_write(Merge(field.ty, value[field.endpoint], body.document), field, value, segs, out)

RECURSIVE dispatch(_, _, _, _, _, _)

\* A child's outcome, with the field it is at prefixed to its paths.
Prefixed(child, field, value) ==
    Dispatched(prepend_path(child.answer, field.endpoint), child.out,
               [value EXCEPT ![field.endpoint] = child.value],
               [i \in DOMAIN child.ran |-> <<field.endpoint>> \o child.ran[i]])

\* A child is entered under the same borrow.
child_call(field, shared, value, segs, body, out) ==
    Prefixed(dispatch(field.ty, shared, value[field.endpoint], segs, body, out), field, value)

\* The nested arm of build_field_arms.
nested_arm(field, shared, value, segs, body, out) ==
    IF field.readonly /\ body # None THEN refuse("BodyUnexpected", segs, out, value)
    ELSE child_call(field, shared, value, Tail(segs), body, out)

\* The match on the first segment.
member_arm(type, shared, value, segs, body, out) ==
    LET at == SelectInSeq(members(type), LAMBDA m : m.endpoint = Head(segs))
        m  == members(type)[at]
    IN  CASE at = 0 -> refuse("InvalidPath", segs, out, value)
          [] at # 0 /\ m.arm = "nested" -> nested_arm(m, shared, value, segs, body, out)
          [] at # 0 /\ m.arm = "leaf" -> leaf_arm(m, shared, value, segs, body, out)
          [] at # 0 /\ m.arm = "method" -> method_arm(m, shared, value, segs, body, out)
          [] at # 0 /\ m.arm = "accessor" -> accessor_arm(m, shared, value, segs, body, out)

\* One entry of a listing: a leaf by its value, a method by its signature, and
\* a child or an accessor by what it answers when read.
listing_entry(m, shared, value, out) ==
    CASE m.arm = "leaf" -> Dispatched(Ok, emit_value(out, value[m.endpoint]), value, <<>>)
      [] m.arm = "method" -> Dispatched(Ok, write(out, "signature", <<m.endpoint>>), value, <<>>)
      [] m.arm = "nested" -> child_call(m, shared, value, <<>>, None, out)
      [] m.arm = "accessor" -> accessor_arm(m, shared, value, <<m.endpoint>>, None, out)

Listed(so_far, obj, entry) ==
    [answer |-> entry.answer, value |-> entry.value, ran |-> so_far.ran \o entry.ran,
     obj |-> entry_with(obj, entry.answer, entry.out.buf)]

\* The object closed: ObjectBody::finish panics on a count it did not declare.
Closed(walked, out) ==
    CASE ~IsOk(walked.answer) ->
             Dispatched(walked.answer, [out EXCEPT !.buf = walked.obj.buf], walked.value, walked.ran)
      [] IsOk(walked.answer) /\ walked.obj.written = walked.obj.declared ->
             Dispatched(Ok, finish(out, walked.obj), walked.value, walked.ran)
      [] IsOk(walked.answer) /\ walked.obj.written # walked.obj.declared ->
             Dispatched(StructError("panic", <<>>), out, walked.value, walked.ran)

\* build_listing: every entry of one list; one that fails or declines ends the
\* walk.
build_listing(type, shared, value, out) ==
    LET member(name) == members(type)[SelectInSeq(members(type), LAMBDA m : m.endpoint = name)]
        entry(so_far, name) ==
            IF ~IsOk(so_far.answer) THEN so_far
            ELSE Listed(so_far, key(so_far.obj, name),
                        listing_entry(member(name), shared, so_far.value,
                                      value_body(key(so_far.obj, name))))
        opened == [answer |-> Ok, value |-> value, ran |-> <<>>,
                   obj |-> object(out, Len(listing_entries(type)))]
    IN  Closed(FoldLeft(entry, opened, listing_entries(type)), out)

replace(merged, out) == written(merged.whole, <<>>, out, merged.value)

\* The empty-segments arm: the listing behind its guard, or the whole-object
\* write.
root_arm(type, shared, value, body, out) ==
    IF body = None
    THEN IF shared /\ repe_listing_declines(type, value) THEN Decline(out, value)
         ELSE build_listing(type, shared, value, out)
    ELSE IF type.no_replace THEN refuse("BodyUnexpected", <<>>, out, value)
    ELSE IF shared THEN Decline(out, value)
    ELSE replace(Merge(type, value, body.document), out)

\* RepeStruct for Option<T>.
optional_arm(type, shared, value, segs, body, out) ==
    IF segs = <<>> /\ body # None /\ body.document.kind = "null"
    THEN refuse("BodyUnexpected", segs, out, value)
    ELSE IF value # None THEN dispatch(type.inner, shared, value, segs, body, out)
    ELSE IF segs = <<>> /\ body = None THEN Dispatched(Ok, write_null(out), value, <<>>)
    ELSE refuse("InvalidPath", segs, out, value)

\* An impl written by hand against the trait: it serves nothing under a shared
\* borrow, and has begun to write when it declines.
handwritten_arm(type, shared, value, segs, body, out) ==
    IF shared THEN Decline(emit_value(out, value), value)
    ELSE IF segs # <<>> THEN refuse("InvalidPath", segs, out, value)
    ELSE IF body = None THEN Dispatched(Ok, emit_value(out, value), value, <<>>)
    ELSE IF body.document.kind = "number"
    THEN Dispatched(Ok, write_null(out), body.document.items, <<>>)
    ELSE refuse("Decode", segs, out, value)

\* repe_handle_into and repe_shared_into.
dispatch(type, shared, value, segs, body, out) ==
    CASE type.kind = "derived" /\ segs = <<>> -> root_arm(type, shared, value, body, out)
      [] type.kind = "derived" /\ segs # <<>> ->
             member_arm(type, shared, value, segs, body, out)
      [] type.kind = "optional" -> optional_arm(type, shared, value, segs, body, out)
      [] type.kind = "handwritten" -> handwritten_arm(type, shared, value, segs, body, out)
-----------------------------------------------------------------------------
(***************************************************************************)
(* What the macros and the const assertions refuse to compile.  `declared' *)
(* is what the derive sees: the fields and the listed methods.             *)
(***************************************************************************)
declared(d) == d.fields \o d.listed

reject_duplicate_endpoints(endpoints) == IsInjective(endpoints)

validate_listing_order(d) ==
    \/ d.order = None
    \/ /\ IsInjective(d.order)
       /\ d.block \/ ToSet(d.order) \subseteq ToSet(declared(d))
       /\ ToSet(declared(d)) \subseteq ToSet(d.order)

\* Each half on its own, a getter for every setter, and then the endpoints.
collect_methods(d) ==
    /\ IsInjective(d.getters)
    /\ IsInjective(d.setters)
    /\ ToSet(d.setters) \subseteq ToSet(d.getters)
    /\ reject_duplicate_endpoints(d.methods \o d.getters)

assert_no_endpoint_collision(d) ==
    /\ ToSet(declared(d)) \cap (ToSet(d.methods) \cup ToSet(d.getters)) = {}
    /\ ToSet(d.methods) \cap ToSet(d.getters) = {}

assert_listing_order(d) ==
    LET table == ToSet(d.methods) \cup ToSet(d.getters) IN
    /\ ToSet(d.order) \subseteq ToSet(declared(d)) \cup table
    /\ table \subseteq ToSet(d.order)

\* expand_repe_struct and expand_methods: whether a declaration compiles.
compiles(d) ==
    /\ reject_duplicate_endpoints(declared(d))
    /\ validate_listing_order(d)
    /\ d.block => /\ collect_methods(d)
                  /\ assert_no_endpoint_collision(d)
                  /\ d.order # None => assert_listing_order(d)
=============================================================================
