---------------------------- MODULE StructCases -----------------------------
(***************************************************************************)
(* Small types, requests, argument lists and declarations for              *)
(* ServedStruct.                                                           *)
(***************************************************************************)
EXTENDS Naturals, SequencesExt

CONSTANT None

D == INSTANCE StructDispatch

Leaf(name) ==
    [arm |-> "leaf", endpoint |-> name, readonly |-> FALSE, typed |-> FALSE, ty |-> [kind |-> "leaf"]]
Child(name, ty) == [Leaf(name) EXCEPT !.arm = "nested", !.ty = ty]
Readonly(field) == [field EXCEPT !.readonly = TRUE]
Typed(member) == [member EXCEPT !.typed = TRUE]

Param(name) == [name |-> name, optional |-> name = "opt"]
Method(name, receiver, params, outcome) ==
    [arm |-> "method", endpoint |-> name, receiver |-> receiver, params |-> params, outcome |-> outcome,
     unit |-> params = <<>>]
Accessor(name, get, set) ==
    [arm |-> "accessor", endpoint |-> name, get |-> get, set |-> set, typed |-> FALSE, outcome |-> "ok"]

Derived(fields, listed, table, accessors) ==
    [kind |-> "derived", no_replace |-> FALSE, order |-> None, fields |-> fields,
     listed |-> listed, table |-> table, accessors |-> accessors]
Optional(ty) == [kind |-> "optional", inner |-> ty]
Handwritten(declines) == [kind |-> "handwritten", declines |-> declines]
-----------------------------------------------------------------------------
\* Fields only; one is read-only, one typed.
Plain == Derived(<<Leaf("a"), Readonly(Leaf("b")), Typed(Leaf("c"))>>, <<>>, <<>>, <<>>)

\* A child whose getter takes &mut self or &self, listed after the parent's own.
Inner(get) ==
    Derived(<<Leaf("a")>>, <<>>, <<>>, <<Typed(Accessor("g", get, "Mut")), Accessor("k", "Ref", None)>>)
Deep(get) ==
    [Derived(<<Leaf("a"), Child("c", Optional(Inner(get))), Readonly(Child("d", Plain))>>,
             <<>>, <<>>, <<Accessor("g", "Ref", "Ref")>>)
        EXCEPT !.order = <<"g", "a", "c", "d">>, !.no_replace = (get = "Ref")]

\* Methods that return, fail and panic.
Calls ==
    Derived(<<Leaf("a")>>, <<Method("sum", "Ref", <<Param("p"), Param("opt")>>, "ok")>>,
            <<Method("bump", "Mut", <<>>, "ok"), Method("fail", "Mut", <<Param("p")>>, "err"),
              Method("boom", "Mut", <<>>, "panic"), Method("look", "Ref", <<>>, "panic")>>,
            <<Accessor("g", "Mut", None)>>)

\* A child written by hand, which may misstate that its listing declines.
Hand(declines) == Derived(<<Leaf("a"), Child("h", Handwritten(declines))>>, <<>>, <<>>, <<>>)
-----------------------------------------------------------------------------
Body(document) == [document |-> document]
Request(segs, format, body) ==
    [below |-> TRUE, segs |-> segs, format |-> format, body |-> body]
Read(segs) == Request(segs, "Json", None)
ReadBeve(segs) == Request(segs, "Beve", None)
Write(segs, document) == Request(segs, "Json", Body(document))
One == D!Number(<<1>>)
Entries(names) == D!Object([k \in DOMAIN names |-> <<names[k], One>>])

Misrouted == {[Read(None) EXCEPT !.below = FALSE], Read(None), Request(None, "RawBinary", Body(One)),
              Request(<<"a">>, "RawBinary", Body(One)), Read(<<"z">>), Read(<<"a", "z">>)}

PlainRequests ==
    {Read(<<>>), ReadBeve(<<>>), Read(<<"c">>), Write(<<"a">>, One), Write(<<"b">>, One),
     Write(<<>>, Entries(<<"a", "z">>)), Write(<<>>, Entries(<<"b">>)),
     Write(<<>>, D!Object(<< <<"a", One>>, <<"c", D!Fault>>, <<"b", One>> >>))} \cup Misrouted
DeepRequests ==
    {Read(<<>>), ReadBeve(<<>>), Read(<<"c">>), Read(<<"c", "g">>), Write(<<"c">>, D!Null),
     Write(<<"c", "a">>, One), Write(<<"c", "g">>, One), Write(<<"d", "a">>, One),
     Write(<<"g">>, One), Write(<<>>, D!Object(<< <<"c", D!Null>> >>)),
     Write(<<>>, D!Object(<< <<"c", Entries(<<"a">>)>> >>))}
CallRequests ==
    {Read(<<>>), Write(<<"sum">>, D!Array(<<One, D!Null>>, FALSE)), Write(<<"sum">>, Entries(<<"opt">>)),
     Write(<<"fail">>, One), Read(<<"fail">>), Read(<<"boom">>), Read(<<"look">>), Read(<<"bump">>),
     Write(<<"a">>, One), Write(<<"g">>, One)}
HandRequests ==
    {Read(<<>>), ReadBeve(<<>>), Read(<<"h">>), Write(<<"h">>, One), Write(<<"h">>, D!Null),
     Read(<<"h", "z">>), Write(<<>>, Entries(<<"h">>))}

Locks == [shared : BOOLEAN, poisons : BOOLEAN]

\* Two requests at once, or three.
Serve(type, value, locks, requests) ==
    {[part |-> "serve", type |-> type, value |-> value, lock |-> l, requests |-> rs] :
        l \in locks, rs \in requests}
Pairs(requests) == requests \X requests

Zero(type) == D!Default(type)
DeepPresent(get) == [Zero(Deep(get)) EXCEPT !["c"] = Zero(Inner(get))]
RwLocks == {l \in Locks : l.shared /\ l.poisons}

ServeScenarios ==
    Serve(Plain, Zero(Plain), RwLocks, Pairs(PlainRequests))
    \cup UNION {Serve(Deep(get), v, RwLocks, Pairs(DeepRequests)) :
                   <<get, v>> \in {<<"Mut", Zero(Deep("Mut"))>>, <<"Mut", DeepPresent("Mut")>>,
                                   <<"Ref", DeepPresent("Ref")>>}}
    \cup Serve(Calls, Zero(Calls), Locks, Pairs(CallRequests))
    \cup Serve(Calls, Zero(Calls), RwLocks, {<<Read(<<"boom">>), Read(<<"a">>), q>> : q \in CallRequests})
    \cup UNION {Serve(Hand(d), Zero(Hand(d)), RwLocks, Pairs(HandRequests)) : d \in BOOLEAN}

Items == {One, D!Number(<<2>>), D!Null, D!Fault}
ArgsScenarios ==
    {[part |-> "args", params |-> p, items |-> i] :
        <<p, i>> \in { <<ps, is>> \in {<<Param("p"), Param("opt")>>, <<Param("p"), Param("q"), Param("opt")>>}
                                      \X (SeqOf(Items, 3)) : Len(ps) = Len(is)}}

Names == {"a", "b", "c"}
DeclareScenarios ==
    {[part |-> "declare", declaration |-> d] :
        d \in [fields : SeqOf({"a", "b"}, 1), listed : SeqOf({"b"}, 1), block : BOOLEAN,
               methods : SeqOf({"b", "c"}, 1),
               getters : {<<>>, <<"c">>, <<"b", "c">>, <<"c", "c">>}, setters : SeqOf({"c"}, 1),
               order : {None} \cup SeqOf(Names, 3)]}

StructScenarios == ServeScenarios \cup ArgsScenarios \cup DeclareScenarios
=============================================================================
