---------------------------- MODULE JsonPointer ----------------------------
(***************************************************************************)
(* JSON Pointers and the mounts they are resolved under: json_pointer.rs,  *)
(* the keys of registry.rs, and the path arithmetic of the two kinds of    *)
(* mount in server.rs (RegisteredRegistry and RegisteredStruct).           *)
(*                                                                         *)
(* A string is a sequence of characters, and None stands for both          *)
(* Option::None and an Err that carries nothing but the pointer.           *)
(***************************************************************************)
EXTENDS Naturals, SequencesExt

CONSTANTS
    None,
    STACK_SEGS    \* the capacity of with_segments' stack buffer (16 in the code)

starts_with(s, c) == s # <<>> /\ s[1] = c

strip_prefix(s, prefix) ==
    IF IsPrefix(prefix, s) THEN SubSeq(s, Len(prefix) + 1, Len(s)) ELSE None

\* str::split: n separators give n + 1 pieces, empty ones included.
split(s, c) ==
    FoldLeft(LAMBDA pieces, x :
                 IF x = c THEN Append(pieces, <<>>)
                 ELSE [pieces EXCEPT ![Len(pieces)] = Append(@, x)],
             << <<>> >>, s)

replace(s, c, by) ==
    FoldLeft(LAMBDA out, x : out \o (IF x = c THEN by ELSE <<x>>), <<>>, s)

\* Collecting an iterator of Results: the first Err is the answer.
collect(results) ==
    IF \E i \in DOMAIN results : results[i] = None THEN None ELSE results
-----------------------------------------------------------------------------
(***************************************************************************)
(* json_pointer.rs                                                         *)
(***************************************************************************)
addresses_root(pointer) == pointer \in {<<>>, <<"/">>}

\* The next character of an escape scan: `open' is set by a "~" whose second
\* character is still to come.
ScanChar(scan, x) ==
    IF scan.open
    THEN [ok |-> scan.ok /\ x \in {"0", "1"}, open |-> FALSE,
          out |-> Append(scan.out, IF x = "0" THEN "~" ELSE "/")]
    ELSE IF x = "~"
    THEN [scan EXCEPT !.open = TRUE]
    ELSE [scan EXCEPT !.out = Append(@, x)]

Scan(s) == FoldLeft(ScanChar, [ok |-> TRUE, open |-> FALSE, out |-> <<>>], s)

unescape_token(token) ==
    LET scan == Scan(token) IN IF scan.ok /\ ~scan.open THEN scan.out ELSE None

escape_token(token) ==
    replace(replace(token, "~", <<"~", "0">>), "/", <<"~", "1">>)

parse(pointer) ==
    IF addresses_root(pointer) THEN <<>>
    ELSE IF ~starts_with(pointer, "/") THEN None
    ELSE LET tokens == split(Tail(pointer), "/") IN
         collect([i \in DOMAIN tokens |-> unescape_token(tokens[i])])

\* Every "~" of the whole pointer is followed by "0" or "1".
validate_escapes(pointer) ==
    \/ addresses_root(pointer)
    \/ /\ starts_with(pointer, "/")
       /\ Scan(pointer).ok
       /\ ~Scan(pointer).open

canonical(tokens) ==
    IF tokens = <<>> THEN <<"/">>
    ELSE FlattenSeq([i \in DOMAIN tokens |-> <<"/">> \o escape_token(tokens[i])])
-----------------------------------------------------------------------------
(***************************************************************************)
(* registry.rs: the key of a function, from either side.                   *)
(***************************************************************************)
canonical_key(pointer) ==
    IF addresses_root(pointer) THEN <<"/">>
    ELSE IF validate_escapes(pointer) THEN pointer
    ELSE None

register_key_Verbatim(path) ==
    IF addresses_root(path) THEN None ELSE canonical_key(path)

\* The key register_function_arc inserts under, None when it refuses.
register_key(path) ==
    LET normalized == IF starts_with(path, "/") THEN path ELSE <<"/">> \o path IN
    IF addresses_root(normalized) THEN None ELSE canonical_key(normalized)

trim_end_slashes(s) ==
    LET kept == {i \in DOMAIN s : s[i] # "/"} IN
    SubSeq(s, 1, IF kept = {} THEN 0 ELSE Max(kept))

normalize_mount(prefix) ==
    IF addresses_root(prefix) THEN <<>>
    ELSE trim_end_slashes(IF starts_with(prefix, "/") THEN prefix ELSE <<"/">> \o prefix)
-----------------------------------------------------------------------------
(***************************************************************************)
(* server.rs: mounts.                                                      *)
(***************************************************************************)
\* RegistryEntry::matches and StructEntry::matches, over the stored prefix.
matches(prefix, path) ==
    \/ prefix = <<>>
    \/ path = prefix
    \/ /\ IsPrefix(prefix, path)
       /\ starts_with(strip_prefix(path, prefix), "/")

\* RegisteredRegistry::pointer_for.
pointer_for(prefix, path) ==
    IF prefix = <<>> THEN (IF path = <<>> THEN <<"/">> ELSE path)
    ELSE IF path = prefix THEN <<"/">>
    ELSE LET rest == strip_prefix(path, prefix) IN
         IF rest # None /\ starts_with(rest, "/") THEN rest ELSE None

\* RegisteredStruct::new keeps the root as it is given but for a leading "/".
struct_root(root) ==
    IF addresses_root(root) THEN <<>>
    ELSE IF starts_with(root, "/") THEN root
    ELSE <<"/">> \o root

\* RegisteredStruct::relative_pointer.
relative_pointer(root, path) ==
    IF root = <<>> THEN path
    ELSE IF path = root THEN <<>>
    ELSE LET rest == strip_prefix(path, root) IN
         IF rest # None /\ starts_with(rest, "/") THEN rest ELSE None

\* One turn of with_segments' loop: a full stack is copied to the overflow
\* vector, which takes every later segment.
PushSegment(segs, seg) ==
    IF segs.overflow # None
    THEN [segs EXCEPT !.overflow = Append(@, seg)]
    ELSE IF Len(segs.stack) < STACK_SEGS
    THEN [segs EXCEPT !.stack = Append(@, seg)]
    ELSE [segs EXCEPT !.overflow = Append(segs.stack, seg)]

\* with_segments: what it hands to its closure, None when it refuses.
with_segments(relative) ==
    IF \E i \in DOMAIN relative : relative[i] = "~" THEN parse(relative)
    ELSE IF relative = <<>> THEN <<>>
    ELSE IF relative = <<"/">> THEN << <<>> >>
    ELSE LET trimmed == IF starts_with(relative, "/") THEN Tail(relative) ELSE relative
             segs    == FoldLeft(PushSegment, [stack |-> <<>>, overflow |-> None],
                                 split(trimmed, "/"))
         IN  IF segs.overflow # None THEN segs.overflow ELSE segs.stack
-----------------------------------------------------------------------------
(***************************************************************************)
(* Properties, of a pointer p, a registration path or a mount m.           *)
(***************************************************************************)
\* The full scan and the escape-only scan accept the same pointers, and
\* joining the tokens of an accepted pointer gives the pointer back.  The
\* empty pointer is the exception: canonical spells the root "/".
RoundTrips(p) ==
    /\ validate_escapes(p) <=> parse(p) # None
    /\ (parse(p) # None /\ p # <<>>) => canonical(parse(p)) = p

\* A function is found exactly under the pointers that have the tokens it was
\* registered with, though the table compares strings and never parses: no
\* spelling of the registration path hides it and none aliases another.  Only
\* the root and a malformed path are refused.
FoundByTokens(m, p) ==
    LET absolute == IF starts_with(m, "/") THEN m ELSE <<"/">> \o m IN
    /\ register_key(m) = None <=> parse(absolute) \in {None, <<>>}
    /\ register_key(m) # None =>
          (canonical_key(p) = register_key(m)
              <=> (parse(p) # None /\ parse(p) = parse(absolute)))

\* Router::get and the mount it picks agree on what is below the mount, so
\* the "path is not below" errors of both kinds of mount are unreachable.
MountTakesItsPaths(m, p) ==
    /\ matches(normalize_mount(m), p) <=> pointer_for(normalize_mount(m), p) # None
    /\ matches(struct_root(m), p) <=> relative_pointer(struct_root(m), p) # None

\* The escape-free fast path of with_segments gives the tokens that
\* json_pointer::parse gives, however many there are.  Not so for "/" (one
\* empty token, where parse has none) and for a pointer without a leading "/"
\* (accepted, where parse refuses), which only a root mount can see.
SegmentsAreTokens(p) ==
    (p = <<>> \/ (starts_with(p, "/") /\ p # <<"/">>)) => with_segments(p) = parse(p)
=============================================================================
