---------------------------- MODULE MCPullStream -----------------------------
(***************************************************************************)
(* The scenarios of the pull stream that are checked.                      *)
(***************************************************************************)
EXTENDS PullStream

CONSTANTS p1, p2

Fn(a, b) == [p \in Pullers |-> IF p = p1 THEN a ELSE b]

Base(kind) ==
    [pulls |-> {p1}, kind |-> Fn(kind, kind), path |-> Fn("x", "x"), after |-> Fn({}, {p1}),
     output |-> "RawFile", producer |-> "reader", known |-> TRUE, version |-> 1, tag |-> 0,
     units |-> 3, trailer |-> 1, chunk_bytes |-> 1, session_depth |-> 1,
     body_fails |-> FALSE, body_panics |-> FALSE, rival |-> {}, unreliable |-> {},
     consumer_fails |-> FALSE, create_fails |-> FALSE, rename_fails |-> FALSE,
     digest_matches |-> TRUE, droppable |-> {}, crashes |-> {}]

Blocking == {"file", "value", "slice", "consume", "trailer"}
Asynchronous == {"async_file", "async_consume", "async_verified", "async_trailer"}
Kinds == Blocking \cup Asynchronous
As(kind, p) == [Base(kind) EXCEPT !.producer = p]

\* No fault: every kind of pull, chunk size, depth and length.  Only a raw
\* stream can be empty: an encoded value and a zstd frame have bytes.
Clean ==
    {[As(k, "value") EXCEPT !.tag = t, !.units = n, !.chunk_bytes = b, !.session_depth = d] :
        k \in Kinds, t \in {0, 1}, n \in {1, 3}, b \in {1, 2}, d \in {0, 1, 2}}
    \cup {[As(k, "value") EXCEPT !.units = 6, !.session_depth = d] :
            k \in {"value", "async_consume"}, d \in {0, 1}}
    \cup {[Base(k) EXCEPT !.units = 0] : k \in Kinds \ {"value", "slice"}}

\* One thing goes wrong, or several at once.
Faulty ==
    UNION {
      { [As(k, "typed") EXCEPT !.body_fails = TRUE, !.body_panics = TRUE, !.chunk_bytes = 2],
        [As(k, "complex") EXCEPT !.unreliable = {p1}],
        [As(k, "writer_beve") EXCEPT !.consumer_fails = TRUE, !.create_fails = TRUE, !.tag = 1],
        [As(k, "value") EXCEPT !.crashes = {p1}, !.digest_matches = FALSE],
        [As(k, "value") EXCEPT !.rename_fails = TRUE, !.rival = {"cancel"}] } : k \in Kinds}

\* Tags that the client refuses, an unknown resource, a stream too short for
\* its trailer, and the three outputs of pull_stream.
Refused ==
    {[Base("file") EXCEPT !.output = o, !.producer = f, !.tag = t] :
        o \in {"BeveZstdFile", "BeveFile", "RawFile"}, f \in {"value", "writer_raw"}, t \in {0, 1}}
    \cup {[Base(k) EXCEPT !.known = FALSE] : k \in {"file", "async_consume"}}
    \cup {[Base("value") EXCEPT !.version = 2], [Base("slice") EXCEPT !.tag = 2],
          [Base("value") EXCEPT !.producer = "writer_raw"], Base("slice"),
          [Base("trailer") EXCEPT !.trailer = 3, !.units = 2],
          [Base("async_trailer") EXCEPT !.trailer = 2, !.units = 2]}

\* A second client pulls from the stream; a failed pull is repeated; a future
\* is dropped.
Shared ==
    {[As("value", "value") EXCEPT !.rival = {"next"}, !.session_depth = d] : d \in {0, 2}}
    \cup {[Base(k) EXCEPT !.pulls = {p1, p2}, !.unreliable = {p1}, !.units = 2] :
            k \in {"file", "async_file"}}
    \cup {[Base(k) EXCEPT !.droppable = {p1}] : k \in Asynchronous}

MCScenarios == Clean \cup Faulty \cup Refused \cup Shared

AbandonedScenarios == {[Base("file") EXCEPT !.unreliable = {p1}]}
=============================================================================
