------------------------------- MODULE Message -------------------------------
(***************************************************************************)
(* Frames: header.rs, message.rs, io.rs and async_io.rs (the async readers *)
(* and writers are twins of the blocking ones, with `.await').             *)
(*                                                                         *)
(* A byte is a pair <<kind, val>>.  The HEADER_SIZE bytes of an encoded    *)
(* header carry the header and their position, so a header is recognised   *)
(* only whole and in its place, as the magic number and the length check   *)
(* do in the code.  u64 and usize are the integers up to U64_MAX and       *)
(* USIZE_MAX; a plain `+' on usize wraps, as in a release build.           *)
(* A value is a sequence of numbers.  JSON and BEVE are external: an       *)
(* encoding of a value reads back as the value and as nothing else.        *)
(***************************************************************************)
EXTENDS Integers, Sequences

CONSTANTS
    None,
    HEADER_SIZE,    \* 48 in the code
    U64_MAX,
    USIZE_MAX,      \* at most U64_MAX
    ALIGN           \* align_of the elements of a numeric slice

Byte(kind, val) == <<kind, val>>
kind(byte) == byte[1]
val(byte) == byte[2]
Ok(value) == [ok |-> value]
Err(error) == [err |-> error]
IsOk(result) == "ok" \in DOMAIN result

usize(n) == n % (USIZE_MAX + 1)

\* A slice expression: a range that runs backwards or past the end panics.
slice(buf, from, to) ==
    IF from <= to /\ to <= Len(buf) THEN SubSeq(buf, from + 1, to) ELSE None
-----------------------------------------------------------------------------
(***************************************************************************)
(* header.rs                                                               *)
(***************************************************************************)
Header_new ==
    [length |-> 0, version |-> 1, notify |-> 0, id |-> 0, query_length |-> 0,
     body_length |-> 0, query_format |-> "RawBinary", body_format |-> "RawBinary",
     ec |-> "Ok"]

encode(header) == [i \in 1..HEADER_SIZE |-> Byte("header", <<i, header>>)]

\* Bytes that are not a header as encode writes one fail the magic number.
IsHeader(input) ==
    /\ \A i \in 1..HEADER_SIZE : kind(input[i]) = "header"
    /\ \A i \in 1..HEADER_SIZE : val(input[i]) = <<i, val(input[1])[2]>>

decode_Wrapping(input) ==
    LET header   == val(input[1])[2]
        expected == (HEADER_SIZE + header.query_length + header.body_length) % (U64_MAX + 1)
    IN  IF Len(input) < HEADER_SIZE THEN Err("InvalidHeaderLength")
        ELSE IF ~IsHeader(input) THEN Err("InvalidSpec")
        ELSE IF header.length # expected THEN Err("LengthMismatch")
        ELSE Ok(header)

\* The sum of the lengths is checked against u64 and usize before it is
\* compared with the length field.
decode(input) ==
    LET header   == val(input[1])[2]
        expected == HEADER_SIZE + header.query_length + header.body_length
    IN  IF Len(input) < HEADER_SIZE THEN Err("InvalidHeaderLength")
        ELSE IF ~IsHeader(input) THEN Err("InvalidSpec")
        ELSE IF expected > USIZE_MAX THEN Err("FrameLengthOverflow")
        ELSE IF header.length # expected THEN Err("LengthMismatch")
        ELSE Ok(header)
-----------------------------------------------------------------------------
(***************************************************************************)
(* message.rs: a Message is [header, query, body].  A body also has the    *)
(* capacity of its vector, which only into_wire_bytes looks at.            *)
(***************************************************************************)
Message_new(header, query, body) ==
    IF header.query_length # Len(query) \/ header.body_length # Len(body)
    THEN Err("LengthMismatch")
    ELSE Ok([header |-> header, query |-> query, body |-> body])

to_vec(msg) == encode(msg.header) \o msg.query \o msg.body

\* In place when the body's allocation holds the frame: grow, move the body
\* to the back, then write the prefix over the front.
into_wire_bytes(msg, capacity) ==
    LET prefix_len == HEADER_SIZE + Len(msg.query)
        total      == prefix_len + Len(msg.body)
        resized    == msg.body \o [i \in 1..prefix_len |-> Byte("zero", 0)]
        moved      == [i \in 1..total |->
                          IF i > prefix_len THEN msg.body[i - prefix_len] ELSE resized[i]]
        headed     == [i \in 1..total |->
                          IF i <= HEADER_SIZE THEN encode(msg.header)[i] ELSE moved[i]]
    IN  IF capacity >= total
        THEN [i \in 1..total |->
                 IF i > HEADER_SIZE /\ i <= prefix_len
                 THEN msg.query[i - HEADER_SIZE] ELSE headed[i]]
        ELSE encode(msg.header) \o msg.query \o msg.body

\* The bounds MessageView::from_slice and Message::from_slice compute.
Parts(buf, header) ==
    LET q_end == usize(HEADER_SIZE + usize(header.query_length))
        b_end == usize(q_end + usize(header.body_length))
    IN  [query |-> slice(buf, HEADER_SIZE, q_end), body |-> slice(buf, q_end, b_end)]

view_from_slice(buf) ==
    IF Len(buf) < HEADER_SIZE THEN Err("InvalidHeaderLength")
    ELSE LET decoded == decode(buf) IN
         IF ~IsOk(decoded) THEN decoded
         ELSE LET header   == decoded.ok
                  expected == usize(HEADER_SIZE + usize(header.query_length)
                                    + usize(header.body_length))
                  parts    == Parts(buf, header)
              IN  IF Len(buf) < expected THEN Err("BufferTooSmall")
                  ELSE IF None \in {parts.query, parts.body} THEN Err("panic")
                  ELSE Ok([header |-> header, query |-> parts.query, body |-> parts.body])

\* The owned parse copies the parts and passes them through Message::new.
from_slice(buf) ==
    LET view == view_from_slice(buf) IN
    IF IsOk(view) THEN Message_new(view.ok.header, view.ok.query, view.ok.body) ELSE view

\* Message and MessageView::from_slice_exact: no bytes after the frame.
Exact(parsed, buf) ==
    IF IsOk(parsed) /\ Len(buf) # HEADER_SIZE + Len(parsed.ok.query) + Len(parsed.ok.body)
    THEN Err("LengthMismatch") ELSE parsed

from_slice_exact(buf) == Exact(from_slice(buf), buf)

view_from_slice_exact(buf) == Exact(view_from_slice(buf), buf)
-----------------------------------------------------------------------------
(***************************************************************************)
(* Bodies.  A BEVE array is its tag (element count and padding), the       *)
(* padding and the elements.                                               *)
(***************************************************************************)
json_to_vec(value) == <<Byte("json", value)>>

beve_bytes(value, padding) ==
    <<Byte("tag", <<Len(value), padding>>)>>
        \o [i \in 1..padding |-> Byte("pad", 0)]
        \o [i \in DOMAIN value |-> Byte("element", value[i])]

json_read(body) ==
    IF Len(body) = 1 /\ kind(body[1]) = "json" THEN Ok(val(body[1])) ELSE Err("Json")

beve_read(body) ==
    LET n       == val(body[1])[1]
        padding == val(body[1])[2]
    IN  IF body = <<>> \/ kind(body[1]) # "tag" THEN Err("Beve")
        ELSE IF Len(body) # 1 + padding + n THEN Err("Beve")
        ELSE Ok([i \in 1..n |-> val(body[1 + padding + i])])

\* Message::decode_body: by the format the header declares.
decode_body(msg) ==
    CASE msg.header.body_format \in {"Json", "Utf8"} -> json_read(msg.body)
      [] msg.header.body_format = "Beve" -> beve_read(msg.body)
      [] OTHER -> Err("UnexpectedBodyFormat")

\* require_body_format, in front of the decoders that demand one format.
require_body_format(msg, expected) ==
    IF msg.header.body_format = expected THEN Ok(<<>>) ELSE Err("UnexpectedBodyFormat")

json_body(msg) ==
    IF IsOk(require_body_format(msg, "Json")) THEN json_read(msg.body)
    ELSE require_body_format(msg, "Json")

\* beve_body, which decode_typed_slice and decode_complex_slice call.
beve_body(msg) ==
    IF IsOk(require_body_format(msg, "Beve")) THEN beve_read(msg.body)
    ELSE require_body_format(msg, "Beve")
-----------------------------------------------------------------------------
(***************************************************************************)
(* MessageBuilder: its setters replace one field each, in any order.       *)
(***************************************************************************)
MessageBuilder ==
    [id |-> 0, query |-> <<>>, body |-> <<>>, capacity |-> 0, query_format |-> "RawBinary",
     body_format |-> "RawBinary", notify |-> FALSE, ec |-> "Ok"]

Set(builder, field, value) == [builder EXCEPT ![field] = value]

body_as(builder, bytes, format) ==
    [builder EXCEPT !.body = bytes, !.body_format = format, !.capacity = Len(bytes)]

body_json(builder, value) == body_as(builder, json_to_vec(value), "Json")

body_beve(builder, value) == body_as(builder, beve_bytes(value, 0), "Beve")

\* body_typed_slice and body_complex_slice: the vector has room for the
\* header and for the query as it is now.
body_typed_slice(builder, value) ==
    [body_beve(builder, value) EXCEPT
        !.capacity = Len(beve_bytes(value, 0)) + HEADER_SIZE + Len(builder.query)]

\* The padding that puts the first element on a boundary when `base' bytes
\* and the tag come before it.
padding_at(base) == (ALIGN - ((base + 1) % ALIGN)) % ALIGN

body_aligned_typed_slice(builder, value) ==
    LET base_offset == HEADER_SIZE + Len(builder.query)
        bytes       == beve_bytes(value, padding_at(base_offset))
    IN  [body_as(builder, bytes, "Beve") EXCEPT !.capacity = Len(bytes) + base_offset]

build(builder) ==
    [header |-> [Header_new EXCEPT
                    !.id = builder.id,
                    !.query_length = Len(builder.query),
                    !.body_length = Len(builder.body),
                    !.length = HEADER_SIZE + Len(builder.query) + Len(builder.body),
                    !.query_format = builder.query_format,
                    !.body_format = builder.body_format,
                    !.notify = IF builder.notify THEN 1 ELSE 0,
                    !.ec = builder.ec],
     query  |-> builder.query,
     body   |-> builder.body]
-----------------------------------------------------------------------------
(***************************************************************************)
(* Responses.  `req' is a Message or a MessageView.                        *)
(***************************************************************************)
create_error_message(code, text) ==
    build([MessageBuilder EXCEPT !.ec = code, !.body = <<Byte("text", text)>>,
                                 !.body_format = "Utf8"])

create_error_response_for(id, query, code, text) ==
    LET err == create_error_message(code, text) IN
    [err EXCEPT !.query = query,
                !.header.id = id,
                !.header.query_length = Len(query),
                !.header.length = HEADER_SIZE + Len(query) + err.header.body_length]

create_error_response_like(req, code, text) ==
    create_error_response_for(req.header.id, req.query, code, text)

create_error_response_unstamped_view(req, code, text) ==
    LET err == create_error_message(code, text) IN [err EXCEPT !.header.id = req.header.id]

\* A format code this build does not know becomes RawBinary.
response_header_builder(id, query_format) ==
    [MessageBuilder EXCEPT
        !.id = id,
        !.query_format = IF query_format = "unknown" THEN "RawBinary" ELSE query_format]

finish_response(builder, value, body_format) ==
    build(CASE body_format = "Json" -> body_json(builder, value)
            [] body_format = "Utf8" -> body_as(builder, json_to_vec(value), "Utf8")
            [] body_format = "RawBinary" -> body_as(builder, json_to_vec(value), "RawBinary")
            [] body_format = "Beve" -> body_beve(builder, value)
            [] OTHER -> body_json(builder, value))

create_response(req, value, body_format) ==
    finish_response(Set(response_header_builder(req.header.id, req.header.query_format),
                        "query", req.query),
                    value, body_format)

\* create_response_unstamped and create_response_unstamped_view.
create_response_unstamped(req, value, body_format) ==
    finish_response(response_header_builder(req.header.id, req.header.query_format),
                    value, body_format)

create_body_response_unstamped(req, body, body_format) ==
    build(body_as(response_header_builder(req.header.id, req.header.query_format),
                  body, body_format))

\* create_typed_slice_response_unstamped and its view twin.
create_typed_slice_response_unstamped(req, value) ==
    build(body_typed_slice(response_header_builder(req.header.id, req.header.query_format),
                           value))

\* The WebSocket server puts the request's query into a query-less response.
stamp_response_query(response, query) ==
    IF query = <<>> \/ response.query # <<>> THEN response
    ELSE [response EXCEPT !.query = query,
                          !.header.query_length = Len(query),
                          !.header.length =
                              HEADER_SIZE + Len(query) + response.header.body_length]

\* The TCP servers frame the response with the request's query instead.
response_echo_query(response, query) ==
    IF response.query = <<>> THEN query ELSE response.query
-----------------------------------------------------------------------------
(***************************************************************************)
(* io.rs and async_io.rs.  A stream is the bytes it has left; what a read  *)
(* returns comes with the rest of the stream.                              *)
(***************************************************************************)
read_exact(stream, n) ==
    IF Len(stream) < n THEN Err("UnexpectedEof")
    ELSE Ok([bytes |-> SubSeq(stream, 1, n), rest |-> SubSeq(stream, n + 1, Len(stream))])

read_message(stream) ==
    LET head == read_exact(stream, HEADER_SIZE) IN
    IF ~IsOk(head) THEN head
    ELSE LET decoded == decode(head.ok.bytes) IN
         IF ~IsOk(decoded) THEN decoded
         ELSE LET query == read_exact(head.ok.rest, decoded.ok.query_length) IN
              IF ~IsOk(query) THEN query
              ELSE LET body == read_exact(query.ok.rest, decoded.ok.body_length) IN
                   IF ~IsOk(body) THEN body
                   ELSE Ok([msg  |-> Message_new(decoded.ok, query.ok.bytes, body.ok.bytes),
                            rest |-> body.ok.rest])

\* Fills a reused buffer with one whole frame.
read_message_into(stream) ==
    LET head == read_exact(stream, HEADER_SIZE) IN
    IF ~IsOk(head) THEN head
    ELSE LET decoded == decode(head.ok.bytes) IN
         IF ~IsOk(decoded) THEN decoded
         ELSE LET total == usize(HEADER_SIZE + usize(decoded.ok.query_length)
                                 + usize(decoded.ok.body_length))
                  more  == read_exact(head.ok.rest, total - HEADER_SIZE)
              IN  IF ~IsOk(more) THEN more
                  ELSE Ok([frame |-> head.ok.bytes \o more.ok.bytes, rest |-> more.ok.rest])

\* write_message, write_message_async and Message::write_to.
write_message(msg) == encode(msg.header) \o msg.query \o msg.body

write_message_streaming(header, query, body) ==
    encode([header EXCEPT !.query_length = Len(query), !.body_length = Len(body),
                          !.length = HEADER_SIZE + Len(query) + Len(body)])
        \o query \o body

\* write_message_typed_slice and write_message_complex_slice.
write_message_typed_slice(header, query, value) ==
    write_message_streaming([header EXCEPT !.body_format = "Beve"], query, beve_bytes(value, 0))

\* server_request.rs and async_server.rs: frame a query-less response.
write_view_response(response, query) ==
    write_message_streaming(response.header, response_echo_query(response, query),
                            response.body)
-----------------------------------------------------------------------------
(***************************************************************************)
(* Properties.                                                             *)
(***************************************************************************)
\* The builder's calls of a case [first, body, query, value]: the query is set
\* before or after the body.
Built(case) ==
    LET WithQuery(b) == Set(b, "query", case.query)
        WithBody(b) == CASE case.body = "json" -> body_json(b, case.value)
                         [] case.body = "beve" -> body_beve(b, case.value)
                         [] case.body = "typed" -> body_typed_slice(b, case.value)
                         [] case.body = "aligned" -> body_aligned_typed_slice(b, case.value)
                         [] case.body = "none" -> b
    IN  IF case.first = "query" THEN WithBody(WithQuery(MessageBuilder))
        ELSE WithQuery(WithBody(MessageBuilder))

\* However a message is built, every writer puts the same frame on the wire,
\* whether or not into_wire_bytes finds room in the body's vector; both
\* readers take exactly that frame off a stream that goes on, the three
\* parsers give the message back, and no strict prefix of it is a message.
FrameReadsBack(case) ==
    LET msg   == build(Built(case))
        frame == to_vec(msg)
        next  == encode(Header_new)
    IN  /\ \A capacity \in 0..(Len(frame) + 1) : into_wire_bytes(msg, capacity) = frame
        /\ write_message(msg) = frame
        /\ case.body = "typed" =>
              write_message_typed_slice(msg.header, msg.query, case.value) = frame
        /\ read_message(frame \o next) = Ok([msg |-> Ok(msg), rest |-> next])
        /\ read_message_into(frame \o next) = Ok([frame |-> frame, rest |-> next])
        /\ view_from_slice_exact(frame) = Ok(msg)
        /\ from_slice_exact(frame) = Ok(msg)
        /\ ~IsOk(view_from_slice_exact(frame \o next))
        /\ case.body # "none" => decode_body(msg) = Ok(case.value)
        /\ \A n \in 0..(Len(frame) - 1) :
              /\ read_message(SubSeq(frame, 1, n)) = Err("UnexpectedEof")
              /\ ~IsOk(view_from_slice(SubSeq(frame, 1, n)))

\* body_aligned_typed_slice after the query: the first element is on a
\* boundary of the frame, and into_wire_bytes, which moves the body there, has
\* the room to do it in place.  With the query set last neither need hold, but
\* the value still reads back (FrameReadsBack).
AlignedInFrame(case) ==
    LET builder == Built(case)
        frame   == into_wire_bytes(build(builder), builder.capacity)
    IN  (case.body = "aligned" /\ case.first = "query") =>
            /\ builder.capacity >= Len(frame)
            /\ \A i \in DOMAIN frame :
                  (kind(frame[i]) = "element" /\ kind(frame[i - 1]) # "element") =>
                      (i - 1) % ALIGN = 0

\* Whatever lengths a header claims and however many bytes came with it, the
\* parsers slice within the buffer, agree with one another, and take no more
\* than the frame: the sum they add up again without a check cannot wrap once
\* Header::decode has accepted it.
ParseIsSafe(header, n) ==
    LET buf  == SubSeq(encode(header) \o [i \in 1..USIZE_MAX |-> Byte("zero", 0)], 1, n)
        view == view_from_slice(buf)
    IN  /\ view # Err("panic")
        /\ from_slice(buf) = view
        /\ IsOk(view) => encode(header) \o view.ok.query \o view.ok.body
                            = SubSeq(buf, 1, header.length)
        /\ IsOk(view_from_slice_exact(buf)) <=> (IsOk(view) /\ n = header.length)
        /\ IsOk(read_message_into(buf)) <=> IsOk(view)
=============================================================================
