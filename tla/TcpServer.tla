----------------------------- MODULE TcpServer -----------------------------
(***************************************************************************)
(* The two TCP servers, Server (server.rs, a thread per connection) and    *)
(* AsyncServer (async_server.rs, a task per connection): one loop per      *)
(* connection that reads a request, routes it, writes the response into a  *)
(* BufWriter and flushes.                                                  *)
(*                                                                         *)
(* A response is a sequence of pieces, the units in which the BufWriter,   *)
(* the socket and the client pass bytes on: a head (header and echoed      *)
(* query) and a body, of two pieces and past the buffer when it is large.  *)
(* Server::stop is not modelled: serve consumes the server and sets        *)
(* `running' itself, so that nothing can call stop while it matters.       *)
(***************************************************************************)
EXTENDS Naturals, SequencesExt

CONSTANTS Conns, Scenarios,
          BUFFER,    \* pieces a BufWriter holds
          SOCKET     \* pieces a connection holds that the client has not read

VARIABLES scenario,
          listening,   \* serve has not returned
          conn         \* the connections, from both ends
vars == <<scenario, listening, conn>>

IsAsync == scenario.flavour = "async"
Sends(c) == scenario.sends[c]
Pieces(c, k) ==
    IF Sends(c)[k] = "large call"
    THEN << <<k, "head">>, <<k, "large">>, <<k, "larger">> >>
    ELSE << <<k, "head">>, <<k, "body">> >>

Init ==
    /\ scenario \in Scenarios
    /\ listening = TRUE
    /\ conn = [c \in Conns |->
                 [pc |-> "backlog", open |-> TRUE, sent |-> 0, next |-> 1, rest |-> <<>>,
                  buffer |-> <<>>, wire |-> <<>>, read |-> 0, expired |-> FALSE]]
-----------------------------------------------------------------------------
(***************************************************************************)
(* The client: external.                                                   *)
(***************************************************************************)
Client(c) ==
    /\ \/ /\ conn[c].open /\ conn[c].sent < Len(Sends(c))
          /\ conn' = [conn EXCEPT ![c].sent = @ + 1]
       \/ conn[c].open /\ conn' = [conn EXCEPT ![c].open = FALSE]
    /\ UNCHANGED <<scenario, listening>>

ClientReads(c) ==
    /\ conn[c].open /\ conn[c].read < Len(conn[c].wire)
    /\ conn' = [conn EXCEPT ![c].read = @ + 1]
    /\ UNCHANGED <<scenario, listening>>
-----------------------------------------------------------------------------
\* serve: an accept error ends it; what was accepted goes on.
serve(c) ==
    /\ listening
    /\ \/ /\ conn[c].pc = "backlog"
          /\ conn' = [conn EXCEPT ![c].pc = "read"]
          /\ UNCHANGED listening
       \/ scenario.accept_fails /\ listening' = FALSE /\ UNCHANGED conn
    /\ UNCHANGED scenario

\* handle_connection reads a frame and routes it.  A notify has no response; a
\* frame that does not parse, and a handler that panics, end the connection.
ReadRequest(c) ==
    LET k == conn[c].next IN
    /\ conn[c].pc = "read" /\ k <= conn[c].sent
    /\ conn' = [conn EXCEPT
                  ![c].next = k + 1,
                  ![c].pc = CASE Sends(c)[k] \in {"call", "large call"} -> "write"
                              [] Sends(c)[k] = "notify" -> "read"
                              [] Sends(c)[k] \in {"malformed", "panic"} -> "closed",
                  ![c].rest = IF Sends(c)[k] \in {"call", "large call"}
                              THEN Pieces(c, k) ELSE <<>>]
    /\ UNCHANGED <<scenario, listening>>

\* End of file, or the read timeout.
ReadEnds(c) ==
    /\ conn[c].pc = "read" /\ conn[c].next > conn[c].sent
    /\ ~conn[c].open \/ scenario.read_timeout
    /\ conn' = [conn EXCEPT ![c].pc = "closed"]
    /\ UNCHANGED <<scenario, listening>>

Room(c) == conn[c].open /\ Len(conn[c].wire) - conn[c].read < SOCKET
IsLarge(piece) == piece[2] \in {"large", "larger"}

\* What the next byte needs is in the socket's way: the buffer is full, the
\* body is written past it, or it is being flushed.
NeedsSocket(c) ==
    \/ conn[c].pc = "flush" /\ conn[c].buffer # <<>>
    \/ /\ conn[c].pc = "write" /\ conn[c].rest # <<>>
       /\ IsLarge(Head(conn[c].rest)) \/ Len(conn[c].buffer) = BUFFER

\* write_view_response: write_all of the next piece, into the buffer ...
Put(c) ==
    /\ conn[c].pc = "write" /\ conn[c].rest # <<>> /\ ~NeedsSocket(c)
    /\ conn' = [conn EXCEPT ![c].buffer = Append(@, Head(conn[c].rest)), ![c].rest = Tail(@)]
    /\ UNCHANGED <<scenario, listening>>

\* ... after older bytes of it, or to the socket itself.
Drain(c) ==
    /\ NeedsSocket(c) /\ Room(c)
    /\ conn' = IF conn[c].buffer # <<>>
               THEN [conn EXCEPT ![c].wire = Append(@, Head(conn[c].buffer)), ![c].buffer = Tail(@)]
               ELSE [conn EXCEPT ![c].wire = Append(@, Head(conn[c].rest)), ![c].rest = Tail(@)]
    /\ UNCHANGED <<scenario, listening>>

Written(c) ==
    /\ conn[c].pc = "write" /\ conn[c].rest = <<>>
    /\ conn' = [conn EXCEPT ![c].pc = "flush"]
    /\ UNCHANGED <<scenario, listening>>

Flushed(c) ==
    /\ conn[c].pc = "flush" /\ conn[c].buffer = <<>>
    /\ conn' = [conn EXCEPT ![c].pc = "read"]
    /\ UNCHANGED <<scenario, listening>>

\* Mutant: the loop goes on after a write that failed, as the async one does.
WriteEnds_Ignored(c) ==
    /\ NeedsSocket(c) /\ ~Room(c)
    /\ ~conn[c].open \/ scenario.write_timeout
    /\ conn' = [conn EXCEPT ![c].pc = IF @ = "write" THEN "flush" ELSE "read",
                            ![c].rest = <<>>]
    /\ UNCHANGED <<scenario, listening>>

\* The peer is gone, or the write timeout expires.  AsyncServer with a write
\* timeout drops both results (.ok()): the rest of the response is forgotten,
\* what is in the buffer stays, and the loop goes on.  Otherwise the
\* connection ends, and the BufWriter's drop may still send what it holds.
WriteEnds(c) ==
    /\ NeedsSocket(c) /\ ~Room(c)
    /\ ~conn[c].open \/ scenario.write_timeout
    /\ IF IsAsync /\ scenario.write_timeout
       THEN conn' = [conn EXCEPT ![c].pc = IF @ = "write" THEN "flush" ELSE "read",
                                 ![c].rest = <<>>, ![c].expired = TRUE]
       ELSE \E n \in 0 .. (IF conn[c].open /\ ~IsAsync THEN Len(conn[c].buffer) ELSE 0) :
               conn' = [conn EXCEPT ![c].pc = "closed",
                                    ![c].wire = @ \o SubSeq(conn[c].buffer, 1, n)]
    /\ UNCHANGED <<scenario, listening>>

Connection(c) ==
    \/ ReadRequest(c) \/ ReadEnds(c)
    \/ Put(c) \/ Drain(c) \/ Written(c) \/ Flushed(c) \/ WriteEnds(c)

Next == \E c \in Conns : serve(c) \/ Connection(c) \/ Client(c) \/ ClientReads(c)

\* Threads and tasks run, timeouts expire, and a client reads unless the
\* scenario says it stalls.  Nothing makes it send.
Fairness ==
    \A c \in Conns :
        /\ WF_vars(Connection(c))
        /\ WF_vars(c \notin scenario.stalled /\ ClientReads(c))
-----------------------------------------------------------------------------
\* The client reads the responses to its calls, in the order of the calls,
\* each once, whole but perhaps for the last, and none for a notify: whatever
\* the buffer and the socket hold when a write fails, no frame follows a torn
\* one.  So it is until AsyncServer drops the result of a write.
FramesInOrder ==
    \A c \in Conns :
        ~conn[c].expired =>
            IsPrefix(conn[c].wire,
                     FlattenSeq([k \in DOMAIN Sends(c) |->
                         IF Sends(c)[k] \in {"call", "large call"} THEN Pieces(c, k) ELSE <<>>]))

\* A response that is being written reaches the socket to its last piece, or
\* the connection ends, unless nothing bounds the wait for a client that does
\* not read.
Bounded(c) == c \notin scenario.stalled \/ scenario.write_timeout
Settled(c) ==
    conn[c].pc = "closed" \/ conn[c].expired \/ (conn[c].pc = "read" /\ conn[c].buffer = <<>>)
=============================================================================
