----------------------------- MODULE ValueStream -----------------------------
(***************************************************************************)
(* The producing side of the serialized value stream (src/value_stream.rs):*)
(* the open, next and cancel handlers, the session table they share, and   *)
(* one producer thread per stream.                                         *)
(*                                                                         *)
(* The body of every stream is the units 1..scenario.units; a unit stands  *)
(* for a byte of the encoded (possibly compressed) body.  A write of many  *)
(* bytes fills chunks exactly as single bytes do, so the body writer hands *)
(* ChunkSink one unit at a time.  Compression only matters to the client,  *)
(* whose decoder may stop at the end of the frame (PullStream).            *)
(***************************************************************************)
EXTENDS Naturals, Sequences, FiniteSets, Functions

CONSTANTS
    Pullers,    \* the clients that each open one stream
    Rival,      \* a client that names a stream it did not open
    Scenarios, None

VARIABLES
    scenario,
    next_id,    \* SessionTable::next_id
    table,      \* SessionTable::sessions, the ids in the map
    session,    \* [id -> Session]; it outlives its table entry while a next holds it
    producer,   \* [id -> producer thread]
    task,       \* [caller -> the handler serving its request]
    cancels,    \* cancel notifies on their way to the server
    handed,     \* [id -> the units pulled so far, in the order of the pulls]
    ended       \* the streams whose last chunk was pulled

Callers == Pullers \cup {Rival}

\* A chunk holds a byte or more: with chunk_bytes 0 the loop of ChunkSink::write
\* would never end.  None is a value apart.
ASSUME StreamAssumption ==
    /\ IsFiniteSet(Pullers) /\ Rival \notin Pullers
    /\ None \notin Callers /\ None \notin Nat /\ None \notin Seq(Nat)
    /\ \A s \in Scenarios : s.units \in Nat /\ s.chunk_bytes \in Nat \ {0}

serverVars == <<next_id, table, session, producer, task, cancels, handed, ended>>

StreamIds == 1..Cardinality(Pullers)
Body == [i \in 1..scenario.units |-> i]

\* RouterValueStreamExt: the format that a registration reports in its open
\* responses.
Beve ==
    CASE scenario.producer \in {"value", "typed", "complex"} -> TRUE
      [] scenario.producer = "reader"      -> FALSE
      [] scenario.producer = "writer_beve" -> TRUE
      [] scenario.producer = "writer_raw"  -> FALSE

Chunk(data) == [kind |-> "Chunk", data |-> data]
End == [kind |-> "End", data |-> <<>>]
Fail == [kind |-> "Fail", data |-> <<>>]

Idle == [pc |-> "idle", id |-> None, current |-> <<>>, last |-> FALSE]
Request(route, id) == [pc |-> route, id |-> id, current |-> <<>>, last |-> FALSE]
Holding == {"lock", "pull", "lookahead", "settle"}

\* The receiver lives as long as the table or a next handler has the session.
RxAlive(id) ==
    id \in table \/ \E c \in Callers : task[c].id = id /\ task[c].pc \in Holding

ServerInit ==
    /\ next_id = 1 /\ table = {} /\ cancels = {} /\ ended = {}
    /\ session = [id \in StreamIds |-> None]
    /\ producer = [id \in StreamIds |-> None]
    /\ task = [c \in Callers |-> Idle]
    /\ handed = [id \in StreamIds |-> <<>>]
-----------------------------------------------------------------------------
(***************************************************************************)
(* The producer thread.                                                    *)
(***************************************************************************)
Channel(id) == session[id].rx

\* sync_channel: with session_depth 0 a send meets a receiver that waits.
Waiting(id) ==
    \E c \in Callers : task[c].id = id /\ task[c].pc \in {"pull", "lookahead"}
HasRoom(id) ==
    \/ Len(Channel(id)) < scenario.session_depth
    \/ scenario.session_depth = 0 /\ Channel(id) = <<>> /\ Waiting(id)

Push(id, msg) == session' = [session EXCEPT ![id].rx = Append(@, msg)]

\* ChunkSink::write: a full buffer is sent before the next byte is taken.
Write(id) ==
    /\ producer[id].pc = "write" /\ producer[id].written < scenario.units
    /\ LET w == producer[id].written + 1
           b == Append(producer[id].buf, w)
       IN  producer' = [producer EXCEPT ![id].written = w, ![id].buf = b,
                          ![id].pc = IF Len(b) >= scenario.chunk_bytes THEN "send" ELSE "write"]
    /\ UNCHANGED <<next_id, table, session, task, cancels, handed, ended>>

\* The body is written: flush_remaining sends the partial chunk, if any.
FlushRemaining(id) ==
    /\ producer[id].pc = "write" /\ producer[id].written = scenario.units
    /\ producer' = [producer EXCEPT ![id].pc = IF producer[id].buf = <<>> THEN "marker" ELSE "send"]
    /\ UNCHANGED <<next_id, table, session, task, cancels, handed, ended>>

\* ChunkSink::send_chunk: a dropped receiver is a broken pipe, and the
\* producer reports it like any other failure.
SendChunk(id) ==
    /\ producer[id].pc = "send"
    /\ \/ /\ RxAlive(id) /\ HasRoom(id)
          /\ Push(id, Chunk(producer[id].buf))
          /\ producer' = [producer EXCEPT ![id].pc = "write", ![id].buf = <<>>]
       \/ /\ ~RxAlive(id)
          /\ producer' = [producer EXCEPT ![id].pc = "marker", ![id].marker = Fail]
          /\ UNCHANGED session
    /\ UNCHANGED <<next_id, table, task, cancels, handed, ended>>

\* The body writer returns an error.
BodyFails(id) ==
    /\ scenario.body_fails
    /\ producer[id].pc = "write"
    /\ producer' = [producer EXCEPT ![id].pc = "marker", ![id].marker = Fail]
    /\ UNCHANGED <<next_id, table, session, task, cancels, handed, ended>>

\* The body writer panics: the thread unwinds without a marker.
BodyPanics(id) ==
    /\ scenario.body_panics
    /\ producer[id].pc = "write"
    /\ producer' = [producer EXCEPT ![id].pc = "gone"]
    /\ UNCHANGED <<next_id, table, session, task, cancels, handed, ended>>

\* The end of produce: exactly one marker, then both senders drop.
SendMarker(id) ==
    /\ producer[id].pc = "marker"
    /\ RxAlive(id) => HasRoom(id)
    /\ IF RxAlive(id) THEN Push(id, producer[id].marker) ELSE UNCHANGED session
    /\ producer' = [producer EXCEPT ![id].pc = "gone"]
    /\ UNCHANGED <<next_id, table, task, cancels, handed, ended>>

Produce(id) ==
    /\ producer[id] # None
    /\ Write(id) \/ FlushRemaining(id) \/ SendChunk(id) \/ SendMarker(id)
ProduceFails(id) == producer[id] # None /\ (BodyFails(id) \/ BodyPanics(id))
-----------------------------------------------------------------------------
(***************************************************************************)
(* The handlers.  A handler that finishes leaves "ok" or "error" in its    *)
(* task for the caller.                                                    *)
(***************************************************************************)
Finish(c, pc) == task' = [task EXCEPT ![c].pc = pc]

\* OpenHandler::handle: an unknown resource is refused; otherwise the thread
\* is spawned and its session inserted under a fresh id.
Open(c) ==
    /\ task[c].pc = "open"
    /\ IF ~scenario.known
       THEN Finish(c, "error") /\ UNCHANGED <<next_id, table, session, producer>>
       ELSE /\ next_id' = next_id + 1
            /\ producer' = [producer EXCEPT ![next_id] =
                  [pc |-> "write", written |-> 0, buf |-> <<>>, marker |-> End]]
            /\ table' = table \cup {next_id}
            /\ session' = [session EXCEPT ![next_id] =
                  [rx |-> <<>>, lookahead |-> None, done |-> FALSE, lock |-> None]]
            /\ task' = [task EXCEPT ![c].pc = "ok", ![c].id = next_id]
    /\ UNCHANGED <<cancels, handed, ended>>

\* NextHandler::handle, up to the clone of the session's Arc.
NextLooksUp(c) ==
    /\ task[c].pc = "next"
    /\ Finish(c, IF task[c].id \in table THEN "lock" ELSE "error")
    /\ UNCHANGED <<next_id, table, session, producer, cancels, handed, ended>>

\* It locks the session and looks at done.  The chunk held back by an
\* earlier pull is this pull's chunk.
NextLocks(c) ==
    LET id == task[c].id
        s == session[id]
    IN  /\ task[c].pc = "lock" /\ s.lock = None
        /\ IF s.done
           THEN /\ task' = [task EXCEPT ![c].pc = "settle", ![c].last = TRUE, ![c].current = None]
                /\ UNCHANGED session
           ELSE /\ session' = [session EXCEPT ![id].lock = c, ![id].lookahead = None]
                /\ task' = IF s.lookahead = None THEN [task EXCEPT ![c].pc = "pull"]
                           ELSE [task EXCEPT ![c].pc = "lookahead", ![c].current = s.lookahead]
        /\ UNCHANGED <<next_id, table, producer, cancels, handed, ended>>

\* Session::recv: a bare close means that the producer vanished.
Recv_CloseEnds(id, msg) ==
    \/ Channel(id) # <<>> /\ msg = Head(Channel(id))
    \/ Channel(id) = <<>> /\ producer[id].pc = "gone" /\ msg = End
Recv(id, msg) ==
    \/ Channel(id) # <<>> /\ msg = Head(Channel(id))
    \/ Channel(id) = <<>> /\ producer[id].pc = "gone" /\ msg = Fail

Popped(s) == [s EXCEPT !.rx = IF @ = <<>> THEN <<>> ELSE Tail(@)]

\* Session::pull answers; NextHandler sets done on a last chunk or an error
\* and releases the lock.  A chunk that precedes a failure is dropped.
Answer(c, s, data, last) ==
    LET id == task[c].id
    IN  /\ session' = [session EXCEPT ![id] =
              [s EXCEPT !.lock = None, !.done = last]]
        /\ task' = [task EXCEPT ![c].pc = "settle", ![c].current = data, ![c].last = last]
        /\ handed' = [handed EXCEPT ![id] = IF data = None THEN @ ELSE @ \o data]
        /\ ended' = IF last /\ data # None THEN ended \cup {id} ELSE ended

\* Session::pull without a chunk in hand.
Pull(c) ==
    LET id == task[c].id
        s == Popped(session[id])
    IN  /\ task[c].pc = "pull"
        /\ \E msg \in {Chunk(<<>>), End, Fail} \cup Range(Channel(id)) :
              /\ Recv(id, msg)
              /\ CASE msg.kind = "Chunk" ->
                        /\ session' = [session EXCEPT ![id] = s]
                        /\ task' = [task EXCEPT ![c].pc = "lookahead", ![c].current = msg.data]
                        /\ UNCHANGED <<handed, ended>>
                   [] msg.kind = "End"  -> Answer(c, s, <<>>, TRUE)
                   [] msg.kind = "Fail" -> Answer(c, s, None, TRUE)
        /\ UNCHANGED <<next_id, table, producer, cancels>>

\* Session::pull with a chunk in hand: it waits for what follows the chunk,
\* to know whether the chunk is the last.
Lookahead(c) ==
    LET id == task[c].id
        s == Popped(session[id])
    IN  /\ task[c].pc = "lookahead"
        /\ \E msg \in {Chunk(<<>>), End, Fail} \cup Range(Channel(id)) :
              /\ Recv(id, msg)
              /\ CASE msg.kind = "Chunk" ->
                        Answer(c, [s EXCEPT !.lookahead = msg.data], task[c].current, FALSE)
                   [] msg.kind = "End"  -> Answer(c, s, task[c].current, TRUE)
                   [] msg.kind = "Fail" -> Answer(c, s, None, TRUE)
        /\ UNCHANGED <<next_id, table, producer, cancels>>

\* The rest of NextHandler::handle: a finished stream leaves the table.
NextSettles_KeepsEntry(c) ==
    /\ task[c].pc = "settle"
    /\ Finish(c, IF task[c].current = None THEN "error" ELSE "ok")
    /\ UNCHANGED <<next_id, table, session, producer, cancels, handed, ended>>
NextSettles(c) ==
    /\ task[c].pc = "settle"
    /\ table' = IF task[c].last THEN table \ {task[c].id} ELSE table
    /\ Finish(c, IF task[c].current = None THEN "error" ELSE "ok")
    /\ UNCHANGED <<next_id, session, producer, cancels, handed, ended>>

\* CancelHandler::handle: the table lets go; a next under way still holds on.
Cancel(id) ==
    /\ id \in cancels /\ cancels' = cancels \ {id}
    /\ table' = table \ {id}
    /\ UNCHANGED <<next_id, session, producer, task, handed, ended>>

Serve(c) ==
    Open(c) \/ NextLooksUp(c) \/ NextLocks(c) \/ Pull(c) \/ Lookahead(c) \/ NextSettles(c)

\* A client that learned the id of a live stream pulls from it or cancels it.
RivalActs ==
    /\ task[Rival] = Idle
    /\ \E id \in table :
          \/ "next" \in scenario.rival /\ task' = [task EXCEPT ![Rival] = Request("next", id)]
             /\ UNCHANGED cancels
          \/ "cancel" \in scenario.rival /\ cancels' = cancels \cup {id} /\ UNCHANGED task
    /\ UNCHANGED <<next_id, table, session, producer, handed, ended>>
RivalDone ==
    /\ task[Rival].pc \in {"ok", "error"} /\ task' = [task EXCEPT ![Rival] = Idle]
    /\ UNCHANGED <<next_id, table, session, producer, cancels, handed, ended>>
-----------------------------------------------------------------------------
\* Whoever pulls, the chunks of a stream are handed out once, in order, and a
\* chunk marked last completes the body: a production that failed never
\* passes for a short one (Session::pull).
ChunksInOrder ==
    \A id \in StreamIds :
        /\ \E n \in 0..scenario.units : handed[id] = SubSeq(Body, 1, n)
        /\ id \in ended => handed[id] = Body

=============================================================================
