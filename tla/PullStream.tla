------------------------------ MODULE PullStream -----------------------------
(***************************************************************************)
(* The pulling side of the serialized value stream (src/value_stream.rs),  *)
(* composed with the producing side.  A puller makes one pull:             *)
(*   "file"     pull_stream into a file (write_file)                       *)
(*   "value"    pull_stream into a value                                   *)
(*   "slice"    pull_typed_slice and pull_complex_slice                    *)
(*   "consume"  pull_consume and pull_to_vec                              *)
(*   "trailer"  pull_to_file_trailer_verified                              *)
(*   "async_file", "async_consume", "async_verified", "async_trailer"      *)
(*              the same over run_pull: a pull loop on the caller's task   *)
(*              feeds a blocking consumer through a bounded channel        *)
(*                                                                         *)
(* Files are modelled as a directory that names inodes: temp and final say *)
(* what <path>.svspart and <path> name, data what an inode holds, and a    *)
(* writer keeps its inode and its offset whatever happens to the names.    *)
(***************************************************************************)
EXTENDS ValueStream

CONSTANTS
    Paths,
    AsyncPullDepth      \* ASYNC_PULL_DEPTH

VARIABLES
    pc,         \* the pull of each puller
    conn,       \* the pullers whose connection is up
    seen,       \* ChunkReader::last_seen, or that the pull loop met the last chunk
    buf,        \* ChunkReader::buf, or the chunks in the async channel
    consumer,   \* the consuming closure
    got,        \* what it was given, the held trailer included
    failed,     \* the pull loop ended in an error
    temp, final, data, node,
    outcome

clientVars == <<pc, conn, seen, buf, consumer, got, failed, outcome>>
fileVars == <<temp, final, data, node>>
vars == <<scenario, serverVars, clientVars, fileVars>>

Kind(p) == scenario.kind[p]
Path(p) == scenario.path[p]
Async(p) == Kind(p) \in {"async_file", "async_consume", "async_verified", "async_trailer"}
ToFile(p) == Kind(p) \in {"file", "trailer", "async_file", "async_verified", "async_trailer"}
Verified(p) == Kind(p) \in {"trailer", "async_verified", "async_trailer"}
TrailerLen(p) == IF Kind(p) \in {"trailer", "async_trailer"} THEN scenario.trailer ELSE 0

Over == {"done", "dropped", "crashed"}

Init ==
    /\ scenario \in Scenarios
    /\ ServerInit
    /\ pc = [p \in Pullers |-> IF p \in scenario.pulls THEN "start" ELSE "done"]
    /\ conn = Pullers
    /\ seen = [p \in Pullers |-> FALSE]
    /\ buf = [p \in Pullers |-> <<>>]
    /\ consumer = [p \in Pullers |-> "none"]
    /\ got = [p \in Pullers |-> <<>>]
    /\ failed = {}
    /\ temp = [x \in Paths |-> None] /\ final = [x \in Paths |-> None]
    /\ data = [p \in Pullers |-> <<>>] /\ node = [p \in Pullers |-> None]
    /\ outcome = [p \in Pullers |-> None]
-----------------------------------------------------------------------------
(***************************************************************************)
(* Files.                                                                  *)
(***************************************************************************)
\* TempFile::create on temp_sibling(path): a file already there is truncated.
CreateTemp(p) ==
    LET n == IF temp[Path(p)] = None THEN p ELSE temp[Path(p)]
    IN  /\ node' = [node EXCEPT ![p] = n]
        /\ data' = [data EXCEPT ![n] = <<>>]
        /\ temp' = [temp EXCEPT ![Path(p)] = n]
        /\ UNCHANGED final

\* A consumer begins; it may be unable to create its part file.
Starts(p) ==
    \/ /\ consumer' = [consumer EXCEPT ![p] = "reading"]
       /\ IF ToFile(p) THEN CreateTemp(p) ELSE UNCHANGED fileVars
    \/ /\ ToFile(p) /\ scenario.create_fails
       /\ consumer' = [consumer EXCEPT ![p] = "uncreated"] /\ UNCHANGED fileVars

\* Bytes written after offset off; a gap reads as zeros.
WrittenAt(old, off, new) ==
    [i \in 1..(IF off + Len(new) > Len(old) THEN off + Len(new) ELSE Len(old)) |->
        CASE i > off /\ i <= off + Len(new) -> new[i - off]
          [] i > Len(old) -> 0
          [] OTHER -> old[i]]

\* TrailerHold::write and into_trailer: all but the last n units go through.
Through_Early(units, n) == units
Through(units, n) ==
    IF Len(units) <= n THEN <<>> ELSE SubSeq(units, 1, Len(units) - n)

\* A chunk reaches the file (and, teed, the digest).
WriteTemp(p, chunk) ==
    LET old == Through(got[p], TrailerLen(p))
        new == Through(got[p] \o chunk, TrailerLen(p))
    IN  data' = [data EXCEPT ![node[p]] =
            WrittenAt(@, Len(old), SubSeq(new, Len(old) + 1, Len(new)))]

\* TempFile::drop.
DropTemp(p) ==
    /\ temp' = IF node[p] = None THEN temp ELSE [temp EXCEPT ![Path(p)] = None]
    /\ node' = [node EXCEPT ![p] = None]
    /\ UNCHANGED <<final, data>>

\* TempFile::commit: the rename, or the removal of the part file.
Renames(p) ==
    /\ temp[Path(p)] # None
    /\ final' = [final EXCEPT ![Path(p)] = temp[Path(p)]]
    /\ temp' = [temp EXCEPT ![Path(p)] = None]
    /\ node' = [node EXCEPT ![p] = None] /\ UNCHANGED data
RenameFails(p) ==
    /\ temp[Path(p)] = None \/ scenario.rename_fails
    /\ temp' = [temp EXCEPT ![Path(p)] = None]
    /\ node' = [node EXCEPT ![p] = None] /\ UNCHANGED <<final, data>>
-----------------------------------------------------------------------------
(***************************************************************************)
(* Calls.                                                                  *)
(***************************************************************************)
Ends(p, result) ==
    pc' = [pc EXCEPT ![p] = "done"] /\ outcome' = [outcome EXCEPT ![p] = result]

Send(p, route, id) == task' = [task EXCEPT ![p] = Request(route, id)]
Received(p) == task' = [task EXCEPT ![p] = [Idle EXCEPT !.id = task[p].id]]
Stream(p) == task[p].id

\* cancel_stream: a notify, lost with the connection.
Cancels(p) ==
    cancels' = IF p \in conn THEN cancels \cup {Stream(p)} ELSE cancels

\* open_stream, open_async.
StartOpen(p) ==
    /\ pc[p] = "start"
    /\ scenario.after[p] \subseteq {q \in Pullers : pc[q] \in Over}
    /\ Send(p, "open", None)
    /\ pc' = [pc EXCEPT ![p] = "opening"]
    /\ UNCHANGED <<scenario, next_id, table, session, producer, cancels, handed, ended,
                   conn, seen, buf, consumer, got, failed, outcome, fileVars>>

\* parse_open_response: the version and the compression tag must be known.
parse_open_response == scenario.version = 1 /\ scenario.tag \in {0, 1}
Compressed == scenario.tag = 1

\* check_output: whether the tags of the stream suit the output.
check_output(p) ==
    CASE scenario.output = "BeveZstdFile" -> Compressed
      [] scenario.output = "BeveFile"     -> Compressed /\ Beve
      [] scenario.output = "RawFile"      -> TRUE

\* require_beve, asked by the value decoder and by the bulk slice readers.
require_beve(p) == Beve

Suits(p) ==
    CASE Kind(p) = "file"             -> check_output(p)
      [] Kind(p) \in {"value", "slice"} -> require_beve(p)
      [] OTHER                        -> TRUE

\* pull_stream and its siblings once the stream is open.  A pull that cannot
\* use the stream releases it.  The blocking pulls create the part file here;
\* run_pull's consumer will do so when its thread starts.
Opened(p) ==
    /\ pc[p] = "opening" /\ task[p].pc \in {"ok", "error"} /\ p \in conn
    /\ Received(p)
    /\ IF task[p].pc = "error" \/ ~parse_open_response
       THEN Ends(p, "error") /\ UNCHANGED <<consumer, cancels, fileVars>>
       ELSE IF ~Suits(p)
       THEN Ends(p, "error") /\ Cancels(p) /\ UNCHANGED <<consumer, fileVars>>
       ELSE /\ pc' = [pc EXCEPT ![p] = "reading"]
            /\ IF Async(p)
               THEN consumer' = [consumer EXCEPT ![p] = "spawned"] /\ UNCHANGED fileVars
               ELSE Starts(p)
            /\ UNCHANGED <<outcome, cancels>>
    /\ UNCHANGED <<scenario, next_id, table, session, producer, handed, ended,
                   conn, seen, buf, got, failed>>

\* ChunkReader::fetch when its buffer is spent; pull_loop_async at once.
Fetch(p) ==
    /\ pc[p] = "reading" /\ ~seen[p] /\ p \notin failed
    /\ IF Async(p) THEN TRUE ELSE buf[p] = <<>> /\ consumer[p] = "reading"
    /\ Send(p, "next", Stream(p))
    /\ pc' = [pc EXCEPT ![p] = "fetching"]
    /\ UNCHANGED <<scenario, next_id, table, session, producer, cancels, handed, ended,
                   conn, seen, buf, consumer, got, failed, outcome, fileVars>>

\* The answer to next.  An async pull loop blocks while the channel is full,
\* and stops when the consumer has dropped the receiver.
Returned == {"ok", "err", "uncreated"}
Gone_Unnoticed(p) == FALSE
Gone(p) == consumer[p] \in Returned
Fetched(p) ==
    LET t == task[p]
    IN  /\ pc[p] = "fetching" /\ t.pc = "ok" /\ p \in conn
        /\ IF Async(p) /\ t.current # <<>> THEN Gone(p) \/ Len(buf[p]) < AsyncPullDepth ELSE TRUE
        /\ Received(p)
        /\ buf' = IF t.current = <<>> \/ Gone(p) THEN buf
                  ELSE [buf EXCEPT ![p] = Append(@, t.current)]
        /\ seen' = [seen EXCEPT ![p] = t.last \/ Gone(p)]
        /\ pc' = [pc EXCEPT ![p] = "reading"]
        /\ UNCHANGED <<scenario, next_id, table, session, producer, cancels, handed, ended,
                       conn, consumer, got, failed, outcome, fileVars>>

\* An error response, or a connection lost under the call.  The blocking
\* reader's consumer sees the error; the async one sees the end of the stream.
CallFails(p) ==
    /\ pc[p] \in {"opening", "fetching"}
    /\ p \notin conn \/ (pc[p] = "fetching" /\ task[p].pc = "error")
    /\ IF p \in conn THEN Received(p) ELSE UNCHANGED task
    /\ IF pc[p] = "opening"
       THEN Ends(p, "error") /\ UNCHANGED <<failed, consumer>>
       ELSE /\ pc' = [pc EXCEPT ![p] = "reading"]
            /\ failed' = failed \cup {p}
            /\ consumer' = IF Async(p) THEN consumer ELSE [consumer EXCEPT ![p] = "err"]
            /\ UNCHANGED outcome
    /\ UNCHANGED <<scenario, next_id, table, session, producer, cancels, handed, ended,
                   conn, seen, buf, got, fileVars>>
-----------------------------------------------------------------------------
(***************************************************************************)
(* The consumer: a copy into the file, a decoder, or the caller's closure. *)
(***************************************************************************)
\* The blocking thread of run_pull starts.
ConsumerStarts(p) ==
    /\ consumer[p] = "spawned"
    /\ Starts(p)
    /\ UNCHANGED <<scenario, serverVars, pc, conn, seen, buf, got, failed, outcome>>

\* ChunkReader::read and ChannelReader::read hand it the next chunk.
Consume(p) ==
    /\ consumer[p] = "reading" /\ buf[p] # <<>>
    /\ buf' = [buf EXCEPT ![p] = Tail(@)]
    /\ got' = [got EXCEPT ![p] = @ \o Head(buf[p])]
    /\ IF ToFile(p) THEN WriteTemp(p, Head(buf[p])) /\ UNCHANGED <<temp, final, node>>
       ELSE UNCHANGED fileVars
    /\ UNCHANGED <<scenario, serverVars, pc, conn, seen, consumer, failed, outcome>>

\* End of file: after the last chunk, or, for a ChannelReader, once the pull
\* loop has dropped its sender for whatever reason.
AtEof(p) ==
    /\ buf[p] = <<>>
    /\ seen[p] \/ (Async(p) /\ (p \in failed \/ pc[p] = "dropped"))

\* The consumer returns.  At end of file a decoder rejects a short body, and
\* into_trailer a stream shorter than the trailer; a decompressor may return
\* at the end of the frame, and a bulk reader at the end of the array, without
\* asking for more.
Decodes(p) == Compressed \/ Kind(p) \in {"value", "slice"}
Returns(p, result) ==
    /\ consumer[p] = "reading"
    /\ \/ AtEof(p)
       \/ (Compressed \/ Kind(p) = "slice") /\ buf[p] = <<>> /\ got[p] = Body
    /\ result = IF \/ Decodes(p) /\ got[p] # Body
                   \/ Len(got[p]) < TrailerLen(p) THEN "err" ELSE "ok"
    /\ consumer' = [consumer EXCEPT ![p] = result]
    /\ IF result = "err" /\ Async(p) THEN DropTemp(p) ELSE UNCHANGED fileVars
    /\ UNCHANGED <<scenario, serverVars, pc, conn, seen, buf, got, failed, outcome>>

\* The consumer fails: the disk is full, or the content is not a value.
ConsumerFails(p) ==
    /\ scenario.consumer_fails /\ consumer[p] = "reading"
    /\ consumer' = [consumer EXCEPT ![p] = "err"]
    /\ IF Async(p) THEN DropTemp(p) ELSE UNCHANGED fileVars
    /\ UNCHANGED <<scenario, serverVars, pc, conn, seen, buf, got, failed, outcome>>
-----------------------------------------------------------------------------
(***************************************************************************)
(* The end of the pull.                                                    *)
(***************************************************************************)
\* What each kind of pull makes of its reader and consumer, and whether it
\* sends a cancel.  write_file asks for the last chunk and cancels on failure.
write_file(p) ==
    LET ok == consumer[p] = "ok" /\ seen[p]
    IN  [ok |-> ok, cancel |-> ~ok /\ consumer[p] # "uncreated"]

\* StreamOutput::Value: only a decoded value releases the rest of the stream.
pull_value(p) == [ok |-> consumer[p] = "ok", cancel |-> consumer[p] = "ok"]

\* pull_consume and pull_to_vec release the stream whatever the closure did.
pull_consume(p) == [ok |-> consumer[p] = "ok", cancel |-> TRUE]

\* So do the bulk slice readers.
pull_slice(p) == [ok |-> consumer[p] = "ok", cancel |-> TRUE]

\* run_pull looks at the pull loop's error before the consumer's result.
run_pull(p) == [ok |-> p \notin failed /\ consumer[p] = "ok", cancel |-> TRUE]

Result(p) ==
    CASE Kind(p) = "file"                   -> write_file(p)
      [] Kind(p) = "value"                  -> pull_value(p)
      [] Kind(p) = "slice"                  -> pull_slice(p)
      [] Kind(p) \in {"consume", "trailer"} -> pull_consume(p)
      [] Async(p)                           -> run_pull(p)

\* The async pull loop and the consumer have both returned.
PullLoopDone(p) == Async(p) => seen[p] \/ p \in failed

Finishes(p) ==
    /\ pc[p] = "reading" /\ consumer[p] \in Returned /\ PullLoopDone(p)
    /\ IF Result(p).cancel THEN Cancels(p) ELSE UNCHANGED cancels
    /\ IF ~Result(p).ok THEN Ends(p, "error") /\ DropTemp(p)
       ELSE IF ToFile(p) THEN pc' = [pc EXCEPT ![p] = "commit"] /\ UNCHANGED <<outcome, fileVars>>
       ELSE Ends(p, "ok") /\ UNCHANGED fileVars
    /\ UNCHANGED <<scenario, next_id, table, session, producer, task, handed, ended,
                   conn, seen, buf, consumer, got, failed>>

\* verify on the digest of what was written, then commit.
Commits(p) ==
    /\ pc[p] = "commit"
    /\ \/ Verified(p) /\ ~scenario.digest_matches
          /\ DropTemp(p) /\ Ends(p, "error")
       \/ (Verified(p) => scenario.digest_matches)
          /\ \/ Renames(p) /\ Ends(p, "ok")
             \/ RenameFails(p) /\ Ends(p, "error")
    /\ UNCHANGED <<scenario, serverVars, conn, seen, buf, consumer, got, failed>>

\* A caller's timeout drops the future of an async pull.  Nothing is sent; the
\* blocking thread runs on and what it returns is dropped.
DropFuture(p) ==
    /\ p \in scenario.droppable /\ Async(p) /\ pc[p] \notin Over \cup {"start"}
    /\ pc' = [pc EXCEPT ![p] = "dropped"]
    /\ IF consumer[p] \in Returned THEN DropTemp(p) ELSE UNCHANGED fileVars
    /\ UNCHANGED <<scenario, serverVars, conn, seen, buf, consumer, got, failed, outcome>>
Detached(p) ==
    /\ pc[p] = "dropped" /\ consumer[p] = "ok" /\ node[p] # None
    /\ DropTemp(p)
    /\ UNCHANGED <<scenario, serverVars, clientVars>>

\* The connection of a puller is lost; its request may not have arrived.
LoseConnection(p) ==
    /\ p \in scenario.unreliable \cap conn /\ pc[p] \notin Over
    /\ conn' = conn \ {p}
    /\ \/ UNCHANGED task
       \/ task[p].pc \in {"open", "next"} /\ task' = [task EXCEPT ![p] = Idle]
    /\ UNCHANGED <<scenario, next_id, table, session, producer, cancels, handed, ended,
                   pc, seen, buf, consumer, got, failed, outcome, fileVars>>

\* The pulling process is killed: its part file stays.
Crash(p) ==
    /\ p \in scenario.crashes /\ pc[p] \notin Over
    /\ pc' = [pc EXCEPT ![p] = "crashed"]
    /\ conn' = conn \ {p}
    /\ consumer' = [consumer EXCEPT ![p] = "none"]
    /\ node' = [node EXCEPT ![p] = None]
    /\ UNCHANGED <<scenario, serverVars, seen, buf, got, failed, outcome, temp, final, data>>

ClientSteps(p) ==
    StartOpen(p) \/ Opened(p) \/ Fetch(p) \/ Fetched(p) \/ CallFails(p) \/ Finishes(p) \/ Commits(p)
ConsumerSteps(p) ==
    ConsumerStarts(p) \/ Consume(p) \/ Returns(p, "ok") \/ Returns(p, "err") \/ Detached(p)

ServerOnly == UNCHANGED <<scenario, clientVars, fileVars>>
ServerSteps ==
    \/ \E c \in Callers : Serve(c) /\ ServerOnly
    \/ \E id \in StreamIds : (Produce(id) \/ ProduceFails(id)) /\ ServerOnly
    \/ \E id \in StreamIds : Cancel(id) /\ ServerOnly
    \/ (RivalActs \/ RivalDone) /\ ServerOnly

Next ==
    \/ ServerSteps
    \/ \E p \in Pullers :
          ClientSteps(p) \/ ConsumerSteps(p) \/ ConsumerFails(p) \/ DropFuture(p)
          \/ LoseConnection(p) \/ Crash(p)

\* Threads and tasks that can run do run; the network delivers or the
\* connection is lost, and the body writer goes on writing.
Fairness ==
    /\ \A c \in Callers : WF_vars(Serve(c) /\ ServerOnly)
    /\ \A id \in StreamIds : WF_vars(Produce(id) /\ ServerOnly)
    /\ \A id \in StreamIds : WF_vars(Cancel(id) /\ ServerOnly)
    /\ \A p \in Pullers : WF_vars(ClientSteps(p)) /\ WF_vars(ConsumerSteps(p))

Spec == Init /\ [][Next]_vars /\ Fairness
-----------------------------------------------------------------------------
\* The variables keep their types.
TypeOK ==
    /\ scenario \in Scenarios /\ next_id \in 1..(Cardinality(Pullers) + 1)
    /\ table \subseteq StreamIds /\ cancels \subseteq StreamIds
    /\ \A id \in StreamIds : session[id] = None \/ session[id].lock \in Callers \cup {None}
    /\ \A c \in Callers : task[c].id \in StreamIds \cup {None}
    /\ pc \in [Pullers -> Over \cup {"start", "opening", "reading", "fetching", "commit"}]
    /\ conn \subseteq Pullers /\ failed \subseteq Pullers
    /\ seen \in [Pullers -> BOOLEAN]
    /\ consumer \in [Pullers -> Returned \cup {"none", "spawned", "reading"}]
    /\ temp \in [Paths -> Pullers \cup {None}] /\ final \in [Paths -> Pullers \cup {None}]
    /\ node \in [Pullers -> Pullers \cup {None}]
    /\ outcome \in [Pullers -> {"ok", "error", None}]

\* "A dropped connection never leaves a truncated file that looks complete":
\* whatever fails and wherever the process dies, a file under its final name
\* holds the whole content, without the trailer, and its digest was accepted.
\* And a pull that succeeds has seen the whole content: the end of file that a
\* lost connection shows to the async consumer never passes for the end of the
\* stream (TempFile::commit, run_pull, pull_consume).  The claim is for pulls of
\* one path that do not overlap, the detached consumer of a dropped future
\* included: they share one part file (temp_sibling), truncate and remove it
\* under each other and may commit a mixture.
CommittedComplete ==
    /\ \A p \in scenario.pulls : final[Path(p)] # None =>
          /\ data[final[Path(p)]] = SubSeq(Body, 1, Len(Body) - TrailerLen(p))
          /\ Verified(p) => scenario.digest_matches
    /\ \A p \in Pullers : outcome[p] = "ok" => got[p] = Body

Faultless(p) ==
    /\ scenario.known /\ ~scenario.body_fails /\ ~scenario.body_panics
    /\ scenario.unreliable = {} /\ scenario.rival = {}
    /\ ~scenario.consumer_fails /\ ~scenario.create_fails /\ ~scenario.rename_fails
    /\ parse_open_response /\ Suits(p)
    /\ Verified(p) => scenario.digest_matches
    /\ TrailerLen(p) <= scenario.units

PullsOver(x) ==
    \A p \in scenario.pulls : Path(p) = x => pc[p] \in {"done", "dropped"}

\* Every pull ends: the caller, the consumer thread, the next handler and the
\* producer never wait for one another in a circle; and one that meets no
\* fault ends well, wherever the chunk boundaries fall and wherever the decoder
\* stops reading (Session::pull against write_file's last_seen).
PullsEnd ==
    /\ \A p \in Pullers : <>(pc[p] \in Over)
    /\ [](\A p \in scenario.pulls : Faultless(p) /\ pc[p] = "done" => outcome[p] = "ok")

Unreleased(p) ==
    \/ ~parse_open_response
    \/ Kind(p) = "file" /\ consumer[p] = "uncreated"
    \/ Kind(p) = "value" /\ outcome[p] = "error"
Spent(id) == id \in StreamIds => id \notin table /\ producer[id].pc = "gone"

\* A pull that ends with its connection up leaves neither a session nor a
\* producer thread on the server; three early returns do not send the cancel
\* that this takes: a refused open response, a part file that cannot be
\* created in write_file, and a value that does not decode.  And no part file
\* outlives the pulls of its path, which do not overlap, except one whose
\* process was killed (TempFile::drop, TempFile::commit).
NothingLeft ==
    /\ \A p \in Pullers :
          (pc[p] = "done" /\ p \in conn /\ ~Unreleased(p)) ~> Spent(Stream(p))
    /\ \A x \in Paths : PullsOver(x) ~> temp[x] = None

\* docs/streaming-serialized-values.md: "Session lifetime must be bounded: free
\* it on `last`, on `cancel`, and on client disconnect/idle-timeout".
DisconnectFrees ==
    \A p \in Pullers : (p \notin conn) ~> Spent(Stream(p))
=============================================================================
