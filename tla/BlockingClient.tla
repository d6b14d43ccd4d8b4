--------------------------- MODULE BlockingClient ----------------------------
(***************************************************************************)
(* The blocking TCP client (src/client.rs): threads that call through      *)
(* clones of one client, batch_json's pool of worker threads, the thread   *)
(* that reads responses, and the drop of the shared state.                 *)
(*                                                                         *)
(* Request ids are unique, so the pending table is the set of calls with   *)
(* an entry.  The writer is a BufWriter: a frame that fits is copied into  *)
(* its buffer and leaves with the next flush, whoever flushes; a flush     *)
(* that fails keeps what it could not send.  A frame that does not fit     *)
(* (scenario.large) goes straight to the socket.                           *)
(***************************************************************************)
EXTENDS Naturals, Sequences, FiniteSets, SequencesExt

CONSTANTS Calls, Handles, Scenarios, Workers, None

VARIABLES
    scenario,
    pc, out,    \* per call: where its thread is, and what it returned
    chan,       \* per call: what its channel holds
    pending,    \* the calls with an entry in the table
    requests,   \* the calls whose request reached the server, unanswered
    reached,    \* the calls whose request ever reached the server
    writer,     \* who holds the writer's mutex
    buffer,     \* the frames in the BufWriter
    torn,       \* part of a large frame left, and the rest never will
    closed,     \* the socket has been shut down
    inbox, peer,        \* responses on their way, and the server's end
    loop, frame, waiters,   \* the response thread
    handles,    \* the clones of the client
    queue, worker, results, batch   \* batch_json

callVars == <<pc, out, chan, pending>>
wireVars == <<requests, reached, buffer, torn>>
loopVars == <<loop, frame, waiters>>
batchVars == <<queue, worker, results, batch>>
vars == <<scenario, pc, out, chan, pending, requests, reached, writer, buffer, torn,
          closed, inbox, peer, loop, frame, waiters, handles, queue, worker, results,
          batch>>

Batched == Range(scenario.batch)
Idle == {"idle", "ended", "panicked"}

\* batch_worker_count: one worker per request, up to the cap.
batch_worker_count(n) == IF n <= scenario.cap THEN n ELSE scenario.cap

Init ==
    /\ scenario \in Scenarios
    /\ pc = [c \in Calls |-> IF c \in scenario.calls \ Range(scenario.batch)
                             THEN "start" ELSE "unused"]
    /\ out = [c \in Calls |-> None]
    /\ chan = [c \in Calls |-> None]
    /\ pending = {} /\ requests = {} /\ reached = {}
    /\ writer = None /\ buffer = <<>> /\ torn = FALSE /\ closed = FALSE
    /\ inbox = <<>> /\ peer = TRUE
    /\ loop = "read" /\ frame = None /\ waiters = {}
    /\ handles = scenario.handles
    /\ queue = scenario.batch
    /\ worker = [w \in Workers |-> IF w <= batch_worker_count(Len(scenario.batch))
                                   THEN "idle" ELSE "ended"]
    /\ results = [c \in Calls |-> None]
    /\ batch = None

\* Strong references: the clones, the batch's workers, and the response
\* thread while it has upgraded its Weak.
Upgraded == loop \in {"dispatch", "lock", "shutdown", "drain", "fail"}
BatchRuns == \E w \in Workers : worker[w] \notin {"ended", "panicked"}
StrongCount ==
    Cardinality(handles) + (IF Upgraded THEN 1 ELSE 0) + (IF BatchRuns THEN 1 ELSE 0)

\* ClientInner::drop with the last reference: shut the socket down both
\* ways.  No call is under way, so the table it drains is empty.
InnerDrop(last) == closed' = (closed \/ last)
-----------------------------------------------------------------------------
(***************************************************************************)
(* A call.                                                                 *)
(***************************************************************************)
validate_response(r) ==
    CASE r = "version" -> "version mismatch"
      [] r = "error"   -> "server error"
      [] OTHER         -> r

typed_result(r) == IF r = "undecodable" THEN "decode error" ELSE r

message_result(r) == r

registry_result(r) == typed_result(message_result(r))

Result(c, r) ==
    LET v == validate_response(r)
    IN  CASE scenario.entry[c] = "typed"    -> typed_result(v)
          [] scenario.entry[c] = "message"  -> message_result(v)
          [] scenario.entry[c] = "registry" -> registry_result(v)

IsNotify(c) == scenario.entry[c] = "notify"
Timed(c) == c \in scenario.timed

Finish(c, result) ==
    /\ pc' = [pc EXCEPT ![c] = "done"]
    /\ out' = [out EXCEPT ![c] = result]

remove_pending(c) == pending' = pending \ {c}

\* next_request_id, and the entry unless it is a notify.
Register(c) ==
    /\ pc[c] = "start"
    /\ pending' = IF IsNotify(c) THEN pending ELSE pending \cup {c}
    /\ pc' = [pc EXCEPT ![c] = "lock"]
    /\ UNCHANGED <<scenario, out, chan, wireVars, writer, closed, inbox, peer,
                   loopVars, handles, batchVars>>

LockWriter(c) ==
    /\ pc[c] = "lock" /\ writer = None
    /\ writer' = c
    /\ pc' = [pc EXCEPT ![c] = "write"]
    /\ UNCHANGED <<scenario, out, chan, pending, wireVars, closed, inbox, peer,
                   loopVars, handles, batchVars>>

\* What reaches the server of frames sent on the socket.
Arrive(frames) ==
    IF torn \/ ~peer \/ closed
    THEN UNCHANGED <<requests, reached>>
    ELSE LET sent == {c \in frames : ~IsNotify(c)}
         IN  requests' = requests \cup sent /\ reached' = reached \cup sent

\* write_message: into the buffer.  A large frame empties the buffer first
\* and then leaves unbuffered.
WriteFrame(c) ==
    /\ pc[c] = "write" /\ (c \in scenario.large => ~closed)
    /\ pc' = [pc EXCEPT ![c] = "flush"]
    /\ IF c \in scenario.large
       THEN buffer' = <<>> /\ Arrive(Range(buffer) \cup {c})
       ELSE buffer' = Append(buffer, c) /\ UNCHANGED <<requests, reached>>
    /\ UNCHANGED <<scenario, out, chan, pending, writer, torn, closed, inbox, peer,
                   loopVars, handles, batchVars>>

\* flush: whatever is in the buffer leaves.
Flush(c) ==
    /\ pc[c] = "flush" /\ (closed => buffer = <<>>)
    /\ buffer' = <<>> /\ Arrive(Range(buffer))
    /\ writer' = None
    /\ IF IsNotify(c)
       THEN Finish(c, "sent")
       ELSE pc' = [pc EXCEPT ![c] = "wait"] /\ UNCHANGED out
    /\ UNCHANGED <<scenario, chan, pending, torn, closed, inbox, peer, loopVars,
                   handles, batchVars>>

\* The socket refuses the write: it was shut down, the server is gone, or the
\* write timeout passed.  Some first frames of the buffer may have left; a
\* large frame may have left in part.
WriteFails(c) ==
    /\ pc[c] = "flush" \/ (pc[c] = "write" /\ c \in scenario.large)
    /\ closed \/ ~peer \/ scenario.write_timeout
    /\ \E n \in 0..Len(buffer) :
        /\ pc[c] = "flush" => n < Len(buffer)
        /\ buffer' = SubSeq(buffer, n + 1, Len(buffer))
        /\ Arrive(Range(SubSeq(buffer, 1, n)))
        /\ \/ UNCHANGED torn
           \/ pc[c] = "write" /\ n = Len(buffer) /\ ~closed /\ torn' = TRUE
    /\ writer' = None
    /\ Finish(c, "io error") /\ remove_pending(c)
    /\ UNCHANGED <<scenario, chan, closed, inbox, peer, loopVars, handles, batchVars>>

\* wait_for_response: the channel yields a response or the loop's error.
Received(c) ==
    /\ pc[c] = "wait" /\ chan[c] # None
    /\ Finish(c, IF chan[c] = "failed" THEN "failed" ELSE Result(c, chan[c]))
    /\ UNCHANGED <<scenario, chan, pending, wireVars, writer, closed, inbox, peer,
                   loopVars, handles, batchVars>>

TimesOut(c) ==
    /\ pc[c] = "wait" /\ Timed(c) /\ chan[c] = None
    /\ Finish(c, "timeout") /\ remove_pending(c)
    /\ UNCHANGED <<scenario, chan, wireVars, writer, closed, inbox, peer, loopVars,
                   handles, batchVars>>
-----------------------------------------------------------------------------
(***************************************************************************)
(* batch_json.                                                             *)
(***************************************************************************)
\* A worker takes the next request, or ends when there is none.
Pop(w) ==
    /\ worker[w] = "idle"
    /\ IF queue = <<>>
       THEN worker' = [worker EXCEPT ![w] = "ended"] /\ UNCHANGED <<queue, pc>>
       ELSE /\ worker' = [worker EXCEPT ![w] = Head(queue)]
            /\ pc' = [pc EXCEPT ![Head(queue)] = "start"]
            /\ queue' = Tail(queue)
    /\ InnerDrop(~BatchRuns' /\ StrongCount = 1)
    /\ UNCHANGED <<scenario, out, chan, pending, wireVars, writer, inbox, peer,
                   loopVars, handles, results, batch>>

\* Encoding the body panics, before the call registers anything, or decoding
\* the answer, when its entry is gone.
WorkerPanics(w) ==
    /\ worker[w] \in scenario.panics
    /\ \/ pc[worker[w]] = "start"
       \/ pc[worker[w]] = "wait" /\ chan[worker[w]] \in {"ok", "undecodable"}
    /\ pc' = [pc EXCEPT ![worker[w]] = "unused"]
    /\ worker' = [worker EXCEPT ![w] = "panicked"]
    /\ InnerDrop(~BatchRuns' /\ StrongCount = 1)
    /\ UNCHANGED <<scenario, out, chan, pending, wireVars, writer, inbox, peer,
                   loopVars, handles, queue, results, batch>>

\* The result goes to the request's own place.
StoreResult(w) ==
    /\ worker[w] \notin Idle /\ pc[worker[w]] = "done"
    /\ results' = [results EXCEPT ![worker[w]] = out[worker[w]]]
    /\ worker' = [worker EXCEPT ![w] = "idle"]
    /\ UNCHANGED <<scenario, callVars, wireVars, writer, closed, inbox, peer,
                   loopVars, handles, queue, batch>>

\* All workers have been joined: the results in request order, and an error
\* for each request that has none.
Join ==
    /\ batch = None /\ scenario.batch # <<>> /\ ~BatchRuns
    /\ batch' = [i \in DOMAIN scenario.batch |->
                    LET r == results[scenario.batch[i]]
                    IN  IF r # None THEN r
                        ELSE IF \E w \in Workers : worker[w] = "panicked"
                             THEN "worker panicked" ELSE "missing result"]
    /\ UNCHANGED <<scenario, callVars, wireVars, writer, closed, inbox, peer,
                   loopVars, handles, queue, worker, results>>
-----------------------------------------------------------------------------
(***************************************************************************)
(* The response thread.  A read that is interrupted is tried again.        *)
(***************************************************************************)
\* read_message returns a message; the Weak is upgraded to dispatch it.
LoopReads ==
    /\ loop = "read" /\ inbox # <<>>
    /\ inbox' = Tail(inbox)
    /\ loop' = IF StrongCount = 0 THEN "ended" ELSE "dispatch"
    /\ frame' = IF StrongCount = 0 THEN None ELSE Head(inbox)
    /\ UNCHANGED <<scenario, callVars, wireVars, writer, closed, peer, waiters,
                   handles, batchVars>>

\* It fails: the server has closed, or the socket was shut down.
LoopFails ==
    /\ loop = "read" /\ (closed \/ (~peer /\ inbox = <<>>))
    /\ loop' = IF StrongCount = 0 THEN "ended" ELSE "lock"
    /\ UNCHANGED <<scenario, callVars, wireVars, writer, closed, inbox, peer, frame,
                   waiters, handles, batchVars>>

\* The waiter's sender is taken out of the table, and the Arc released.
Dispatch ==
    /\ loop = "dispatch"
    /\ loop' = IF frame.id \in pending THEN "matched" ELSE "read"
    /\ frame' = IF frame.id \in pending THEN frame ELSE None
    /\ pending' = pending \ {frame.id}
    /\ InnerDrop(StrongCount = 1)
    /\ UNCHANGED <<scenario, pc, out, chan, wireVars, writer, inbox, peer, waiters,
                   handles, batchVars>>

Deliver ==
    /\ loop = "matched"
    /\ chan' = [chan EXCEPT ![frame.id] = frame.result]
    /\ loop' = "read" /\ frame' = None
    /\ UNCHANGED <<scenario, pc, out, pending, wireVars, writer, closed, inbox, peer,
                   waiters, handles, batchVars>>

\* fail_all_pending: the socket is shut down under the writer's mutex ...
FailShuts ==
    /\ loop = "lock" /\ writer = None
    /\ closed' = TRUE /\ loop' = "drain"
    /\ UNCHANGED <<scenario, callVars, wireVars, writer, inbox, peer, frame, waiters,
                   handles, batchVars>>

\* ... and then the table is drained ...
FailDrains ==
    /\ loop = "drain"
    /\ waiters' = pending /\ pending' = {} /\ loop' = "fail"
    /\ UNCHANGED <<scenario, pc, out, chan, wireVars, writer, closed, inbox, peer,
                   frame, handles, batchVars>>

\* ... and each waiter given a copy of the error.  The Arc is released.
FailWaiters ==
    /\ loop = "fail"
    /\ chan' = [c \in Calls |-> IF c \in waiters THEN "failed" ELSE chan[c]]
    /\ waiters' = {} /\ loop' = "ended"
    /\ InnerDrop(StrongCount = 1)
    /\ UNCHANGED <<scenario, pc, out, pending, wireVars, writer, inbox, peer, frame,
                   handles, batchVars>>

\* A clone is dropped; each thread that calls holds one.
DropHandle(h) ==
    /\ h \in handles
    /\ \A c \in scenario.calls : scenario.via[c] = h => pc[c] \in {"unused", "done"}
    /\ scenario.batch # <<>> => batch # None
    /\ handles' = handles \ {h}
    /\ InnerDrop(StrongCount = 1)
    /\ UNCHANGED <<scenario, callVars, wireVars, writer, inbox, peer, loopVars,
                   batchVars>>
-----------------------------------------------------------------------------
(***************************************************************************)
(* The server, external.                                                   *)
(***************************************************************************)
ServerAnswers(c) ==
    /\ peer /\ c \in requests
    /\ requests' = requests \ {c}
    /\ \E r \in scenario.results : inbox' = Append(inbox, [id |-> c, result |-> r])
    /\ UNCHANGED <<scenario, callVars, reached, writer, buffer, torn, closed, peer,
                   loopVars, handles, batchVars>>

ServerCloses ==
    /\ peer /\ (scenario.close \/ torn \/ closed)
    /\ peer' = FALSE
    /\ UNCHANGED <<scenario, callVars, wireVars, writer, closed, inbox, loopVars,
                   handles, batchVars>>

CallSteps(c) == Register(c) \/ LockWriter(c) \/ Received(c) \/ TimesOut(c)
WriteSteps(c) == WriteFrame(c) \/ Flush(c) \/ WriteFails(c)
\* What the scheduler and the kernel see to: a stalled socket takes nothing
\* more, and only a write timeout ends a write to it.
WriteProgress(c) ==
    \/ ~scenario.stalled /\ WriteSteps(c)
    \/ scenario.stalled /\ c \notin scenario.large /\ WriteFrame(c)
    \/ scenario.write_timeout /\ WriteFails(c)
BatchSteps ==
    (\E w \in Workers : Pop(w) \/ StoreResult(w) \/ WorkerPanics(w)) \/ Join
LoopSteps ==
    LoopReads \/ LoopFails \/ Dispatch \/ Deliver \/ FailShuts \/ FailDrains \/ FailWaiters
Server == (\E c \in Calls : ServerAnswers(c)) \/ ServerCloses

Next ==
    \/ \E c \in scenario.calls : CallSteps(c) \/ WriteSteps(c)
    \/ BatchSteps \/ LoopSteps \/ Server
    \/ \E h \in Handles : DropHandle(h)
-----------------------------------------------------------------------------
Results == {"ok", "undecodable", "error", "version"}

\* Types of the blocking client's state.
TypeOK ==
    /\ scenario \in Scenarios
    /\ pc \in [Calls -> {"unused", "start", "lock", "write", "flush", "wait", "done"}]
    /\ pending \subseteq Calls /\ waiters \subseteq Calls
    /\ requests \subseteq reached /\ reached \subseteq Calls
    /\ writer \in Calls \cup {None} /\ {torn, closed, peer} \subseteq BOOLEAN
    /\ loop \in {"read", "dispatch", "matched", "lock", "drain", "fail", "ended"}
    /\ handles \subseteq Handles
    /\ \A w \in Workers : worker[w] \in Calls \cup Idle

\* An entry lives exactly as long as its waiter needs it: it is gone once the
\* response is delivered (so no response is delivered twice) and when the call
\* returns, by whichever of a response, an error and a timeout it does.
EntryLifetime ==
    \A c \in pending : chan[c] = None /\ pc[c] # "done"

\* A batch returns one entry per request, in request order: the call's own
\* result, or a worker's panic, never for a request whose answer is still due.
BatchComplete ==
    batch # None => \A i \in DOMAIN scenario.batch :
        LET c == scenario.batch[i]
        IN  \/ pc[c] = "done" /\ batch[i] = out[c]
            \/ /\ batch[i] = "worker panicked" /\ c \notin pending
               /\ c \in reached => chan[c] # None

\* A stuck write without a deadline is the one thing that stops the client.
Unstuck == ~scenario.stalled \/ scenario.write_timeout

\* No call waits for a server that is gone, past its timeout or, with a
\* write timeout, on a server that stopped reading.
Quiet ==
    ~Unstuck \/ \A c \in scenario.calls :
        (~peer \/ Timed(c) \/ IsNotify(c)) => pc[c] \in {"unused", "start", "done"}

\* The last clone is gone.
Freed == handles = {} /\ ~BatchRuns
=============================================================================
