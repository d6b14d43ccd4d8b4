----------------------------- MODULE AsyncClient -----------------------------
(***************************************************************************)
(* The multiplexed TCP client (src/async_client.rs): call futures that     *)
(* share one connection, the table that matches responses to them, and the *)
(* response loop that reads the connection.                                *)
(*                                                                         *)
(* A member of Calls is one call future: a call_* or batch_json worker, a  *)
(* notify_* (Notifies) or a forward_message (Forwarded, whose request      *)
(* keeps the id its originator gave it).  pending maps a request id to the *)
(* call whose oneshot sender the entry holds; chan is that call's channel: *)
(* None while empty, "closed" once its sender is dropped unused, "failed"  *)
(* for the loop's fatal error, and otherwise the call whose request the    *)
(* delivered response answers.                                             *)
(*                                                                         *)
(* The server is external: it answers the requests that reach it whole, at *)
(* most once each, in any order, late or never (requests holds those it    *)
(* may still answer).  The connection may fail at any read or write.       *)
(***************************************************************************)
EXTENDS Naturals

CONSTANTS Calls,
          Notifies, Forwarded,  \* the calls that are of these kinds
          Timed,                \* made through a *_with_timeout method
          Cancellable,          \* whose future the application may drop
          ForwardIds,           \* ids forwarded requests carry
          MaxId,                \* bound on request ids
          None                  \* the None of the code's Options

Ids == 1..MaxId

\* What a call can return other than a response.
Errors == {"duplicate id", "sent", "io error", "id mismatch", "closed",
           "failed", "timeout", "cancelled"}

ASSUME ClientAssumption ==
    /\ MaxId \in Nat /\ ForwardIds \subseteq Ids
    /\ Notifies \subseteq Calls /\ Forwarded \subseteq Calls
    /\ Timed \subseteq Calls \ Notifies /\ Cancellable \subseteq Calls
    /\ Calls \cap Errors = {} /\ None \notin Calls \cup Errors

VARIABLES
    next_id, pending, chan,
    handle,     \* some clone of the client is alive
    writer,     \* the call that holds the writer's mutex, or None
    shut,       \* the write half has been shut down
    torn,       \* part of a frame was written and the rest never will be
    pc, id, out,    \* per call: where it is, its request id, its result
    requests,   \* calls whose request reached the server, unanswered
    loop,       \* where the response loop is
    matched,    \* the call whose sender the loop took, with response answer
    answer,
    waiters     \* the calls fail_all_pending drained and has yet to fail

callVars == <<pc, id, out>>
loopVars == <<loop, matched, answer, waiters>>
vars == <<next_id, pending, chan, handle, writer, shut, torn, pc, id, out,
          requests, loop, matched, answer, waiters>>

Registered == {"lock", "write", "flush", "wait"}  \* a guard is armed

\* AsyncClient::connect.
Init ==
    /\ next_id = 1
    /\ pending = [i \in Ids |-> None]
    /\ chan = [c \in Calls |-> None]
    /\ handle = TRUE
    /\ writer = None /\ shut = FALSE /\ torn = FALSE
    /\ pc = [c \in Calls |-> "start"]
    /\ id = [c \in Calls |-> 0]
    /\ out = [c \in Calls |-> None]
    /\ requests = {}
    /\ loop = "read" /\ matched = None /\ answer = None /\ waiters = {}

Finish(c, result) ==
    /\ pc' = [pc EXCEPT ![c] = "done"]
    /\ out' = [out EXCEPT ![c] = result]
    /\ UNCHANGED id

\* PendingRequestGuard::drop, still armed: remove whatever entry has the id.
\* An entry of another call drops that call's sender.
\* Mutant: the entry stays when the guard is dropped.
GuardDrop_Leaks(c) == UNCHANGED <<pending, chan>>

GuardDrop(c) ==
    IF c \in Notifies
    THEN UNCHANGED <<pending, chan>>
    ELSE /\ pending' = [pending EXCEPT ![id[c]] = None]
         /\ chan' = IF pending[id[c]] \in Calls \ {c}
                    THEN [chan EXCEPT ![pending[id[c]]] = "closed"]
                    ELSE chan
-----------------------------------------------------------------------------
(***************************************************************************)
(* A call future.                                                          *)
(***************************************************************************)
\* Mutant: the counter is read, not incremented.
TakeId_Load(c) ==
    /\ pc[c] = "start" /\ handle /\ c \notin Forwarded /\ next_id <= MaxId
    /\ id' = [id EXCEPT ![c] = next_id]
    /\ pc' = [pc EXCEPT ![c] = IF c \in Notifies THEN "lock" ELSE "register"]
    /\ UNCHANGED <<next_id, pending, chan, handle, writer, shut, torn, out,
                   requests, loopVars>>

\* call_with_body_and_timeout and notify_with_builder: next_request_id.
TakeId(c) ==
    /\ pc[c] = "start" /\ handle /\ c \notin Forwarded /\ next_id <= MaxId
    /\ id' = [id EXCEPT ![c] = next_id]
    /\ next_id' = next_id + 1
    /\ pc' = [pc EXCEPT ![c] = IF c \in Notifies THEN "lock" ELSE "register"]
    /\ UNCHANGED <<pending, chan, handle, writer, shut, torn, out, requests,
                   loopVars>>

\* forward_message: the request keeps its own id.
Forward(c) ==
    /\ pc[c] = "start" /\ handle /\ c \in Forwarded
    /\ \E i \in ForwardIds : id' = [id EXCEPT ![c] = i]
    /\ pc' = [pc EXCEPT ![c] = IF c \in Notifies THEN "lock" ELSE "register"]
    /\ UNCHANGED <<next_id, pending, chan, handle, writer, shut, torn, out,
                   requests, loopVars>>

\* PendingRequestGuard::register.
Register(c) ==
    /\ pc[c] = "register"
    /\ \/ /\ pending[id[c]] = None
          /\ pending' = [pending EXCEPT ![id[c]] = c]
          /\ pc' = [pc EXCEPT ![c] = "lock"]
          /\ UNCHANGED <<id, out>>
       \/ /\ pending[id[c]] # None
          /\ Finish(c, "duplicate id")
          /\ UNCHANGED pending
    /\ UNCHANGED <<next_id, chan, handle, writer, shut, torn, requests, loopVars>>

\* write_request: take the mutex, write and flush the frame, release.
LockWriter(c) ==
    /\ pc[c] = "lock" /\ writer = None
    /\ writer' = c
    /\ pc' = [pc EXCEPT ![c] = "write"]
    /\ UNCHANGED <<next_id, pending, chan, handle, shut, torn, id, out,
                   requests, loopVars>>

\* The frame has left whole.  The server sees it unless it follows a torn one.
Transmit(c) ==
    /\ pc[c] = "write" /\ ~shut
    /\ pc' = [pc EXCEPT ![c] = "flush"]
    /\ requests' = IF torn \/ c \in Notifies THEN requests ELSE requests \cup {c}
    /\ UNCHANGED <<next_id, pending, chan, handle, writer, shut, torn, id, out,
                   loopVars>>

Flushed(c) ==
    /\ pc[c] = "flush"
    /\ writer' = None
    /\ IF c \in Notifies THEN Finish(c, "sent")
                         ELSE /\ pc' = [pc EXCEPT ![c] = "wait"]
                              /\ UNCHANGED <<id, out>>
    /\ UNCHANGED <<next_id, pending, chan, handle, shut, torn, requests, loopVars>>

\* An I/O error of the write or the flush; part of the frame may be out.
WriteFails(c) ==
    /\ pc[c] \in {"write", "flush"}
    /\ writer' = None
    /\ torn' \in (IF pc[c] = "write" THEN {torn, TRUE} ELSE {torn})
    /\ Finish(c, "io error")
    /\ GuardDrop(c)
    /\ UNCHANGED <<next_id, handle, shut, requests, loopVars>>

\* The channel has something: a response (the guard is disarmed, and
\* validate_response compares ids), the loop's error, or a dropped sender.
Receive(c) ==
    /\ pc[c] = "wait" /\ chan[c] # None
    /\ \/ /\ chan[c] \in Calls
          /\ Finish(c, IF id[chan[c]] = id[c] THEN chan[c] ELSE "id mismatch")
          /\ UNCHANGED <<pending, chan>>
       \/ /\ chan[c] \notin Calls
          /\ Finish(c, chan[c])
          /\ GuardDrop(c)
    /\ UNCHANGED <<next_id, handle, writer, shut, torn, requests, loopVars>>

\* timeout() polls the receiver first, so it only elapses on an empty channel.
Timeout(c) ==
    /\ c \in Timed /\ pc[c] = "wait" /\ chan[c] = None
    /\ Finish(c, "timeout")
    /\ GuardDrop(c)
    /\ UNCHANGED <<next_id, handle, writer, shut, torn, requests, loopVars>>

\* The application drops the future at one of its await points.  Mid-write
\* the frame may be torn, or whole in the buffer for the next flush to send.
Cancel(c) ==
    /\ c \in Cancellable /\ pc[c] \in Registered
    /\ writer' = IF writer = c THEN None ELSE writer
    /\ \/ UNCHANGED <<torn, requests>>
       \/ pc[c] = "write" /\ torn' = TRUE /\ UNCHANGED requests
       \/ /\ pc[c] = "write" /\ ~shut /\ ~torn /\ c \notin Notifies
          /\ requests' = requests \cup {c}
          /\ UNCHANGED torn
    /\ Finish(c, "cancelled")
    /\ GuardDrop(c)
    /\ UNCHANGED <<next_id, handle, shut, loopVars>>
-----------------------------------------------------------------------------
(***************************************************************************)
(* spawn_response_loop and fail_all_pending.                               *)
(***************************************************************************)
\* A response is read; remove() finds its call, or the response is dropped.
ReadMessage ==
    /\ loop = "read" /\ handle
    /\ \E d \in requests :
          LET owner == pending[id[d]]
          IN  /\ requests' = requests \ {d}
              /\ IF owner = None
                 THEN UNCHANGED <<pending, loop, matched, answer>>
                 ELSE /\ pending' = [pending EXCEPT ![id[d]] = None]
                      /\ loop' = "matched" /\ matched' = owner /\ answer' = d
    /\ UNCHANGED <<next_id, chan, handle, writer, shut, torn, callVars, waiters>>

\* sender.send(Ok(response)); a receiver that is gone ignores it.
SendMatched ==
    /\ loop = "matched"
    /\ chan' = IF pc[matched] = "done" THEN chan
                                       ELSE [chan EXCEPT ![matched] = answer]
    /\ loop' = "read" /\ matched' = None /\ answer' = None
    /\ UNCHANGED <<next_id, pending, handle, writer, shut, torn, callVars,
                   requests, waiters>>

\* EOF, a reset, or a frame that does not parse.
ReadFails ==
    /\ loop = "read" /\ handle
    /\ loop' = "fail_writer"
    /\ UNCHANGED <<next_id, pending, chan, handle, writer, shut, torn, callVars,
                   requests, matched, answer, waiters>>

\* fail_all_pending: shut the writer down under its mutex, ...
\* Mutant: the writer is left open.
ShutdownWriter_Open ==
    /\ loop = "fail_writer" /\ writer = None
    /\ loop' = "fail_drain"
    /\ UNCHANGED <<next_id, pending, chan, handle, writer, shut, torn, callVars,
                   requests, matched, answer, waiters>>

ShutdownWriter ==
    /\ loop = "fail_writer" /\ writer = None
    /\ shut' = TRUE
    /\ loop' = "fail_drain"
    /\ UNCHANGED <<next_id, pending, chan, handle, writer, torn, callVars,
                   requests, matched, answer, waiters>>

\* ... drain the table under the other, ...
DrainPending ==
    /\ loop = "fail_drain"
    /\ waiters' = {pending[i] : i \in Ids} \ {None}
    /\ pending' = [i \in Ids |-> None]
    /\ loop' = "fail_send"
    /\ UNCHANGED <<next_id, chan, handle, writer, shut, torn, callVars, requests,
                   matched, answer>>

\* Mutant: the loop breaks after the first of them.
SendError_First ==
    /\ loop = "fail_send"
    /\ \/ \E c \in waiters :
             /\ waiters' = waiters \ {c}
             /\ chan' = IF pc[c] = "done" THEN chan ELSE [chan EXCEPT ![c] = "failed"]
       \/ waiters = {} /\ UNCHANGED <<chan, waiters>>
    /\ loop' = "stopped"
    /\ UNCHANGED <<next_id, pending, handle, writer, shut, torn, callVars,
                   requests, matched, answer>>

\* ... and send each drained call the error.  The loop then breaks.
SendError ==
    /\ loop = "fail_send"
    /\ \/ \E c \in waiters :
             /\ waiters' = waiters \ {c}
             /\ chan' = IF pc[c] = "done" THEN chan ELSE [chan EXCEPT ![c] = "failed"]
             /\ UNCHANGED loop
       \/ waiters = {} /\ loop' = "stopped" /\ UNCHANGED <<chan, waiters>>
    /\ UNCHANGED <<next_id, pending, handle, writer, shut, torn, callVars,
                   requests, matched, answer>>

\* The last clone of the client and the last call future are gone.
DropClient ==
    /\ handle /\ \A c \in Calls : pc[c] \in {"start", "done"}
    /\ handle' = FALSE
    /\ UNCHANGED <<next_id, pending, chan, writer, shut, torn, callVars, requests,
                   loopVars>>

\* shutdown_rx fires, or the Weak no longer upgrades.
LoopShutdown ==
    /\ loop = "read" /\ ~handle
    /\ loop' = "stopped"
    /\ UNCHANGED <<next_id, pending, chan, handle, writer, shut, torn, callVars,
                   requests, matched, answer, waiters>>
-----------------------------------------------------------------------------
CallStep(c) ==
    \/ TakeId(c) \/ Forward(c) \/ Register(c) \/ LockWriter(c)
    \/ Transmit(c) \/ Flushed(c) \/ WriteFails(c) \/ Receive(c) \/ Timeout(c) \/ Cancel(c)

LoopStep ==
    \/ ReadMessage \/ SendMatched \/ ReadFails
    \/ ShutdownWriter \/ DrainPending \/ SendError \/ LoopShutdown

Next == (\E c \in Calls : CallStep(c)) \/ LoopStep \/ DropClient

Spec == Init /\ [][Next]_vars

\* The runtime polls every woken task, the writer's mutex is granted in turn,
\* timers fire, and a write to a closed half fails.  Nothing makes the server
\* answer or read: a write may stay pending.
StallSpec ==
    /\ Spec
    /\ \A c \in Calls :
          /\ WF_vars(Register(c)) /\ WF_vars(LockWriter(c)) /\ WF_vars(Flushed(c))
          /\ WF_vars(shut /\ WriteFails(c))
          /\ WF_vars(Receive(c)) /\ WF_vars(Timeout(c))
    /\ WF_vars(SendMatched \/ ShutdownWriter \/ DrainPending \/ SendError)
    /\ WF_vars(LoopShutdown)

\* The server keeps reading, or the connection fails.
FairSpec == StallSpec /\ \A c \in Calls : WF_vars(Transmit(c) \/ WriteFails(c))
-----------------------------------------------------------------------------
\* Every variable keeps its type.
TypeOK ==
    /\ next_id \in 1..(MaxId + 1)
    /\ pending \in [Ids -> Calls \cup {None}]
    /\ chan \in [Calls -> Calls \cup {None, "closed", "failed"}]
    /\ handle \in BOOLEAN /\ shut \in BOOLEAN /\ torn \in BOOLEAN
    /\ writer \in Calls \cup {None}
    /\ pc \in [Calls -> {"start", "register", "done"} \cup Registered]
    /\ id \in [Calls -> Ids \cup {0}]
    /\ out \in [Calls -> Calls \cup Errors \cup {None}]
    /\ requests \subseteq Calls
    /\ loop \in {"read", "matched", "fail_writer", "fail_drain", "fail_send", "stopped"}
    /\ matched \in Calls \cup {None} /\ answer \in Calls \cup {None}
    /\ waiters \subseteq Calls

\* The response a call returns answers that call's own request, however the
\* server orders its answers and whatever timed out or was cancelled before
\* (next_request_id, the pending table and the loop together).
AnswerIsOwn == \A c \in Calls : out[c] \in Calls => out[c] = c

\* An entry of the table belongs to a call still in progress, under that
\* call's id: completion, errors, timeouts and dropped futures leave none
\* behind (PendingRequestGuard).
NoLeakedEntry ==
    \A i \in Ids : pending[i] # None =>
        pc[pending[i]] \in Registered /\ id[pending[i]] = i

\* Someone can still answer every call that waits: its entry is in a table
\* the loop will still read or drain, or the loop holds its sender.  This is
\* why fail_all_pending shuts the writer down before it drains.
WaiterIsServed ==
    \A c \in Calls : pc[c] = "wait" /\ chan[c] = None =>
        \/ matched = c \/ c \in waiters
        \/ /\ pending[id[c]] = c
           /\ loop \in {"read", "matched", "fail_writer", "fail_drain"}

\* No call sees its sender dropped: response_channel_closed_error is never
\* returned while request ids are not reused.
SenderNeverDropped == \A c \in Calls : chan[c] # "closed"

\* Once the response loop has failed, every call in progress and every call
\* started later ends (fail_all_pending, and writes failing after it).
LoopFailureEndsCalls ==
    \A c \in Calls :
        (loop \notin {"read", "matched"} /\ pc[c] # "start") ~> pc[c] = "done"

=============================================================================
