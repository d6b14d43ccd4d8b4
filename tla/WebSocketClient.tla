--------------------------- MODULE WebSocketClient ---------------------------
(***************************************************************************)
(* The native WebSocket client (src/websocket_client.rs): call futures and *)
(* batch workers that share one socket through clones of the client, the   *)
(* table that matches responses to them, the response loop, the single     *)
(* notify subscription, and what dropping a clone does.                    *)
(*                                                                         *)
(* Request ids are unique, so the pending table is the set of calls with   *)
(* an entry and a call stands for its id.  Notify channels are numbered in *)
(* the order subscribe_notifies creates them.                              *)
(*                                                                         *)
(* A scenario is one use of the client: the calls made and the entry point *)
(* of each, the clone each is made on, and what the server, the            *)
(* application and the network may do to them.                             *)
(***************************************************************************)
EXTENDS Naturals, Sequences, FiniteSets

CONSTANTS Calls, Handles, Scenarios, None

VARIABLES
    scenario,
    pc, out,    \* per call: where its future is, and what it returned
    chan,       \* per call: what its oneshot channel holds
    pending,    \* the calls with an entry in the table
    requests,   \* the calls whose request reached the server, unanswered
    writer,     \* who holds the writer's mutex
    closed,     \* the write half has been closed
    inbox,      \* frames on their way to the client
    peer,       \* the server's end is open
    loop, frame,        \* where the response loop is, with which frame
    held,       \* the notify channel whose sender the loop has cloned
    waiters,    \* calls fail_all_pending has drained
    handles,    \* per clone of the client: live, in Drop, or gone
    closer,     \* the task the last clone's Drop spawned
    slot,       \* notify_tx: the channel subscribed, or None
    rx, got,    \* per channel: its receiver, and what was sent on it
    pushed      \* notifies the server has pushed

callVars == <<pc, out, chan, pending>>
loopVars == <<loop, frame, held, waiters>>
notifyVars == <<slot, rx, got>>
vars == <<scenario, pc, out, chan, pending, requests, writer, closed, inbox, peer,
          loop, frame, held, waiters, handles, closer, slot, rx, got, pushed>>

Channels == DOMAIN rx

\* The loop holds an upgraded Arc for the whole of these steps.
Upgraded == loop \in {"dispatch", "stale", "take", "lock", "close", "drain", "fail"}

\* Arc::strong_count of the inner state, the guards left out: a guard lives
\* inside a call, and a call borrows a clone.
StrongCount ==
    Cardinality({h \in scenario.handles : handles[h] # "gone"})
    + (IF Upgraded THEN 1 ELSE 0)
    + (IF closer \in {"lock", "close"} THEN 1 ELSE 0)

Init ==
    /\ scenario \in Scenarios
    /\ pc = [c \in Calls |-> IF c \in scenario.calls THEN "start" ELSE "done"]
    /\ out = [c \in Calls |-> None]
    /\ chan = [c \in Calls |-> None]
    /\ pending = {} /\ requests = {}
    /\ writer = None /\ closed = FALSE
    /\ inbox = <<>> /\ peer = TRUE
    /\ loop = "read" /\ frame = None /\ held = None /\ waiters = {}
    /\ handles = [h \in Handles |-> IF h \in scenario.handles THEN "live" ELSE "gone"]
    /\ closer = "none"
    /\ slot = None /\ rx = <<>> /\ got = <<>> /\ pushed = 0
-----------------------------------------------------------------------------
(***************************************************************************)
(* Calls.                                                                  *)
(***************************************************************************)
\* What the entry points make of a validated response.
validate_response(r) ==
    CASE r = "version" -> "version mismatch"
      [] r = "error"   -> "server error"
      [] OTHER         -> r

typed_result(r) == IF r = "undecodable" THEN "decode error" ELSE r

message_result(r) == r

registry_result(r) == typed_result(message_result(r))

Result(c, r) ==
    LET v == validate_response(r)
    IN  CASE scenario.entry[c] = "typed"    -> typed_result(v)
          [] scenario.entry[c] = "message"  -> message_result(v)
          [] scenario.entry[c] = "registry" -> registry_result(v)

IsNotify(c) == scenario.entry[c] = "notify"

\* Made through a *_with_timeout method.
Timed(c) == c \in scenario.timed

\* The clone the call was made on is still there: &self, or the worker's own.
OnHandle(c) == handles[scenario.via[c]] = "live"

Finish(c, result) ==
    /\ pc' = [pc EXCEPT ![c] = "done"]
    /\ out' = [out EXCEPT ![c] = result]

\* Mutant: the entry stays when an armed guard is dropped.
GuardDrop_Leaks(c) == UNCHANGED pending

\* PendingRequestGuard::drop, still armed.
GuardDrop(c) == pending' = pending \ {c}

\* next_request_id and PendingRequestGuard::register.  The id is fresh.
Register(c) ==
    /\ pc[c] = "start" /\ OnHandle(c) /\ ~IsNotify(c)
    /\ c \notin pending
    /\ pending' = pending \cup {c}
    /\ pc' = [pc EXCEPT ![c] = "check"]
    /\ UNCHANGED <<scenario, out, chan, requests, writer, closed, inbox, peer,
                   loopVars, handles, closer, notifyVars, pushed>>

\* notify_with_builder: an id, and no entry.
StartNotify(c) ==
    /\ pc[c] = "start" /\ OnHandle(c) /\ IsNotify(c)
    /\ pc' = [pc EXCEPT ![c] = "check"]
    /\ UNCHANGED <<scenario, out, chan, pending, requests, writer, closed, inbox,
                   peer, loopVars, handles, closer, notifyVars, pushed>>

\* A batch worker panics while it encodes the body or decodes the answer:
\* batch_json returns a join error in its place.
WorkerPanics(c) ==
    /\ c \in scenario.panics
    /\ pc[c] = "start" \/ (pc[c] = "wait" /\ chan[c] \in {"ok", "undecodable"})
    /\ Finish(c, "join error")
    /\ UNCHANGED <<scenario, chan, pending, requests, writer, closed, inbox, peer,
                   loopVars, handles, closer, notifyVars, pushed>>

\* write_request: check_outbound comes before the mutex.
CheckOutbound(c) ==
    /\ pc[c] = "check"
    /\ IF c \in scenario.oversized
       THEN Finish(c, "too large") /\ GuardDrop(c)
       ELSE pc' = [pc EXCEPT ![c] = "lock"] /\ UNCHANGED <<out, pending>>
    /\ UNCHANGED <<scenario, chan, requests, writer, closed, inbox, peer,
                   loopVars, handles, closer, notifyVars, pushed>>

LockWriter(c) ==
    /\ pc[c] = "lock" /\ writer = None
    /\ writer' = c
    /\ pc' = [pc EXCEPT ![c] = "write"]
    /\ UNCHANGED <<scenario, out, chan, pending, requests, closed, inbox, peer,
                   loopVars, handles, closer, notifyVars, pushed>>

\* The frame is sent; a notify is done.
Written(c) ==
    /\ pc[c] = "write" /\ ~closed
    /\ writer' = None
    /\ IF IsNotify(c)
       THEN Finish(c, "sent") /\ UNCHANGED requests
       ELSE /\ pc' = [pc EXCEPT ![c] = "wait"]
            /\ requests' = IF peer THEN requests \cup {c} ELSE requests
            /\ UNCHANGED out
    /\ UNCHANGED <<scenario, chan, pending, closed, inbox, peer,
                   loopVars, handles, closer, notifyVars, pushed>>

\* The sink refuses a frame once it is closed, and may once the peer is gone.
WriteFails(c) ==
    /\ pc[c] = "write" /\ (closed \/ ~peer)
    /\ writer' = None
    /\ Finish(c, "io error") /\ GuardDrop(c)
    /\ UNCHANGED <<scenario, chan, requests, closed, inbox, peer, loopVars,
                   handles, closer, notifyVars, pushed>>

\* The receiver yields: an answer disarms the guard, the loop's error leaves
\* it armed.
Received(c) ==
    /\ pc[c] = "wait" /\ chan[c] # None
    /\ \/ /\ chan[c] = "failed"
          /\ Finish(c, "failed") /\ GuardDrop(c)
       \/ /\ chan[c] # "failed"
          /\ Finish(c, Result(c, chan[c])) /\ UNCHANGED pending
    /\ UNCHANGED <<scenario, chan, requests, writer, closed, inbox, peer, loopVars,
                   handles, closer, notifyVars, pushed>>

TimesOut(c) ==
    /\ pc[c] = "wait" /\ Timed(c) /\ chan[c] = None
    /\ Finish(c, "timeout") /\ GuardDrop(c)
    /\ UNCHANGED <<scenario, chan, requests, writer, closed, inbox, peer, loopVars,
                   handles, closer, notifyVars, pushed>>

\* The future is dropped.  A frame the sink has already taken may still go
\* out with the next one.
Cancel(c) ==
    /\ c \in scenario.cancellable /\ pc[c] \in {"check", "lock", "write", "wait"}
    /\ Finish(c, "cancelled") /\ GuardDrop(c)
    /\ writer' = IF writer = c THEN None ELSE writer
    /\ \/ UNCHANGED requests
       \/ pc[c] = "write" /\ peer /\ ~IsNotify(c) /\ requests' = requests \cup {c}
    /\ UNCHANGED <<scenario, chan, closed, inbox, peer, loopVars,
                   handles, closer, notifyVars, pushed>>
-----------------------------------------------------------------------------
(***************************************************************************)
(* The response loop.                                                      *)
(***************************************************************************)
\* decode_websocket_frame: a message, nothing, or an error.
IsMessage(f) == f.kind \in {"response", "notify"}
IsError(f) == f.kind \in {"malformed", "close"}

\* One frame is read and decoded, and the Weak upgraded: to dispatch the
\* message, or in fail_all_pending.
LoopReads ==
    /\ loop = "read" /\ inbox # <<>>
    /\ inbox' = Tail(inbox)
    /\ LET f == Head(inbox)
       IN  /\ loop' = CASE ~IsMessage(f) /\ ~IsError(f) -> "read"
                        [] StrongCount = 0              -> "ended"
                        [] IsMessage(f)                 -> "dispatch"
                        [] IsError(f)                   -> "take"
           /\ frame' = IF IsMessage(f) /\ StrongCount > 0 THEN f ELSE None
    /\ UNCHANGED <<scenario, callVars, requests, writer, closed, peer, held,
                   waiters, handles, closer, notifyVars, pushed>>

\* The dispatch block: a notify clones the subscriber's sender, a response
\* takes its waiter's sender out of the table.  The Arc is released.
Dispatch ==
    /\ loop = "dispatch"
    /\ IF frame.kind = "notify"
       THEN /\ loop' = IF slot = None THEN "read" ELSE "send"
            /\ held' = slot
            /\ UNCHANGED pending
       ELSE /\ loop' = IF frame.id \in pending THEN "matched" ELSE "read"
            /\ pending' = pending \ {frame.id}
            /\ UNCHANGED held
    /\ frame' = IF loop' = "read" THEN None ELSE frame
    /\ UNCHANGED <<scenario, pc, out, chan, requests, writer, closed, inbox, peer,
                   waiters, handles, closer, notifyVars, pushed>>

Deliver ==
    /\ loop = "matched"
    /\ chan' = [chan EXCEPT ![frame.id] =
                   IF frame.kind = "notify" THEN "notify" ELSE frame.result]
    /\ loop' = "read" /\ frame' = None
    /\ UNCHANGED <<scenario, pc, out, pending, requests, writer, closed, inbox,
                   peer, held, waiters, handles, closer, notifyVars, pushed>>

\* The send happens outside the slot's mutex, on the loop's own sender: it
\* reaches a receiver that was unsubscribed in between, not a dropped one.
SendNotify ==
    /\ loop = "send"
    /\ IF rx[held] # "dropped"
       THEN /\ got' = [got EXCEPT ![held] = Append(@, frame.n)]
            /\ loop' = "read" /\ held' = None
       ELSE /\ loop' = IF StrongCount > 0 THEN "stale" ELSE "read"
            /\ held' = IF StrongCount > 0 THEN held ELSE None
            /\ UNCHANGED got
    /\ frame' = None
    /\ UNCHANGED <<scenario, callVars, requests, writer, closed, inbox, peer,
                   waiters, handles, closer, slot, rx, pushed>>

\* The receiver was gone: clear the slot if it still holds that channel.
ClearStale ==
    /\ loop = "stale"
    /\ slot' = IF slot = held THEN None ELSE slot
    /\ held' = None /\ loop' = "read"
    /\ UNCHANGED <<scenario, callVars, requests, writer, closed, inbox, peer,
                   frame, waiters, handles, closer, rx, got, pushed>>

\* Mutant: the subscriber is told last.
TakeNotifySender_Late ==
    /\ loop = "take" /\ loop' = "lock"
    /\ UNCHANGED <<scenario, callVars, requests, writer, closed, inbox, peer,
                   frame, held, waiters, handles, closer, notifyVars, pushed>>

\* fail_all_pending, first: take_notify_sender.
TakeNotifySender ==
    /\ loop = "take" /\ loop' = "lock"
    /\ slot' = None
    /\ UNCHANGED <<scenario, callVars, requests, writer, closed, inbox, peer,
                   frame, held, waiters, handles, closer, rx, got, pushed>>

\* Then close_writer: the mutex, and a Close frame.
FailLocks ==
    /\ loop = "lock" /\ writer = None
    /\ writer' = "loop" /\ loop' = "close"
    /\ UNCHANGED <<scenario, callVars, requests, closed, inbox, peer, frame, held,
                   waiters, handles, closer, notifyVars, pushed>>

\* Mutant: the write half is left open.
FailCloses_LeavesOpen ==
    /\ loop = "close"
    /\ writer' = None /\ loop' = "drain"
    /\ UNCHANGED <<scenario, callVars, requests, closed, inbox, peer, frame, held,
                   waiters, handles, closer, notifyVars, pushed>>

\* ... is sent and the sink closed, whether or not that fails.
FailCloses ==
    /\ loop = "close"
    /\ closed' = TRUE /\ writer' = None /\ loop' = "drain"
    /\ UNCHANGED <<scenario, callVars, requests, inbox, peer, frame, held, waiters,
                   handles, closer, notifyVars, pushed>>

FailDrains ==
    /\ loop = "drain"
    /\ waiters' = waiters \cup pending /\ pending' = {} /\ loop' = "fail"
    /\ UNCHANGED <<scenario, pc, out, chan, requests, writer, closed, inbox, peer,
                   frame, held, handles, closer, notifyVars, pushed>>

\* Each drained waiter gets its copy of the error; the loop ends.
FailWaiters ==
    /\ loop = "fail"
    /\ chan' = [c \in Calls |-> IF c \in waiters THEN "failed" ELSE chan[c]]
    /\ waiters' = {} /\ loop' = "ended"
    /\ UNCHANGED <<scenario, pc, out, pending, requests, writer, closed, inbox,
                   peer, frame, held, handles, closer, notifyVars, pushed>>
-----------------------------------------------------------------------------
(***************************************************************************)
(* Subscriptions and clones.                                               *)
(***************************************************************************)
AnyLive == \E h \in scenario.handles : handles[h] = "live"

\* "Live" means the receiver of the channel in the slot is still there.
CanSubscribe == slot # None => rx[slot] = "dropped"

\* subscribe_notifies when it does not return AlreadySubscribed.
Subscribe ==
    /\ AnyLive /\ CanSubscribe /\ Len(rx) < scenario.subs
    /\ rx' = Append(rx, "live") /\ got' = Append(got, <<>>)
    /\ slot' = Len(rx) + 1
    /\ UNCHANGED <<scenario, callVars, requests, writer, closed, inbox, peer,
                   loopVars, handles, closer, pushed>>

\* unsubscribe_notifies: the application's receiver is left with no sender.
Unsubscribe ==
    /\ AnyLive /\ slot # None /\ rx[slot] = "live"
    /\ slot' = None
    /\ rx' = [rx EXCEPT ![slot] = "unsubscribed"]
    /\ UNCHANGED <<scenario, callVars, requests, writer, closed, inbox, peer,
                   loopVars, handles, closer, got, pushed>>

DropReceiver(ch) ==
    /\ rx[ch] # "dropped" /\ rx' = [rx EXCEPT ![ch] = "dropped"]
    /\ UNCHANGED <<scenario, callVars, requests, writer, closed, inbox, peer,
                   loopVars, handles, closer, slot, got, pushed>>

\* Drop for WebSocketClient: read the count, and spawn close_writer if this
\* is the last reference.  The Arc itself goes in the next step.
DropHandle(h) ==
    /\ handles[h] = "live"
    /\ \A c \in scenario.calls : scenario.via[c] = h => pc[c] = "done"
    /\ handles' = [handles EXCEPT ![h] = "dropping"]
    /\ closer' = IF StrongCount = 1 THEN "lock" ELSE closer
    /\ UNCHANGED <<scenario, callVars, requests, writer, closed, inbox, peer,
                   loopVars, notifyVars, pushed>>

\* The Arc field is dropped.  With the last reference the slot's sender goes.
DropArc(h) ==
    /\ handles[h] = "dropping"
    /\ handles' = [handles EXCEPT ![h] = "gone"]
    /\ UNCHANGED <<scenario, callVars, requests, writer, closed, inbox, peer,
                   loopVars, closer, notifyVars, pushed>>

\* The spawned task: close_writer.
CloserLocks ==
    /\ closer = "lock" /\ writer = None
    /\ writer' = "closer" /\ closer' = "close"
    /\ UNCHANGED <<scenario, callVars, requests, closed, inbox, peer, loopVars,
                   handles, notifyVars, pushed>>

CloserCloses ==
    /\ closer = "close"
    /\ closed' = TRUE /\ writer' = None /\ closer' = "done"
    /\ UNCHANGED <<scenario, callVars, requests, inbox, peer, loopVars,
                   handles, notifyVars, pushed>>
-----------------------------------------------------------------------------
(***************************************************************************)
(* The server, external: it answers each request at most once, in any      *)
(* order or never; pushes notifies whose ids need not differ from those in *)
(* flight; and closes when it likes, at the latest when the client does.   *)
(***************************************************************************)
Push(f) == inbox' = Append(inbox, f)

ServerAnswers(c) ==
    /\ peer /\ c \in requests
    /\ requests' = requests \ {c}
    /\ \E r \in scenario.results : Push([kind |-> "response", id |-> c, result |-> r])
    /\ UNCHANGED <<scenario, callVars, writer, closed, peer, loopVars, handles,
                   closer, notifyVars, pushed>>

ServerPushes ==
    /\ peer /\ pushed < scenario.pushes
    /\ pushed' = pushed + 1
    /\ \E c \in Calls : Push([kind |-> "notify", id |-> c, n |-> pushed + 1])
    /\ UNCHANGED <<scenario, callVars, requests, writer, closed, peer, loopVars,
                   handles, closer, notifyVars>>

\* A Ping, or a frame that does not decode (a Text frame, a short one).
ServerSends(kind) ==
    /\ peer /\ Len(inbox) < 2 /\ \A i \in DOMAIN inbox : inbox[i].kind # kind
    /\ Push([kind |-> kind])
    /\ UNCHANGED <<scenario, callVars, requests, writer, closed, peer, loopVars,
                   handles, closer, notifyVars, pushed>>

ServerCloses ==
    /\ peer /\ (scenario.close \/ closed)
    /\ peer' = FALSE
    /\ Push([kind |-> "close"])
    /\ UNCHANGED <<scenario, callVars, requests, writer, closed, loopVars, handles,
                   closer, notifyVars, pushed>>

CallSteps(c) ==
    Register(c) \/ StartNotify(c) \/ CheckOutbound(c) \/ LockWriter(c) \/ Received(c)
CallEnds(c) == TimesOut(c) \/ Cancel(c) \/ WorkerPanics(c)
Writes(c) == Written(c) \/ WriteFails(c)
LoopSteps ==
    \/ LoopReads \/ Dispatch \/ Deliver \/ SendNotify \/ ClearStale
    \/ TakeNotifySender \/ FailLocks \/ FailDrains \/ FailWaiters
DropSteps == \E h \in scenario.handles : DropArc(h)
Server ==
    \/ \E c \in Calls : ServerAnswers(c)
    \/ ServerPushes \/ ServerCloses
    \/ \E kind \in scenario.frames : ServerSends(kind)

Next ==
    \/ \E c \in scenario.calls : CallSteps(c) \/ CallEnds(c) \/ Writes(c)
    \/ LoopSteps \/ FailCloses \/ CloserLocks \/ CloserCloses
    \/ Subscribe \/ Unsubscribe \/ \E ch \in Channels : DropReceiver(ch)
    \/ \E h \in scenario.handles : DropHandle(h)
    \/ DropSteps \/ Server
-----------------------------------------------------------------------------
(***************************************************************************)
(* Properties.                                                             *)
(***************************************************************************)
Results == {"ok", "undecodable", "error", "version"}

\* Types of the WebSocket client's state.
TypeOK ==
    /\ scenario \in Scenarios
    /\ pc \in [Calls -> {"start", "check", "lock", "write", "wait", "done"}]
    /\ chan \in [Calls -> Results \cup {None, "failed", "notify"}]
    /\ pending \subseteq Calls /\ requests \subseteq Calls /\ waiters \subseteq Calls
    /\ writer \in Calls \cup {None, "loop", "closer"}
    /\ {closed, peer} \subseteq BOOLEAN
    /\ loop \in {"read", "dispatch", "matched", "send", "stale", "take", "lock",
                 "close", "drain", "fail", "ended"}
    /\ held \in Channels \cup {None} /\ slot \in Channels \cup {None}
    /\ handles \in [Handles -> {"live", "dropping", "gone"}]
    /\ closer \in {"none", "lock", "close", "done"}
    /\ \A ch \in Channels : rx[ch] \in {"live", "unsubscribed", "dropped"}

\* A server push is never taken for the answer of a call, even when it
\* carries the id of a request in flight.
NotifyNeverAnswers == \A c \in Calls : chan[c] # "notify"

\* Every entry of the pending table belongs to a call still under way: no
\* timeout, cancellation, refusal or write error leaves one behind.
NoLeakedEntry == \A c \in pending : pc[c] # "done"

\* What one subscription receives is an unbroken run of the server's pushes,
\* in order: nothing is lost or repeated between subscribing and the end.
StreamUnbroken ==
    \A ch \in Channels : \A i \in 1..Len(got[ch]) - 1 :
        got[ch][i + 1] = got[ch][i] + 1

\* A live subscription keeps the slot until its owner gives it up or the
\* connection fails: neither a late clean-up of the previous receiver nor
\* another subscriber takes it.
SubscriptionKept ==
    \A ch \in Channels :
        rx[ch] = "live" /\ loop \notin {"take", "lock", "close", "drain", "fail", "ended"}
            => slot = ch

HasSender(ch) == held = ch \/ (slot = ch /\ StrongCount > 0)

\* A subscription taken while the loop reads, whose server is gone.
Orphaned(ch) == ~peer /\ loop = "read" /\ ch \in Channels

\* No call whose request was written waits past its timeout (the timer starts
\* after the write), and none is under way on a connection whose server is
\* gone, unless a write is stuck.
Quiet ==
    \A c \in scenario.calls :
        /\ Timed(c) => pc[c] # "wait"
        /\ ~peer /\ ~scenario.stalled => pc[c] \in {"start", "done"}
=============================================================================
