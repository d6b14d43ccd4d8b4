----------------------------- MODULE WasmClient ------------------------------
(***************************************************************************)
(* The browser client (src/wasm_client.rs) and its notify slot             *)
(* (src/notify_slot.rs).  Everything runs on one thread: a call's first    *)
(* poll, a socket event and a timer are each one step.  What can still     *)
(* interleave is a consumer that a send or a drop wakes on the spot, while *)
(* the code that woke it is still on the stack (stack holds what that code *)
(* was doing, and borrowed whether it was holding the slot's RefCell).     *)
(*                                                                         *)
(* Calls, channels and scenarios are as in WebSocketClient.  The browser   *)
(* is external: it discards what is sent on a socket that is closing or    *)
(* closed, without an error.                                               *)
(***************************************************************************)
EXTENDS Naturals, Sequences, FiniteSets

CONSTANTS Calls, Handles, Scenarios, None

VARIABLES
    scenario,
    conn,       \* connect's socket: "connecting", "open", "failed", "closed"
    pc, out, chan, pending, requests,
    late,       \* the calls made after the socket closed
    inbox,
    handles,    \* the clones of the client
    slot, rx, got, pushed,
    stack, borrowed, panicked

callVars == <<pc, out, chan, pending>>
notifyVars == <<slot, rx, got>>
stackVars == <<stack, borrowed, panicked>>
vars == <<scenario, conn, pc, out, chan, pending, requests, late, inbox, handles,
          slot, rx, got, pushed, stack, borrowed, panicked>>

Channels == DOMAIN rx

Init ==
    /\ scenario \in Scenarios
    /\ conn = "connecting"
    /\ pc = [c \in Calls |-> IF c \in scenario.calls THEN "start" ELSE "done"]
    /\ out = [c \in Calls |-> None]
    /\ chan = [c \in Calls |-> None]
    /\ pending = {} /\ requests = {} /\ late = {} /\ inbox = <<>>
    /\ handles = {}
    /\ slot = None /\ rx = <<>> /\ got = <<>> /\ pushed = 0
    /\ stack = "idle" /\ borrowed = FALSE /\ panicked = FALSE

\* connect: the first of the open and the error event decides; only an open
\* socket gets the client's own handlers.
Connect ==
    /\ conn = "connecting"
    /\ \/ conn' = "open" /\ handles' = scenario.handles
       \/ conn' = "failed" /\ UNCHANGED handles
    /\ UNCHANGED <<scenario, callVars, requests, late, inbox, notifyVars, pushed,
                   stackVars>>
-----------------------------------------------------------------------------
(***************************************************************************)
(* Calls.                                                                  *)
(***************************************************************************)
validate_response(r) ==
    CASE r = "version" -> "version mismatch"
      [] r = "error"   -> "server error"
      [] OTHER         -> r

typed_result(r) == IF r = "undecodable" THEN "decode error" ELSE r

message_result(r) == r

registry_result(r) == typed_result(message_result(r))

Result(c, r) ==
    LET v == validate_response(r)
    IN  CASE scenario.entry[c] = "typed"    -> typed_result(v)
          [] scenario.entry[c] = "message"  -> message_result(v)
          [] scenario.entry[c] = "registry" -> registry_result(v)

IsNotify(c) == scenario.entry[c] = "notify"
Timed(c) == c \in scenario.timed
OnHandle(c) == scenario.via[c] \in handles

Finish(c, result) ==
    /\ pc' = [pc EXCEPT ![c] = "done"]
    /\ out' = [out EXCEPT ![c] = result]

\* Mutant: the entry stays when an armed guard is dropped.
GuardDrop_Leaks(c) == UNCHANGED pending

\* PendingRequestGuard::drop, still armed.
GuardDrop(c) == pending' = pending \ {c}

\* write_request: the browser takes the frame, or throws it away.
write_request(c) ==
    requests' = IF conn = "open" THEN requests \cup {c} ELSE requests

\* JsTimeout::new needs a window to set the timer on.
TimerFails(c) == Timed(c) /\ ~scenario.window

\* The first poll of a call: register, send, and start the timer.  A timer
\* that cannot be set fails the call after its request has left.
Call(c) ==
    /\ pc[c] = "start" /\ OnHandle(c) /\ ~IsNotify(c) /\ stack = "idle"
    /\ c \notin pending
    /\ write_request(c)
    /\ late' = IF conn = "open" THEN late ELSE late \cup {c}
    /\ IF TimerFails(c)
       THEN Finish(c, "no window") /\ UNCHANGED pending
       ELSE /\ pc' = [pc EXCEPT ![c] = "wait"]
            /\ pending' = pending \cup {c}
            /\ UNCHANGED out
    /\ UNCHANGED <<scenario, conn, chan, inbox, handles, notifyVars, pushed, stackVars>>

\* notify_with_builder.
Notify(c) ==
    /\ pc[c] = "start" /\ OnHandle(c) /\ IsNotify(c) /\ stack = "idle"
    /\ Finish(c, "sent")
    /\ UNCHANGED <<scenario, conn, chan, pending, requests, late, inbox, handles,
                   notifyVars, pushed, stackVars>>

\* select polls the channel before the timer.
Received(c) ==
    /\ pc[c] = "wait" /\ chan[c] # None /\ stack = "idle"
    /\ \/ /\ chan[c] = "failed"
          /\ Finish(c, "failed") /\ GuardDrop(c)
       \/ /\ chan[c] # "failed"
          /\ Finish(c, Result(c, chan[c])) /\ UNCHANGED pending
    /\ UNCHANGED <<scenario, conn, chan, requests, late, inbox, handles, notifyVars,
                   pushed, stackVars>>

\* The timer fired; dropping JsTimeout clears it otherwise.
TimesOut(c) ==
    /\ pc[c] = "wait" /\ Timed(c) /\ chan[c] = None /\ stack = "idle"
    /\ Finish(c, "timeout") /\ GuardDrop(c)
    /\ UNCHANGED <<scenario, conn, chan, requests, late, inbox, handles, notifyVars,
                   pushed, stackVars>>

\* The call's future is dropped.
Cancel(c) ==
    /\ c \in scenario.cancellable /\ pc[c] = "wait" /\ stack = "idle"
    /\ Finish(c, "cancelled") /\ GuardDrop(c)
    /\ UNCHANGED <<scenario, conn, chan, requests, late, inbox, handles, notifyVars,
                   pushed, stackVars>>
-----------------------------------------------------------------------------
(***************************************************************************)
(* The notify slot.                                                        *)
(***************************************************************************)
\* "Live" means the receiver of the channel in the slot is still there.
CanSubscribe == slot # None => rx[slot] = "dropped"

\* The sender in the slot is dropped, with the slot's RefCell borrowed or not:
\* its receiver, if there still is one, is woken before the drop returns.
Dropped(held) ==
    IF slot # None /\ rx[slot] # "dropped"
    THEN stack' = "wake" /\ borrowed' = held
    ELSE UNCHANGED <<stack, borrowed>>

\* subscribe assigns over the old sender under the borrow; run by a woken
\* consumer it panics if the slot is borrowed already.
Subscribe ==
    /\ handles # {} /\ Len(rx) < scenario.subs
    /\ IF borrowed
       THEN panicked' = TRUE /\ UNCHANGED <<notifyVars, stack, borrowed>>
       ELSE /\ CanSubscribe
            /\ rx' = Append(rx, "live") /\ got' = Append(got, <<>>)
            /\ slot' = Len(rx) + 1 /\ Dropped(TRUE)
            /\ UNCHANGED panicked
    /\ UNCHANGED <<scenario, conn, callVars, requests, late, inbox, handles, pushed>>

\* Mutant: None is assigned over the sender, under the borrow.
DropSender_InPlace == slot' = None /\ Dropped(TRUE)

\* unsubscribe: take the sender out, release the slot, then drop the sender.
DropSender == slot' = None /\ Dropped(FALSE)

Unsubscribe ==
    /\ handles # {} /\ slot # None /\ rx[slot] = "live" /\ stack = "idle"
    /\ DropSender
    /\ rx' = [rx EXCEPT ![slot] = "unsubscribed"]
    /\ UNCHANGED <<scenario, conn, callVars, requests, late, inbox, handles, got,
                   pushed, panicked>>

\* A woken consumer may drop its receiver too, before it resubscribes.
DropReceiver(ch) ==
    /\ rx[ch] # "dropped"
    /\ rx' = [rx EXCEPT ![ch] = "dropped"]
    /\ UNCHANGED <<scenario, conn, callVars, requests, late, inbox, handles, slot, got,
                   pushed, stackVars>>

\* The woken consumer has returned.
WakeReturns ==
    /\ stack = "wake" /\ stack' = "idle" /\ borrowed' = FALSE
    /\ UNCHANGED <<scenario, conn, callVars, requests, late, inbox, handles,
                   notifyVars, pushed, panicked>>

\* route: a send on a live channel wakes its consumer, on a clone of the
\* sender and with the slot released; a failed one empties the slot under the
\* borrow.
route(n) ==
    /\ IF slot = None
       THEN UNCHANGED <<slot, got, stack, borrowed>>
       ELSE IF rx[slot] = "live"
            THEN /\ got' = [got EXCEPT ![slot] = Append(@, n)]
                 /\ stack' = "wake" /\ UNCHANGED <<slot, borrowed>>
            ELSE slot' = None /\ Dropped(TRUE) /\ UNCHANGED got
    /\ UNCHANGED rx
-----------------------------------------------------------------------------
(***************************************************************************)
(* Socket events.                                                          *)
(***************************************************************************)
fail_all_pending ==
    /\ chan' = [c \in Calls |-> IF c \in pending THEN "failed" ELSE chan[c]]
    /\ pending' = {}

\* A frame that does not decode fails the waiters and leaves the rest alone.
MalformedFrame == fail_all_pending /\ UNCHANGED <<notifyVars, stack, borrowed>>

\* A response goes to its waiter, if it still has one.
DeliverResponse(f) ==
    /\ chan' = IF f.id \in pending THEN [chan EXCEPT ![f.id] = f.result] ELSE chan
    /\ pending' = pending \ {f.id}
    /\ UNCHANGED <<notifyVars, stack, borrowed>>

\* handle_message: route_notify comes before the table.
handle_message(f) ==
    CASE f.kind = "malformed" -> MalformedFrame
      [] f.kind = "response"  -> DeliverResponse(f)
      [] OTHER                -> route(f.n) /\ UNCHANGED <<chan, pending>>

OnMessage ==
    /\ conn = "open" /\ handles # {} /\ inbox # <<>> /\ stack = "idle"
    /\ handle_message(Head(inbox))
    /\ inbox' = Tail(inbox)
    /\ UNCHANGED <<scenario, conn, pc, out, requests, late, handles, pushed, panicked>>

\* fail_connection: the waiters first, then the subscriber.
fail_connection == fail_all_pending /\ DropSender

\* onclose, and onerror, which a close follows.
OnClose ==
    /\ conn = "open" /\ handles # {} /\ inbox = <<>> /\ stack = "idle" /\ scenario.close
    /\ conn' = "closed"
    /\ fail_connection
    /\ UNCHANGED <<scenario, pc, out, requests, late, inbox, handles, rx, got, pushed,
                   panicked>>

\* Dropping the last clone takes the handlers off and closes the socket; a
\* call borrows its clone, so there is nobody left to fail.
DropHandle(h) ==
    /\ h \in handles /\ stack = "idle"
    /\ \A c \in scenario.calls : scenario.via[c] = h => pc[c] = "done"
    /\ handles' = handles \ {h}
    /\ IF handles' = {}
       THEN conn' = "closed" /\ slot' = None /\ inbox' = <<>>
       ELSE UNCHANGED <<conn, slot, inbox>>
    /\ UNCHANGED <<scenario, callVars, requests, late, rx, got, pushed, stackVars>>
-----------------------------------------------------------------------------
(***************************************************************************)
(* The server, external.                                                   *)
(***************************************************************************)
Send(f) ==
    /\ conn = "open" /\ inbox' = Append(inbox, f)
    /\ UNCHANGED <<scenario, conn, callVars, late, handles, notifyVars, stackVars>>

ServerAnswers(c) ==
    /\ c \in requests /\ requests' = requests \ {c}
    /\ \E r \in scenario.results : Send([kind |-> "response", id |-> c, result |-> r])
    /\ UNCHANGED pushed

ServerPushes ==
    /\ pushed < scenario.pushes /\ pushed' = pushed + 1
    /\ \E c \in Calls : Send([kind |-> "notify", id |-> c, n |-> pushed + 1])
    /\ UNCHANGED requests

ServerGarbles ==
    /\ scenario.malformed /\ inbox = <<>>
    /\ Send([kind |-> "malformed"])
    /\ UNCHANGED <<requests, pushed>>

CallSteps(c) == Call(c) \/ Notify(c) \/ Received(c) \/ TimesOut(c)
Server == (\E c \in Calls : ServerAnswers(c)) \/ ServerPushes \/ ServerGarbles

Next ==
    \/ Connect \/ OnMessage \/ OnClose \/ WakeReturns \/ Server
    \/ \E c \in scenario.calls : CallSteps(c) \/ Cancel(c)
    \/ Subscribe \/ Unsubscribe \/ \E ch \in Channels : DropReceiver(ch)
    \/ \E h \in Handles : DropHandle(h)
-----------------------------------------------------------------------------
\* Types of the browser client's state.
TypeOK ==
    /\ scenario \in Scenarios
    /\ conn \in {"connecting", "open", "failed", "closed"}
    /\ pc \in [Calls -> {"start", "wait", "done"}]
    /\ pending \subseteq Calls /\ requests \subseteq Calls /\ late \subseteq Calls
    /\ handles \subseteq Handles
    /\ slot \in Channels \cup {None}
    /\ \A ch \in Channels : rx[ch] \in {"live", "unsubscribed", "dropped"}
    /\ stack \in {"idle", "wake"}

\* A server push is never taken for the answer of a call in flight, and the
\* table holds no entry of a call that has returned.
PendingSound == \A c \in Calls : chan[c] # "notify" /\ (c \in pending => pc[c] = "wait")

\* What a subscription receives is an unbroken run of the pushes, and it
\* keeps the slot while the socket is open, frames that do not decode
\* included.
SubscriptionKept ==
    \A ch \in Channels :
        /\ \A i \in 1..Len(got[ch]) - 1 : got[ch][i + 1] = got[ch][i] + 1
        /\ rx[ch] = "live" /\ conn = "open" => slot = ch

\* No consumer woken by the client finds the slot borrowed, whichever drop or
\* send woke it: resubscribing from a wake-up never panics.
NoReentrantBorrow == ~panicked

\* No call waits past its timeout, or on a closed socket that was open when
\* the call was made.  A call made after the close without a timeout does wait:
\* the browser discards its request, and nobody is left to fail its entry.
Quiet ==
    \A c \in scenario.calls :
        (Timed(c) \/ (conn = "closed" /\ c \notin late)) => pc[c] # "wait"
=============================================================================
