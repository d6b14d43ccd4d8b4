------------------------- MODULE MCWebSocketServer -------------------------
(***************************************************************************)
(* WebSocketServer on small instances.                                     *)
(***************************************************************************)
EXTENDS WebSocketServer

CONSTANTS c1, c2

Serving(conns, nreq, npush) ==
    [conns |-> conns, adopted |-> {}, captured |-> conns, child |-> conns, stalled |-> {},
     graceful |-> TRUE, requests |-> nreq, pushes |-> npush]

(***************************************************************************)
(* Two requests meet at one permit and a queue of one; a push meets a      *)
(* request, on a peer that may stall and without a drain; two connections, *)
(* detached when the listener stops, share the registry; a connection is   *)
(* adopted.                                                                *)
(***************************************************************************)
MCScenarios ==
    { Serving({c1}, 2, 0),
      [Serving({c1}, 1, 1) EXCEPT !.stalled = {c1}],
      [Serving({c1}, 1, 1) EXCEPT !.graceful = FALSE, !.child = {}],
      [Serving({c1, c2}, 0, 0) EXCEPT !.graceful = FALSE, !.child = {}],
      [Serving({c1}, 1, 0) EXCEPT !.adopted = {c1}, !.captured = {}, !.graceful = FALSE] }

(***************************************************************************)
(* What was queued before a connection winds down reaches a peer that      *)
(* reads (writer_task; see Flushed).  c2 reads no requests.                *)
(***************************************************************************)
QueuedIsFlushed == Flushed(c1)

(* One connection whose peer stalls, served without a drain. *)
StallScenarios == {[Serving({c1}, 1, 1) EXCEPT !.stalled = {c1}, !.child = {}, !.graceful = FALSE]}
=============================================================================
