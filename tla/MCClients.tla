------------------------------ MODULE MCClients ------------------------------
(***************************************************************************)
(* The WebSocket, the blocking and the browser client, and the async one   *)
(* that forwards, side by side: a behaviour is one scenario of one of      *)
(* them, and the variables the others need stay None.                      *)
(***************************************************************************)
EXTENDS Naturals, Sequences, TLC

CONSTANTS Calls, Handles, Workers, MaxSubs, None,
          Scenarios,            \* those checked
          c1, c2, c3, h1, h2

VARIABLES scenario, pc, out, chan, pending, requests, writer, closed, inbox, peer,
          loop, frame, held, waiters, handles, closer, slot, rx, got, pushed,
          reached, buffer, torn, queue, worker, results, batch,
          conn, late, stack, borrowed, panicked,
          next_id, id, handle, shut, matched, answer

onlyAsync == <<next_id, id, handle, shut, matched, answer>>
notAsync == <<scenario, closed, inbox, peer, frame, held, handles, closer, slot, rx, got,
              pushed, reached, buffer, queue, worker, results, batch,
              conn, late, stack, borrowed, panicked>>
notWs == <<reached, buffer, torn, queue, worker, results, batch,
           conn, late, stack, borrowed, panicked, onlyAsync>>
notTcp == <<held, closer, slot, rx, got, pushed, conn, late, stack, borrowed, panicked,
            onlyAsync>>
notWasm == <<writer, closed, peer, loop, frame, held, waiters, closer,
             reached, buffer, torn, queue, worker, results, batch, onlyAsync>>
vars == <<scenario, pc, out, chan, pending, requests, writer, closed, inbox, peer,
          loop, frame, held, waiters, handles, closer, slot, rx, got, pushed,
          reached, buffer, torn, queue, worker, results, batch,
          conn, late, stack, borrowed, panicked, onlyAsync>>

Of(client) == {s \in Scenarios : s.client = client}
Ws == INSTANCE WebSocketClient WITH Scenarios <- Of("ws")
Tcp == INSTANCE BlockingClient WITH Scenarios <- Of("tcp")
Wasm == INSTANCE WasmClient WITH Scenarios <- Of("wasm")

\* A call, and a message forwarded under an id that may be the call's own.
Async == INSTANCE AsyncClient WITH
    Calls <- {c1, c2}, Notifies <- {}, Forwarded <- {c2}, Timed <- {c2},
    Cancellable <- {c1, c2}, ForwardIds <- {1, 2}, MaxId <- 2

NoAsync ==
    /\ next_id = None /\ id = None /\ handle = None /\ shut = None
    /\ matched = None /\ answer = None

Init ==
    \/ /\ Ws!Init /\ NoAsync
       /\ reached = None /\ buffer = None /\ torn = None /\ queue = None
       /\ worker = None /\ results = None /\ batch = None
       /\ conn = None /\ late = None /\ stack = None /\ borrowed = None /\ panicked = None
    \/ /\ Tcp!Init /\ NoAsync
       /\ held = None /\ closer = None /\ slot = None /\ rx = None /\ got = None
       /\ pushed = None
       /\ conn = None /\ late = None /\ stack = None /\ borrowed = None /\ panicked = None
    \/ /\ Wasm!Init /\ NoAsync
       /\ writer = None /\ closed = None /\ peer = None /\ loop = None /\ frame = None
       /\ held = None /\ waiters = None /\ closer = None
       /\ reached = None /\ buffer = None /\ torn = None /\ queue = None
       /\ worker = None /\ results = None /\ batch = None
    \/ /\ scenario \in Of("async") /\ Async!Init
       /\ closed = None /\ inbox = None /\ peer = None /\ frame = None /\ held = None
       /\ handles = None /\ closer = None /\ slot = None /\ rx = None /\ got = None
       /\ pushed = None /\ reached = None /\ buffer = None /\ queue = None
       /\ worker = None /\ results = None /\ batch = None
       /\ conn = None /\ late = None /\ stack = None /\ borrowed = None /\ panicked = None

IsAsync == scenario.client = "async"
IsWs == scenario.client = "ws"
IsTcp == scenario.client = "tcp"
IsWasm == scenario.client = "wasm"

Next ==
    \/ IsWs /\ Ws!Next /\ UNCHANGED notWs
    \/ IsTcp /\ Tcp!Next /\ UNCHANGED notTcp
    \/ IsWasm /\ Wasm!Next /\ UNCHANGED notWasm
    \/ IsAsync /\ Async!Next /\ UNCHANGED notAsync

\* Threads, tasks and callbacks that can run do run; a write ends unless the
\* scenario stalls it.  Nothing is asked of the server.
Fairness ==
    /\ \A c \in Calls : WF_vars(
          \/ IsWs /\ c \in scenario.calls /\ UNCHANGED notWs
             /\ (Ws!CallSteps(c) \/ Ws!TimesOut(c) \/ (~scenario.stalled /\ Ws!Writes(c)))
          \/ IsTcp /\ c \in scenario.calls /\ UNCHANGED notTcp
             /\ (Tcp!CallSteps(c) \/ Tcp!WriteProgress(c))
          \/ IsWasm /\ c \in scenario.calls /\ UNCHANGED notWasm /\ Wasm!CallSteps(c)
          \/ IsAsync /\ c \in {c1, c2} /\ UNCHANGED notAsync
             /\ \/ Async!Register(c) \/ Async!LockWriter(c) \/ Async!Transmit(c)
                \/ Async!Flushed(c) \/ Async!WriteFails(c) \/ Async!Receive(c)
                \/ Async!Timeout(c))
    /\ WF_vars(
          \/ IsWs /\ Ws!LoopSteps /\ UNCHANGED notWs
          \/ IsTcp /\ Tcp!LoopSteps /\ UNCHANGED notTcp
          \/ IsWasm /\ (Wasm!OnMessage \/ Wasm!WakeReturns) /\ UNCHANGED notWasm
          \/ IsAsync /\ UNCHANGED notAsync
             /\ \/ Async!SendMatched \/ Async!ShutdownWriter \/ Async!DrainPending
                \/ Async!SendError \/ Async!LoopShutdown)
    /\ WF_vars(IsTcp /\ Tcp!BatchSteps /\ UNCHANGED notTcp)
    /\ WF_vars(IsWs /\ ~scenario.stalled /\ (Ws!FailCloses \/ Ws!CloserCloses)
               /\ UNCHANGED notWs)

Spec == Init /\ [][Next]_vars /\ Fairness
-----------------------------------------------------------------------------
Fn(a, b, c) == (c1 :> a @@ c2 :> b @@ c3 :> c)

Base(client) ==
    [client |-> client, calls |-> {c1, c2}, entry |-> Fn("typed", "message", "typed"),
     via |-> Fn(h1, h1, h1), handles |-> {h1}, timed |-> {}, cancellable |-> {},
     panics |-> {}, results |-> {"ok"}, close |-> TRUE, stalled |-> FALSE,
     oversized |-> {}, subs |-> 0, pushes |-> 0, frames |-> {},
     large |-> {}, batch |-> <<>>, cap |-> 2, write_timeout |-> FALSE,
     window |-> TRUE, malformed |-> FALSE]

Results == {"ok", "error", "version", "undecodable"}

WsScenarios ==
    { \* a timed and a cancellable call, with a push that may carry their ids
      [Base("ws") EXCEPT !.timed = {c1}, !.cancellable = {c2}, !.pushes = 1],
      \* every kind of response and outgoing message
      [Base("ws") EXCEPT !.entry = Fn("typed", "notify", "typed"), !.oversized = {c2},
                         !.results = Results],
      [Base("ws") EXCEPT !.entry = Fn("registry", "notify", "typed"), !.panics = {c1},
                         !.frames = {"ping", "malformed"}],
      \* subscribers replace one another while pushes arrive
      [Base("ws") EXCEPT !.calls = {c1}, !.subs = 2, !.pushes = 2],
      [Base("ws") EXCEPT !.calls = {}, !.subs = 1, !.pushes = 3],
      \* a write is stuck
      [Base("ws") EXCEPT !.calls = {c1}, !.timed = {c1}, !.subs = 1, !.pushes = 1,
                         !.stalled = TRUE],
      \* two clones
      [Base("ws") EXCEPT !.via = Fn(h1, h2, h1), !.handles = {h1, h2}, !.close = FALSE] }

TcpScenarios ==
    { [Base("tcp") EXCEPT !.timed = {c1}, !.handles = {h1, h2}, !.via = Fn(h1, h2, h1)],
      [Base("tcp") EXCEPT !.entry = Fn("registry", "message", "typed"),
                          !.results = Results, !.close = FALSE],
      \* a batch of three on two workers, one of which panics
      [Base("tcp") EXCEPT !.calls = {c1, c2, c3}, !.batch = <<c1, c2, c3>>,
                          !.panics = {c1}, !.close = FALSE],
      \* the server stops reading, and set_write_timeout was called
      [Base("tcp") EXCEPT !.timed = {c1, c2}, !.stalled = TRUE, !.write_timeout = TRUE,
                          !.entry = Fn("typed", "notify", "typed")],
      [Base("tcp") EXCEPT !.large = {c2}, !.write_timeout = TRUE] }

WasmScenarios ==
    { [Base("wasm") EXCEPT !.timed = {c1}, !.cancellable = {c2}, !.pushes = 1,
                           !.malformed = TRUE],
      [Base("wasm") EXCEPT !.entry = Fn("registry", "notify", "typed"), !.timed = {c1},
                           !.window = FALSE],
      [Base("wasm") EXCEPT !.entry = Fn("registry", "typed", "typed"), !.results = Results,
                           !.via = Fn(h1, h2, h1), !.handles = {h1, h2}],
      [Base("wasm") EXCEPT !.calls = {c1}, !.subs = 2, !.pushes = 2, !.malformed = TRUE] }

MCScenarios == WsScenarios \cup TcpScenarios \cup WasmScenarios \cup {[client |-> "async"]}
-----------------------------------------------------------------------------
(***************************************************************************)
(* The properties of each client, in its own scenarios.                    *)
(***************************************************************************)
\* The pending table of each client holds the calls that wait and no other: no
\* entry outlives its call, in the async client none whose forwarded id
\* collides with another's, and a push with the id of a request in flight is
\* not taken for its response.  A batch of the blocking client accounts for
\* each of its requests.
EntriesSound ==
    /\ IsWs => Ws!NoLeakedEntry /\ Ws!NotifyNeverAnswers
    /\ IsTcp => Tcp!EntryLifetime /\ Tcp!BatchComplete
    /\ IsWasm => Wasm!PendingSound
    /\ IsAsync => Async!NoLeakedEntry

\* A live subscription keeps the slot and receives an unbroken run of the
\* pushes; in the browser it also survives frames that do not decode, and a
\* consumer woken by a send or by the drop of its sender may resubscribe on the
\* spot.
SubscriptionsSound ==
    /\ IsWs => Ws!SubscriptionKept /\ Ws!StreamUnbroken
    /\ IsWasm => Wasm!SubscriptionKept /\ Wasm!NoReentrantBorrow

\* WebSocket client: a subscription taken while the loop reads ends once the
\* server is gone, even if the writer is stuck and close_writer never returns.
SubscriberLearns ==
    \A ch \in 1..MaxSubs : (IsWs /\ Ws!Orphaned(ch)) ~> (IsWs /\ ~Ws!HasSender(ch))

\* The async client's timed call does not wait on, and once the read loop has
\* failed no call is under way.
AsyncQuiet ==
    /\ pc[c2] # "wait"
    /\ loop \notin {"read", "matched"} => \A c \in {c1, c2} : pc[c] \in {"start", "done"}

\* Calls whose writes return end: with a timeout, once the time that starts
\* after the write is up; without one, once the server is gone, those that
\* register while fail_all_pending runs included; forwarded messages too,
\* whichever ids collide.  The response thread of the blocking client ends
\* after its last clone is dropped.  Two kinds of call are outside the claim
\* because the code lets them hang: one whose write the peer does not take
\* (only the blocking client has a write timeout), and one without a timeout
\* that the browser client makes after its socket closed.
CallsEnd ==
    []<>(/\ IsWs => Ws!Quiet
         /\ IsTcp => Tcp!Quiet /\ (Tcp!Freed => loop = "ended")
         /\ IsWasm => Wasm!Quiet
         /\ IsAsync => AsyncQuiet)
=============================================================================
