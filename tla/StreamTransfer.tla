--------------------------- MODULE StreamTransfer ---------------------------
(***************************************************************************)
(* A whole push transfer: the TransferControl of src/stream.rs driven by   *)
(*  - the producer thread, which follows the Lifecycle the module documents*)
(*    (wait_for_credit, push_replay, peer, send_notify, record_sent, and   *)
(*    wait_for_reconnect plus replay after Disconnected);                  *)
(*  - the inbound handlers (ACK, cancel, resume) and the idle watchdog;    *)
(*  - connections, which break silently before the server sees them closed;*)
(*  - the receiver, which keeps what arrives in order, ACKs it, and after a*)
(*    drop reconnects and asks to resume where it stands.                  *)
(* Producer, connections and receiver are the embedder's; they are modelled*)
(* from how stream.rs is to be driven.  Every lock acquisition of the      *)
(* producer is a step of its own, so handlers run between any two of them. *)
(***************************************************************************)
EXTENDS TransferControl

CONSTANTS FileLen,          \* logical bytes of each file
          LastFile,         \* files are 0..LastFile
          ChunkLens,        \* lengths the producer cuts chunks to
          MaxChunk,         \* the largest of them
          LastConn,         \* connections are 1..LastConn; the last one holds
          RecordReplayed,   \* does the producer record_sent what it re-emits?
          Deadlines         \* may the waits run into their deadlines?

ASSUME StreamAssumption ==
    /\ FileLen \in Nat \ {0} /\ LastFile \in Nat /\ LastConn \in Nat \ {0}
    /\ MaxChunk \in Nat \ {0} /\ ChunkLens \subseteq 1..MaxChunk
    /\ RecordReplayed \in BOOLEAN /\ Deadlines \in BOOLEAN

VARIABLES pc, off, chunk, target, emit,  \* producer: step, next offset, length
                                         \* in hand, peer read, replay list
          link, wire, acks,              \* connections and what they carry
          conn, session, rfile, rcvd,           \* receiver
          watch                          \* watchdog: between check and cancel?

producerVars == <<pc, off, chunk, target, emit>>
netVars == <<link, wire, acks>>
receiverVars == <<conn, session, rfile, rcvd>>
vars == <<controlVars, producerVars, netVars, receiverVars, watch>>

Files == 0..LastFile
Conns == 1..LastConn
Frame == [file : Files, offset : Nat, data_len : Nat]
Ack   == [file : Files, offset : Nat]

Init ==
    /\ ControlInit(1)
    /\ pc = "next" /\ off = 0 /\ chunk = 0 /\ target = 1 /\ emit = <<>>
    /\ link = [c \in Conns |-> IF c = 1 THEN "up" ELSE "unused"]
    /\ wire = [c \in Conns |-> <<>>]
    /\ acks = {}
    /\ conn = 1 /\ session = "live" /\ rfile = 0 /\ rcvd = 0
    /\ watch = "sleep"

\* Between register and unregister: inbound handlers find the control.
Registered == pc \notin {"done", "aborted"}

\* The producer is inside wait_for_reconnect.
AwaitsResume == pc \in {"reconnect", "await"}
-----------------------------------------------------------------------------
(***************************************************************************)
(* Producer.                                                               *)
(***************************************************************************)
NextChunk ==
    /\ pc = "next"
    /\ \E n \in ChunkLens :
          chunk' = IF n < FileLen - off THEN n ELSE FileLen - off
    /\ pc' = "credit"
    /\ UNCHANGED <<controlVars, off, target, emit, netVars, receiverVars, watch>>

WaitForCredit ==
    /\ pc = "credit"
    /\ \/ CreditOk(chunk) /\ pc' = "push"
       \/ CreditSleep(chunk) /\ pc' = pc
       \/ WaitCancelled /\ pc' = "aborted"
       \/ Deadlines /\ CreditTimeout(chunk) /\ pc' = "aborted"
    /\ UNCHANGED <<off, chunk, target, emit, netVars, receiverVars, watch>>

PushReplay ==
    /\ pc = "push"
    /\ push_replay(off, chunk)
    /\ pc' = "peer"
    /\ UNCHANGED <<off, chunk, target, emit, netVars, receiverVars, watch>>

ReadPeer ==
    /\ pc = "peer"
    /\ target' = peer
    /\ pc' = "send"
    /\ UNCHANGED <<controlVars, off, chunk, emit, netVars, receiverVars, watch>>

\* try_send on the peer's outbound queue: a broken connection still accepts
\* frames until the server tears it down, and those frames are lost.
Accepts(c) == link[c] \in {"up", "broken"}

send_notify(c, frame) ==
    /\ Accepts(c)
    /\ wire' = IF link[c] = "up" THEN [wire EXCEPT ![c] = Append(@, frame)] ELSE wire
    /\ UNCHANGED <<link, acks>>

Send ==
    /\ pc = "send"
    /\ \/ /\ send_notify(target, [file |-> current_file_index,
                                  offset |-> off, data_len |-> chunk])
          /\ pc' = "record"
       \/ ~Accepts(target) /\ pc' = "reconnect" /\ UNCHANGED netVars
    /\ UNCHANGED <<controlVars, off, chunk, target, emit, receiverVars, watch>>

\* Where the producer goes when everything before offset o is emitted.
Onward(o) == IF o = FileLen THEN "await" ELSE "next"

RecordSent ==
    /\ pc = "record"
    /\ record_sent(off + chunk)
    /\ off' = off + chunk
    /\ pc' = Onward(off')
    /\ UNCHANGED <<chunk, target, emit, netVars, receiverVars, watch>>

\* Also while it waits for the receiver's "file complete": a resume that
\* arrives there still finds the producer in wait_for_reconnect.
WaitForReconnect ==
    /\ AwaitsResume
    /\ \/ /\ ResumeReady
          /\ emit' = replay_from(replay, pending_resume)
          /\ pc' = "swap"
       \/ ReconnectSleep /\ pc' = pc /\ UNCHANGED emit
       \/ WaitCancelled /\ pc' = "aborted" /\ UNCHANGED emit
       \/ Deadlines /\ ReconnectTimeout /\ pc' = "aborted" /\ UNCHANGED emit
    /\ UNCHANGED <<off, chunk, target, netVars, receiverVars, watch>>

ReadNewPeer ==
    /\ pc = "swap"
    /\ target' = peer
    /\ pc' = "replay"
    /\ UNCHANGED <<controlVars, off, chunk, emit, netVars, receiverVars, watch>>

Replay ==
    /\ pc = "replay" /\ emit # <<>>
    /\ \/ /\ send_notify(target, [file |-> current_file_index,
                                  offset |-> Head(emit).offset,
                                  data_len |-> Head(emit).data_len])
          /\ pc' = "rerecord"
       \/ ~Accepts(target) /\ pc' = "reconnect" /\ UNCHANGED netVars
    /\ UNCHANGED <<controlVars, off, chunk, target, emit, receiverVars, watch>>

RecordReplay ==
    /\ pc = "rerecord"
    /\ IF RecordReplayed THEN record_sent(EndOf(Head(emit)))
                         ELSE UNCHANGED controlVars
    /\ emit' = Tail(emit)
    /\ pc' = "replay"
    /\ UNCHANGED <<off, chunk, target, netVars, receiverVars, watch>>

ReplayDone ==
    /\ pc = "replay" /\ emit = <<>>
    /\ off' = highest_end_offset(replay)
    /\ pc' = Onward(off')
    /\ UNCHANGED <<controlVars, chunk, target, emit, netVars, receiverVars, watch>>

\* "file complete" arrived: wait_for_reconnect, polled meanwhile or entered from a
\* replay the receiver did not need, is left; next file, or unregister.
FileComplete ==
    /\ AwaitsResume /\ rfile > current_file_index
    /\ IF current_file_index < LastFile
       THEN /\ advance_to_file(current_file_index + 1)
            /\ off' = 0 /\ pc' = "next"
       ELSE /\ pc' = "done" /\ parked' = FALSE
            /\ UNCHANGED <<sent_offset, acked_offset, current_file_index, cancelled,
                           replay, peer, pending_resume, idle, off>>
    /\ UNCHANGED <<chunk, target, emit, netVars, receiverVars, watch>>

Producer ==
    \/ NextChunk \/ WaitForCredit \/ PushReplay \/ ReadPeer \/ Send \/ RecordSent
    \/ WaitForReconnect \/ ReadNewPeer \/ Replay \/ RecordReplay \/ ReplayDone
    \/ FileComplete
-----------------------------------------------------------------------------
(***************************************************************************)
(* Inbound handlers and watchdog.                                          *)
(***************************************************************************)
AckArrives ==
    /\ Registered
    /\ \E a \in acks : /\ record_ack(a.file, a.offset)
                       /\ acks' = acks \ {a}
    /\ UNCHANGED <<producerVars, link, wire, receiverVars, watch>>

ClientCancels ==
    /\ Registered
    /\ cancel("client cancelled")
    /\ UNCHANGED <<producerVars, netVars, receiverVars, watch>>

ResumeArrives ==
    /\ Registered /\ session = "resuming" /\ link[conn] = "up"
    /\ request_resume(conn, rfile, rcvd)
    /\ session' = "live"
    /\ UNCHANGED <<producerVars, netVars, conn, rfile, rcvd, watch>>

\* A refusal is final, except that a receiver ahead of the producer's file
\* (wrong_file_index) asks again.
ResumeRefused ==
    /\ session = "resuming" /\ link[conn] = "up"
    /\ ~Registered \/ (rfile = current_file_index /\ ResumeRejection(rfile, rcvd))
    /\ session' = "refused"
    /\ UNCHANGED <<controlVars, producerVars, netVars, conn, rfile, rcvd, watch>>

\* One pass of watchdog_loop over this transfer: it reads is_cancelled and
\* timestamps, releases the lock, and takes it again to cancel.
WatchdogCheck ==
    /\ IdleTimeout > 0 /\ Registered /\ watch = "sleep"
    /\ cancelled = None /\ idle >= IdleTimeout
    /\ watch' = "cancel"
    /\ UNCHANGED <<controlVars, producerVars, netVars, receiverVars>>

WatchdogCancel ==
    /\ watch = "cancel"
    /\ \/ cancel("transfer idle")
       \/ cancelled # None /\ UNCHANGED controlVars
    /\ watch' = "sleep"
    /\ UNCHANGED <<producerVars, netVars, receiverVars>>

TimePasses ==
    /\ Registered /\ Tick
    /\ UNCHANGED <<producerVars, netVars, receiverVars, watch>>
-----------------------------------------------------------------------------
(***************************************************************************)
(* Connections and receiver.                                               *)
(***************************************************************************)
\* What was in flight, chunks and any of the ACKs, is lost.
Break(c) ==
    /\ link[c] = "up" /\ c < LastConn
    /\ link' = [link EXCEPT ![c] = "broken"]
    /\ wire' = [wire EXCEPT ![c] = <<>>]
    /\ acks' \in SUBSET acks
    /\ UNCHANGED <<controlVars, producerVars, receiverVars, watch>>

\* The server tears the connection down; sends now return Disconnected.
Close(c) ==
    /\ link[c] = "broken"
    /\ link' = [link EXCEPT ![c] = "closed"]
    /\ UNCHANGED <<controlVars, producerVars, wire, acks, receiverVars, watch>>

Reconnect ==
    /\ link[conn] # "up" /\ conn < LastConn
    /\ conn' = conn + 1
    /\ link' = [link EXCEPT ![conn + 1] = "up"]
    /\ session' = "resuming"
    /\ UNCHANGED <<controlVars, producerVars, wire, acks, rfile, rcvd, watch>>

\* A chunk in order is kept and ACKed cumulatively (and completes its file);
\* any other, from before or from beyond a hole, is dropped.
Deliver ==
    /\ link[conn] = "up" /\ wire[conn] # <<>>
    /\ wire' = [wire EXCEPT ![conn] = Tail(@)]
    /\ LET f == Head(wire[conn])
           inOrder == f.file = rfile /\ f.offset = rcvd
       IN  /\ rcvd' = CASE ~inOrder -> rcvd
                       [] inOrder /\ EndOf(f) < FileLen -> EndOf(f)
                       [] OTHER -> 0
           /\ rfile' = IF inOrder /\ EndOf(f) = FileLen THEN rfile + 1 ELSE rfile
           /\ acks' = IF inOrder
                      THEN acks \cup {[file |-> rfile, offset |-> EndOf(f)]}
                      ELSE acks
    /\ UNCHANGED <<controlVars, producerVars, link, conn, session, watch>>

Next ==
    \/ Producer
    \/ AckArrives \/ ClientCancels \/ ResumeArrives \/ ResumeRefused
    \/ WatchdogCheck \/ WatchdogCancel \/ TimePasses
    \/ \E c \in Conns : Break(c) \/ Close(c)
    \/ Reconnect \/ Deliver

Spec == Init /\ [][Next]_vars

(***************************************************************************)
(* Threads run and the network delivers; nothing obliges a connection to   *)
(* break or the client to cancel.  A deadline that may expire is a         *)
(* disjunct of the producer's wait, never forced.                          *)
(***************************************************************************)
Fairness ==
    /\ WF_vars(Producer)
    /\ WF_vars(AckArrives) /\ WF_vars(Deliver)
    /\ WF_vars(ResumeArrives) /\ WF_vars(Reconnect)
    /\ \A c \in Conns : WF_vars(Close(c))
    /\ WF_vars(WatchdogCheck) /\ WF_vars(WatchdogCancel) /\ WF_vars(TimePasses)

FairSpec == Spec /\ Fairness
-----------------------------------------------------------------------------
(***************************************************************************)
(* Properties.                                                             *)
(***************************************************************************)
TypeOK ==
    /\ sent_offset \in Nat /\ acked_offset \in Nat
    /\ current_file_index \in Files
    /\ cancelled \in Reasons \cup {None}
    /\ replay \in Seq(RingChunk)
    /\ peer \in Conns
    /\ pending_resume \in Nat \cup {None}
    /\ idle \in 0..IdleTimeout
    /\ parked \in BOOLEAN
    /\ pc \in {"next", "credit", "push", "peer", "send", "record", "reconnect",
               "swap", "replay", "rerecord", "await", "done", "aborted"}
    /\ off \in 0..FileLen /\ chunk \in 0..MaxChunk
    /\ target \in Conns /\ emit \in Seq(RingChunk)
    /\ link \in [Conns -> {"unused", "up", "broken", "closed"}]
    /\ wire \in [Conns -> Seq(Frame)]
    /\ acks \subseteq Ack
    /\ conn \in Conns /\ session \in {"live", "resuming", "refused"}
    /\ rfile \in 0..(LastFile + 1) /\ rcvd \in 0..FileLen
    /\ watch \in {"sleep", "cancel"}

\* Bytes of the producer's current file the receiver holds, in order.
Received == IF rfile > current_file_index THEN FileLen ELSE rcvd

\* The offset up to which the producer has pushed bodies into the ring.
Pushed == IF pc \in {"peer", "send", "record"} THEN off + chunk ELSE off

\* The ring is one contiguous run that ends at the last pushed byte (what
\* push's debug_assert and the comment on RingChunk rely on), so replaying
\* from any offset it covers re-emits every byte from there on.
RingTail ==
    /\ \A i \in 1..(Len(replay) - 1) : replay[i + 1].offset = EndOf(replay[i])
    /\ ~Registered \/ AwaitsResume \/ pc \in {"swap", "replay", "rerecord"}
       \/ highest_end_offset(replay) = Pushed

\* Emitted and unacknowledged bytes never exceed the window, or one chunk
\* where a chunk is larger (wait_for_credit), although the reservation is not
\* atomic with the wait and ACKs, resumes and replays run in between.  For a
\* producer that calls record_sent for what it re-emits too (RecordReplayed).
CreditWindow == in_flight <= WindowBytes \/ in_flight <= MaxChunk

\* Credit is only ever released for bytes the receiver holds: an ACK of the
\* previous file, a late one of an older connection or a resume offset never
\* acknowledges more of the current file (record_ack, request_resume,
\* advance_to_file).
AckedIsReceived == acked_offset <= sent_offset /\ acked_offset <= Received

\* No lost wakeup: while the producer sleeps on the condvar, what it sleeps
\* for has not happened (every method that can end a wait notifies).
NoMissedWakeup ==
    parked => /\ cancelled = None
              /\ \/ pc = "credit" /\ ~HasCredit(chunk)
                 \/ AwaitsResume /\ pending_resume = None

\* The ring has room for a window of the smallest chunks, envelopes included.
\* The defaults do not: both are the same number of bytes (stream.rs:84-87).
RingFitsWindow == RingCapacity >= WindowBytes * (1 + Overhead)

\* A receiver of the current file can always resume: whatever was evicted, the
\* ring still covers the offset it stands at (DEFAULT_REPLAY_RING_BYTES: "can
\* replay the whole window"), if the ring has room for the window.
WindowReplayable ==
    RingFitsWindow => (rfile = current_file_index => covers(replay, rcvd))

Carries(frames, offset) == \E i \in DOMAIN frames : frames[i].offset = offset

\* What a drop lost is never forgotten, even if the resume is handled while the
\* producer is between two chunks and newer ones go out first: as long as a live
\* receiver misses an emitted byte, the chunk it expects is on the connection, or
\* about to be re-emitted on it, or a resume is still to be taken up.
NothingForgotten ==
    (/\ RingFitsWindow /\ Registered /\ cancelled = None
     /\ session = "live" /\ link[conn] = "up"
     /\ rfile = current_file_index /\ rcvd < sent_offset)
    => \/ pending_resume # None
       \/ Carries(wire[conn], rcvd)
       \/ pc \in {"swap", "replay", "rerecord"} /\ Carries(emit, rcvd)

Flow == INSTANCE WindowedFlow WITH file <- current_file_index,
            sent <- sent_offset, acked <- acked_offset, received <- Received

\* The transfer implements the flow-control promise of WindowedFlow.
FlowControl == Flow!Spec

\* A producer waiting for credit gets it once the receiver catches up: "when
\* an ACK arrives the producer wakes and resumes".
CreditReturns == pc = "credit" ~> pc = "push" \/ cancelled # None

\* In spite of drops, every file reaches the receiver whole, unless the
\* transfer is cancelled.
Delivery == <>(rfile > LastFile \/ cancelled # None)

=============================================================================
