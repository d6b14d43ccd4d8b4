--------------------------- MODULE TransferControl ---------------------------
(***************************************************************************)
(* One push transfer's control block (src/stream.rs, TransferControl):     *)
(* credit window, ACK accounting, replay ring, peer slot, staged resume,   *)
(* sticky cancel and progress timestamps.  Every method runs under the one *)
(* mutex, so each is one atomic action here; the two waits are split into  *)
(* the evaluations their loops make between two sleeps on the condvar.     *)
(*                                                                         *)
(* Fields keep their names.  The two timestamps are only ever read as      *)
(* now - max(last_chunk_at, last_ack_at), which is the variable idle,      *)
(* counted in clock ticks and saturating at IdleTimeout.  parked says that *)
(* the producer thread sleeps on the condvar: notify_all is parked' =      *)
(* FALSE, and an evaluation only happens while awake.                      *)
(***************************************************************************)
EXTENDS ReplayRing

CONSTANTS WindowBytes,    \* window_bytes
          IdleTimeout,    \* idle_timeout in ticks; 0: no watchdog is spawned
          None            \* the None of the code's Options

ASSUME ControlAssumption ==
    WindowBytes \in Nat /\ IdleTimeout \in Nat /\ None \notin Nat

VARIABLES sent_offset, acked_offset, current_file_index, cancelled,
          replay, peer, pending_resume, idle, parked

controlVars == <<sent_offset, acked_offset, current_file_index, cancelled,
                 replay, peer, pending_resume, idle, parked>>

Reasons == {"client cancelled", "transfer idle"}

\* with_replay_capacity, then the one set_peer that starts a transfer.
ControlInit(firstPeer) ==
    /\ sent_offset = 0 /\ acked_offset = 0
    /\ current_file_index = 0
    /\ cancelled = None
    /\ replay = <<>>
    /\ peer = firstPeer
    /\ pending_resume = None
    /\ idle = 0
    /\ parked = FALSE

notify_all == parked' = FALSE

in_flight == sent_offset - acked_offset

\* Mutant: the window tested before the chunk is added.
HasCredit_Before(len) == in_flight = 0 \/ in_flight < WindowBytes

HasCredit(len) == in_flight = 0 \/ in_flight + len <= WindowBytes
-----------------------------------------------------------------------------
(***************************************************************************)
(* Producer side.                                                          *)
(***************************************************************************)
push_replay(offset, len) ==
    /\ replay' = push(replay, [offset |-> offset, data_len |-> len])
    /\ UNCHANGED <<sent_offset, acked_offset, current_file_index, cancelled,
                   peer, pending_resume, idle, parked>>

record_sent(new_offset) ==
    /\ sent_offset' = IF new_offset > sent_offset THEN new_offset ELSE sent_offset
    /\ idle' = 0
    /\ UNCHANGED <<acked_offset, current_file_index, cancelled, replay, peer,
                   pending_resume, parked>>

advance_to_file(next) ==
    /\ current_file_index' = next
    /\ sent_offset' = 0 /\ acked_offset' = 0
    /\ replay' = <<>>
    /\ pending_resume' = None
    /\ idle' = 0
    /\ notify_all
    /\ UNCHANGED <<cancelled, peer>>

\* The evaluations of wait_for_credit: Ok, Cancelled, Timeout, and sleep.
CreditOk(len) ==
    /\ ~parked /\ cancelled = None /\ HasCredit(len)
    /\ UNCHANGED controlVars

WaitCancelled ==
    /\ ~parked /\ cancelled # None
    /\ UNCHANGED controlVars

CreditTimeout(len) ==
    /\ cancelled = None /\ ~HasCredit(len)
    /\ parked' = FALSE
    /\ UNCHANGED <<sent_offset, acked_offset, current_file_index, cancelled,
                   replay, peer, pending_resume, idle>>

CreditSleep(len) ==
    /\ ~parked /\ cancelled = None /\ ~HasCredit(len)
    /\ parked' = TRUE
    /\ UNCHANGED <<sent_offset, acked_offset, current_file_index, cancelled,
                   replay, peer, pending_resume, idle>>

\* The evaluations of wait_for_reconnect: ResumeReady, Timeout and sleep
\* (its Cancelled is WaitCancelled).
ResumeReady ==
    /\ ~parked /\ cancelled = None /\ pending_resume # None
    /\ pending_resume' = None
    /\ UNCHANGED <<sent_offset, acked_offset, current_file_index, cancelled,
                   replay, peer, idle, parked>>

ReconnectTimeout ==
    /\ cancelled = None /\ pending_resume = None
    /\ parked' = FALSE
    /\ UNCHANGED <<sent_offset, acked_offset, current_file_index, cancelled,
                   replay, peer, pending_resume, idle>>

ReconnectSleep ==
    /\ ~parked /\ cancelled = None /\ pending_resume = None
    /\ parked' = TRUE
    /\ UNCHANGED <<sent_offset, acked_offset, current_file_index, cancelled,
                   replay, peer, pending_resume, idle>>
-----------------------------------------------------------------------------
(***************************************************************************)
(* Inbound handlers and watchdog.                                          *)
(***************************************************************************)
\* Mutants: the file index unchecked; an older ACK overwrites a newer one.
Releases_AnyFile(file, capped) == capped > acked_offset
Releases_AnyOrder(file, capped) == file = current_file_index

Releases(file, capped) == file = current_file_index /\ capped > acked_offset

\* Mutant: no notify_all.
record_ack_Silent(file, received_through) ==
    LET capped == IF received_through < sent_offset THEN received_through
                                                    ELSE sent_offset
    IN  /\ idle' = 0
        /\ acked_offset' = IF Releases(file, capped) THEN capped ELSE acked_offset
        /\ UNCHANGED <<sent_offset, current_file_index, cancelled, replay,
                       peer, pending_resume, parked>>

record_ack(file, received_through) ==
    LET capped == IF received_through < sent_offset THEN received_through
                                                    ELSE sent_offset
    IN  /\ idle' = 0
        /\ IF Releases(file, capped)
           THEN acked_offset' = capped /\ notify_all
           ELSE UNCHANGED <<acked_offset, parked>>
        /\ UNCHANGED <<sent_offset, current_file_index, cancelled, replay,
                       peer, pending_resume>>

\* Mutant: no notify_all.
cancel_Silent(reason) ==
    /\ cancelled = None
    /\ cancelled' = reason
    /\ UNCHANGED <<sent_offset, acked_offset, current_file_index, replay,
                   peer, pending_resume, idle, parked>>

cancel(reason) ==
    /\ cancelled = None
    /\ cancelled' = reason
    /\ notify_all
    /\ UNCHANGED <<sent_offset, acked_offset, current_file_index, replay,
                   peer, pending_resume, idle>>

request_resume_Silent(new_peer, file, last_received) ==
    /\ cancelled = None /\ file = current_file_index /\ covers(replay, last_received)
    /\ peer' = new_peer /\ pending_resume' = last_received /\ idle' = 0
    /\ acked_offset' = IF last_received > acked_offset
                          /\ last_received <= sent_offset
                       THEN last_received ELSE acked_offset
    /\ UNCHANGED <<sent_offset, current_file_index, cancelled, replay, parked>>

request_resume(new_peer, file, last_received) ==
    /\ cancelled = None
    /\ file = current_file_index
    /\ covers(replay, last_received)
    /\ peer' = new_peer
    /\ pending_resume' = last_received
    /\ idle' = 0
    /\ acked_offset' = IF last_received > acked_offset
                          /\ last_received <= sent_offset
                       THEN last_received ELSE acked_offset
    /\ notify_all
    /\ UNCHANGED <<sent_offset, current_file_index, cancelled, replay>>

\* The three refusals, in the order of the checks; nothing changes.
ResumeRejection(file, last_received) ==
    \/ cancelled # None
    \/ file # current_file_index
    \/ ~covers(replay, last_received)

Tick ==
    /\ idle < IdleTimeout
    /\ idle' = idle + 1
    /\ UNCHANGED <<sent_offset, acked_offset, current_file_index, cancelled,
                   replay, peer, pending_resume, parked>>
=============================================================================
