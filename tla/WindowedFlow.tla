---------------------------- MODULE WindowedFlow ----------------------------
(***************************************************************************)
(* What a push transfer promises about flow control, whatever happens to   *)
(* the connection: per file three offsets that only grow.  The emitted     *)
(* offset runs at most a window ahead of the acknowledged one (or one chunk*)
(* where a chunk is larger than the window), credit is acknowledged only   *)
(* for bytes the receiver has, and a file is left only when all of it has  *)
(* arrived.                                                                *)
(***************************************************************************)
EXTENDS Integers

CONSTANTS WindowBytes, MaxChunk, FileLen

VARIABLES file, sent, acked, received

flowVars == <<file, sent, acked, received>>

Init == file = 0 /\ sent = 0 /\ acked = 0 /\ received = 0

WithinWindow(n) == n <= WindowBytes \/ n <= MaxChunk

Emit ==
    /\ sent' \in (sent + 1)..FileLen
    /\ sent' - sent <= MaxChunk
    /\ WithinWindow(sent' - acked)
    /\ UNCHANGED <<file, acked, received>>

Acknowledge ==
    /\ acked' \in (acked + 1)..sent
    /\ acked' <= received
    /\ UNCHANGED <<file, sent, received>>

\* The receiver may hold the one chunk whose emission is not recorded yet.
Receive ==
    /\ received' \in (received + 1)..FileLen
    /\ received' <= sent + MaxChunk
    /\ UNCHANGED <<file, sent, acked>>

NextFile ==
    /\ sent = FileLen /\ received = FileLen
    /\ file' = file + 1
    /\ sent' = 0 /\ acked' = 0 /\ received' = 0

Next == Emit \/ Acknowledge \/ Receive \/ NextFile

Spec == Init /\ [][Next]_flowVars
=============================================================================
