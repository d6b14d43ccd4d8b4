------------------------------ MODULE MCStreams ------------------------------
(***************************************************************************)
(* The progress of a push transfer in four settings, side by side.        *)
(***************************************************************************)
EXTENDS Naturals, Sequences

CONSTANT None

VARIABLES setting,
          sent_offset, acked_offset, current_file_index, cancelled, replay, peer,
          pending_resume, idle, parked, pc, off, chunk, target, emit, link, wire, acks,
          conn, session, rfile, rcvd, watch

vars == <<setting, sent_offset, acked_offset, current_file_index, cancelled, replay, peer,
          pending_resume, idle, parked, pc, off, chunk, target, emit, link, wire, acks,
          conn, session, rfile, rcvd, watch>>

\* Two files over three connections; the receiver may drop and resume at will.
\* No file is longer than the window: a drop while the producer waits for credit
\* is left to its deadline.
Resume == INSTANCE StreamTransfer WITH
    WindowBytes <- 2, RingCapacity <- 4, Overhead <- 1, ChunkLens <- {1, 2}, MaxChunk <- 2,
    FileLen <- 2, LastFile <- 1, LastConn <- 3, IdleTimeout <- 0,
    RecordReplayed <- TRUE, Deadlines <- FALSE

\* A file longer than window and ring: the ring evicts while the receiver
\* drops and resumes.
Evict == INSTANCE StreamTransfer WITH
    WindowBytes <- 2, RingCapacity <- 4, Overhead <- 1, ChunkLens <- {1, 2}, MaxChunk <- 2,
    FileLen <- 3, LastFile <- 0, LastConn <- 3, IdleTimeout <- 0,
    RecordReplayed <- TRUE, Deadlines <- FALSE

\* A window of two of the largest chunks, a file longer than the window, over
\* one connection that holds.
Credit == INSTANCE StreamTransfer WITH
    WindowBytes <- 4, RingCapacity <- 8, Overhead <- 0, ChunkLens <- {1, 2}, MaxChunk <- 2,
    FileLen <- 6, LastFile <- 0, LastConn <- 1, IdleTimeout <- 0,
    RecordReplayed <- TRUE, Deadlines <- FALSE

\* The idle watchdog, and resumes that come before the producer waits for one.
Watch == INSTANCE StreamTransfer WITH
    WindowBytes <- 1, RingCapacity <- 8, Overhead <- 0, ChunkLens <- {1}, MaxChunk <- 1,
    FileLen <- 2, LastFile <- 0, LastConn <- 2, IdleTimeout <- 1,
    RecordReplayed <- TRUE, Deadlines <- FALSE

In(s) == setting = s

Init ==
    \/ setting = "resume" /\ Resume!Init
    \/ setting = "evict" /\ Evict!Init
    \/ setting = "credit" /\ Credit!Init
    \/ setting = "watchdog" /\ Watch!Init

Next ==
    /\ \/ In("resume") /\ Resume!Next
       \/ In("evict") /\ Evict!Next
       \/ In("credit") /\ Credit!Next
       \/ In("watchdog") /\ Watch!Next
    /\ UNCHANGED setting

Steps(A, B, C) ==
    /\ (In("resume") /\ A) \/ (In("credit") /\ B) \/ (In("watchdog") /\ C)
    /\ UNCHANGED setting

\* That of StreamTransfer, as far as a setting's properties need it.
Fairness ==
    /\ WF_vars(Steps(Resume!Producer, Credit!Producer, Watch!Producer))
    /\ WF_vars(Steps(Resume!Deliver, Credit!Deliver, FALSE))
    /\ WF_vars(Steps(Resume!Reconnect, Credit!AckArrives, Watch!WatchdogCheck))
    /\ WF_vars(Steps(Resume!ResumeArrives, FALSE, Watch!WatchdogCancel))

Spec == Init /\ [][Next]_vars /\ Fairness
-----------------------------------------------------------------------------
(***************************************************************************)
(* The properties of the push transfer (see StreamTransfer).               *)
(***************************************************************************)
\* With a ring that has room for the window, a drop costs nothing: wherever the
\* connection breaks and whenever the resume is handled, the ring covers where the
\* receiver stands, and what it misses is on its way or a resume is still to be
\* taken up (ReplayRing::push, covers, replay_from, request_resume).
NothingLost ==
    /\ In("resume") => Resume!WindowReplayable /\ Resume!NothingForgotten
    /\ In("evict") => Evict!WindowReplayable /\ Evict!NothingForgotten

\* In spite of drops every file, none longer than the window, reaches the
\* receiver, and every accepted resume is taken up by the producer or not needed
\* any more, unless the transfer is cancelled.
Delivery ==
    /\ <>(In("resume") => (rfile > 1 \/ cancelled # None))
    /\ (In("resume") /\ pending_resume # None)
          ~> (In("resume") /\ (pc = "swap" \/ cancelled # None \/ rfile > current_file_index))

\* A producer that waits for credit gets it once the receiver catches up.
CreditReturns ==
    (In("credit") /\ pc = "credit") ~> (In("credit") /\ (pc = "push" \/ cancelled # None))

\* The watchdog cancels a transfer that stays silent, and cancel ends the
\* producer wherever it is.
SilentTransfersEnd ==
    /\ (In("watchdog") /\ idle = 1)
          ~> (In("watchdog") /\ (idle = 0 \/ cancelled # None \/ ~Watch!Registered))
    /\ (In("watchdog") /\ cancelled # None) ~> (In("watchdog") /\ ~Watch!Registered)
=============================================================================
