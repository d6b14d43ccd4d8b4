--------------------------- MODULE StreamTheorems ---------------------------
(***************************************************************************)
(* What holds of every push transfer, for every window, ring, file and     *)
(* chunk size, any number of files and connections, and any interleaving   *)
(* of producer, handlers, watchdog, connections and receiver.              *)
(* RecordReplayed is the one assumption on the embedder: its producer calls*)
(* record_sent for the chunks it re-emits, as for those it emits first.    *)
(***************************************************************************)
EXTENDS StreamTransferProofs

USE ConstantFacts

-----------------------------------------------------------------------------
(***************************************************************************)
(* The actions that move ACKs, resumes and frames keep IInv: record_ack,   *)
(* request_resume, a connection that breaks, and the receiver taking a     *)
(* frame.                                                                  *)
(***************************************************************************)
\* Subtraction is antitone: the more is acknowledged, the less is in flight.
LEMMA CloserIsLess ==
    ASSUME NEW s \in Nat, NEW a \in Nat, NEW b \in Nat, a <= b
    PROVE  /\ s - a \in Int /\ s - b \in Int /\ s - b <= s - a
           /\ b <= s => s - b >= 0
<1> QED
  OBVIOUS

\* Acknowledging more keeps a grant and the window.
LEMMA MoreAcked ==
    ASSUME IInv, acked_offset' \in Nat, acked_offset <= acked_offset',
           acked_offset' <= sent_offset,
           UNCHANGED <<sent_offset, replay, pc, off, chunk>>
    PROVE  ProducerInv' /\ WindowInv'
<1>1. /\ sent_offset \in Nat /\ acked_offset \in Nat /\ chunk \in Nat /\ RingEnd \in Nat
      /\ WindowBytes \in Nat /\ MaxChunk \in Nat
  BY Offsets DEF IInv, TypeOK
<1>2. RingEnd' = RingEnd
  BY DEF RingEnd
<1>3. HasCredit(chunk) => HasCredit(chunk)'
  <2> DEFINE old == sent_offset - acked_offset
             new == sent_offset - acked_offset'
  <2>1. old \in Int /\ new \in Int /\ new <= old /\ new >= 0
    BY <1>1, CloserIsLess, Zenon
  <2>2. in_flight = old /\ in_flight' = new /\ chunk' = chunk
    BY DEF in_flight
  <2> HIDE DEF old, new
  <2>3. old = 0 \/ old + chunk <= WindowBytes => new = 0 \/ new + chunk <= WindowBytes
    BY <1>1, <2>1
  <2> QED BY <2>2, <2>3 DEF HasCredit
<1>4. WindowInv'
  <2> DEFINE old == RingEnd - acked_offset
             new == RingEnd - acked_offset'
  <2>1. old \in Int /\ new \in Int /\ new <= old
    BY <1>1, CloserIsLess, Zenon
  <2>2. old <= WindowBytes \/ old <= MaxChunk
    BY DEF IInv, WindowInv
  <2> HIDE DEF old, new
  <2>3. new <= WindowBytes \/ new <= MaxChunk
    BY <1>1, <2>1, <2>2
  <2> QED BY <1>2, <2>3 DEF WindowInv, new
<1>5. ProducerInv'
  BY <1>2, <1>3 DEF IInv, ProducerInv
<1> QED
  BY <1>4, <1>5

\* record_ack releases at most what is sent and received.
LEMMA AckStep ==
    ASSUME IInv, AckArrives
    PROVE  IInv'
<1> USE DEF producerVars, receiverVars
<1>0. TypeOK /\ RingInv /\ ReplayInv /\ ReceiverInv /\ AckedIsReceived
  BY DEF IInv
<1>1. PICK a \in acks : record_ack(a.file, a.offset) /\ acks' = acks \ {a}
  BY DEF AckArrives
<1>2. UNCHANGED <<sent_offset, current_file_index, cancelled, replay, peer,
                  pending_resume, producerVars, link, wire, receiverVars, watch>>
  BY <1>1 DEF AckArrives, record_ack
<1>3. /\ a.offset \in Nat /\ sent_offset \in Nat /\ acked_offset \in Nat
      /\ Received \in Nat
      /\ a.file = current_file_index => a.offset <= Received
      /\ acked_offset <= sent_offset /\ acked_offset <= Received
  BY <1>0, <1>1, Offsets, Zenon DEF TypeOK, Ack, ReceiverInv, AckedIsReceived
<1>4. RingEnd' = RingEnd /\ Emitted' = Emitted /\ Received' = Received
  BY <1>2 DEF RingEnd, Emitted, Received
<1>5. /\ acked_offset' \in Nat /\ acked_offset <= acked_offset'
      /\ acked_offset' <= sent_offset /\ acked_offset' <= Received
  <2> DEFINE capped == IF a.offset < sent_offset THEN a.offset ELSE sent_offset
  <2>1. acked_offset' = acked_offset
        \/ /\ acked_offset' = capped /\ capped > acked_offset
           /\ a.file = current_file_index
    BY <1>1 DEF record_ack, Releases
  <2>2. capped \in Nat /\ capped <= sent_offset /\ capped <= a.offset
    BY <1>3
  <2> HIDE DEF capped
  <2>3. CASE acked_offset' = acked_offset
    BY <1>3, <2>3
  <2>4. CASE acked_offset' = capped /\ capped > acked_offset /\ a.file = current_file_index
    <3>1. acked_offset <= capped /\ capped <= Received
      BY <1>3, <2>2, <2>4
    <3> QED BY <2>2, <2>4, <3>1
  <2> QED BY <2>1, <2>3, <2>4
<1>6. TypeOK'
  <2>1. parked' \in BOOLEAN
    BY <1>0, <1>1, Zenon DEF TypeOK, record_ack, notify_all
  <2>2. idle' \in 0..IdleTimeout
    BY <1>1 DEF record_ack
  <2>3. acks' \subseteq Ack
    BY <1>0, <1>1, Zenon DEF TypeOK
  <2> QED BY <1>0, <1>2, <1>5, <2>1, <2>2, <2>3 DEF TypeOK
<1>7. RingInv' /\ ReplayInv'
  BY <1>0, <1>2, <1>4 DEF RingInv, ReplayInv
<1>8. ProducerInv' /\ WindowInv'
  BY <1>2, <1>5, MoreAcked
<1>9. AckedIsReceived'
  BY <1>2, <1>4, <1>5, Zenon DEF AckedIsReceived
<1>10. ReceiverInv'
  BY <1>0, <1>1, <1>2, <1>4 DEF ReceiverInv
<1> QED
  BY <1>6, <1>7, <1>8, <1>9, <1>10 DEF IInv

\* request_resume acknowledges what the receiver says it has, if it was sent.
LEMMA ResumeStep ==
    ASSUME IInv, ResumeArrives
    PROVE  IInv'
<1> USE DEF producerVars, netVars
<1>0. TypeOK /\ RingInv /\ ReplayInv /\ ReceiverInv /\ AckedIsReceived
  BY DEF IInv
<1>1. /\ rfile = current_file_index
      /\ peer' = conn /\ pending_resume' = rcvd /\ idle' = 0 /\ parked' = FALSE
      /\ acked_offset' = IF rcvd > acked_offset /\ rcvd <= sent_offset
                         THEN rcvd ELSE acked_offset
      /\ session' = "live"
      /\ UNCHANGED <<sent_offset, current_file_index, cancelled, replay,
                     producerVars, netVars, conn, rfile, rcvd, watch>>
  BY DEF ResumeArrives, request_resume, notify_all
<1>2. /\ sent_offset \in Nat /\ acked_offset \in Nat /\ rcvd \in Nat
      /\ Received = rcvd /\ rcvd <= Emitted
      /\ acked_offset <= sent_offset /\ acked_offset <= rcvd
  <2>1. /\ sent_offset \in Nat /\ acked_offset \in Nat /\ rcvd \in Nat
        /\ current_file_index \in Nat
    BY <1>0 DEF TypeOK, Files
  <2>2. Received = rcvd
    BY <1>1, <2>1 DEF Received
  <2> QED BY <1>0, <1>1, <2>1, <2>2 DEF ReceiverInv, AckedIsReceived
<1>3. RingEnd' = RingEnd /\ Emitted' = Emitted /\ Received' = Received
  BY <1>1 DEF RingEnd, Emitted, Received
<1>4. /\ acked_offset' \in Nat /\ acked_offset <= acked_offset'
      /\ acked_offset' <= sent_offset /\ acked_offset' <= Received
  BY <1>1, <1>2
<1>5. TypeOK'
  <2>1. 0 \in 0..IdleTimeout
    OBVIOUS
  <2> QED BY <1>0, <1>1, <1>2, <1>4, <2>1, Zenon DEF TypeOK
<1>6. RingInv' /\ ReplayInv'
  BY <1>0, <1>1, <1>3 DEF RingInv, ReplayInv
<1>7. ProducerInv' /\ WindowInv'
  BY <1>1, <1>4, MoreAcked
<1>8. AckedIsReceived'
  BY <1>1, <1>3, <1>4, Zenon DEF AckedIsReceived
<1>9. ReceiverInv'
  BY <1>0, <1>1, <1>2, <1>3, Zenon DEF ReceiverInv
<1> QED
  BY <1>5, <1>6, <1>7, <1>8, <1>9 DEF IInv

\* A break only loses frames and ACKs.
LEMMA BreakStep ==
    ASSUME IInv, NEW c \in Conns, Break(c)
    PROVE  IInv'
<1> USE DEF Break, controlVars, producerVars, receiverVars
<1>0. TypeOK /\ ReceiverInv
  BY DEF IInv
<1>1. RingEnd' = RingEnd /\ Emitted' = Emitted /\ Received' = Received
  BY DEF RingEnd, Emitted, Received
<1>2. wire' \in [Conns -> Seq(Frame)]
  BY <1>0 DEF TypeOK
<1>3. TypeOK'
  <2>1. link' \in [Conns -> {"unused", "up", "broken", "closed"}] /\ acks' \subseteq Ack
    BY <1>0 DEF TypeOK
  <2> QED BY <1>0, <1>2, <2>1, ZenonT(60) DEF TypeOK
<1>4. RingInv' /\ ProducerInv' /\ ReplayInv' /\ WindowInv' /\ AckedIsReceived'
  BY <1>1 DEF IInv, RingInv, ProducerInv, ReplayInv, WindowInv, AckedIsReceived,
              HasCredit, in_flight
<1>5. ReceiverInv'
  <2>1. ASSUME NEW d \in Conns, NEW i \in 1..Len(wire'[d])
        PROVE  d # c /\ wire'[d] = wire[d]
    BY <1>0 DEF TypeOK
  <2> QED BY <1>0, <1>1, <2>1 DEF ReceiverInv
<1> QED
  BY <1>3, <1>4, <1>5 DEF IInv

\* Dropping the head of a queue shifts its elements by one.
LEMMA TailFacts ==
    ASSUME NEW S, NEW q \in Seq(S), q # <<>>, NEW i \in 1..Len(Tail(q))
    PROVE  i + 1 \in 1..Len(q) /\ Tail(q)[i] = q[i + 1]
<1>1. Len(Tail(q)) = Len(q) - 1 /\ Len(q) \in Nat /\ Len(q) # 0
  OBVIOUS
<1>2. i + 1 \in 1..Len(q)
  BY <1>1
<1> QED
  BY <1>1, <1>2

\* The head of a queue is its first element.
LEMMA HeadFacts ==
    ASSUME NEW S, NEW q \in Seq(S), q # <<>>
    PROVE  Head(q) \in S /\ Head(q) = q[1] /\ 1 \in 1..Len(q)
<1> QED
  OBVIOUS

\* The receiver takes one frame: it keeps it when it is next in order.
LEMMA DeliverStep ==
    ASSUME IInv, Deliver
    PROVE  IInv'
<1> DEFINE f == Head(wire[conn])
           inOrder == f.file = rfile /\ f.offset = rcvd
<1> USE DEF controlVars, producerVars
<1>0. TypeOK /\ ReceiverInv /\ AckedIsReceived
  BY DEF IInv
<1>1. /\ UNCHANGED <<controlVars, producerVars, link, conn, session, watch>>
      /\ wire' = [wire EXCEPT ![conn] = Tail(@)] /\ wire[conn] # <<>>
  BY DEF Deliver
<1>2. /\ conn \in Conns /\ wire[conn] \in Seq(Frame) /\ f \in Frame
      /\ f = wire[conn][1] /\ 1 \in 1..Len(wire[conn])
  BY <1>0, <1>1 DEF TypeOK
<1>3. /\ f.file \in Nat /\ f.file <= LastFile /\ EndOf(f) \in Nat
      /\ f.file <= current_file_index
      /\ f.file = current_file_index => EndOf(f) <= Emitted
      /\ EndOf(f) = f.offset + f.data_len /\ f.offset \in Nat /\ f.data_len \in Nat
  BY <1>0, <1>2, FrameFacts, Zenon DEF ReceiverInv, EndOf
<1>4. /\ Emitted \in Nat /\ Emitted <= FileLen /\ current_file_index \in Nat
      /\ rfile \in Nat /\ rcvd \in Nat /\ RingEnd \in Nat
      /\ rfile \in {current_file_index, current_file_index + 1}
  <2>1. current_file_index \in Nat /\ rfile \in Nat /\ rcvd \in Nat
    BY <1>0 DEF TypeOK, Files
  <2>2. rfile \in {current_file_index, current_file_index + 1}
    BY <1>0 DEF ReceiverInv
  <2> QED BY <2>1, <2>2, Offsets
<1>5. RingEnd' = RingEnd /\ Emitted' = Emitted
  BY <1>1 DEF RingEnd, Emitted
<1> HIDE DEF f
<1>6. /\ wire' \in [Conns -> Seq(Frame)]
      /\ \A d \in Conns : \A i \in 1..Len(wire'[d]) :
            \E j \in 1..Len(wire[d]) : wire'[d][i] = wire[d][j]
  <2>1. wire' \in [Conns -> Seq(Frame)]
    BY <1>0, <1>1, <1>2 DEF TypeOK
  <2>2. ASSUME NEW d \in Conns, NEW i \in 1..Len(wire'[d])
        PROVE  \E j \in 1..Len(wire[d]) : wire'[d][i] = wire[d][j]
    <3>1. CASE d # conn
      BY <1>0, <1>1, <2>2, <3>1 DEF TypeOK
    <3>2. CASE d = conn
      <4>1. wire'[d] = Tail(wire[conn])
        BY <1>0, <1>1, <1>2, <3>2 DEF TypeOK
      <4>2. i + 1 \in 1..Len(wire[conn]) /\ Tail(wire[conn])[i] = wire[conn][i + 1]
        BY <1>1, <1>2, <2>2, <4>1, TailFacts, ZenonT(120)
      <4> QED BY <3>2, <4>1, <4>2, Zenon
    <3> QED BY <3>1, <3>2, Zenon
  <2> QED BY <2>1, <2>2, Zenon
<1>7. \A d \in Conns : \A i \in 1..Len(wire'[d]) :
          /\ wire'[d][i].file <= current_file_index
          /\ wire'[d][i].file = current_file_index => EndOf(wire'[d][i]) <= Emitted
  <2>1. SUFFICES ASSUME NEW d \in Conns, NEW i \in 1..Len(wire'[d])
        PROVE  /\ wire'[d][i].file <= current_file_index
               /\ wire'[d][i].file = current_file_index => EndOf(wire'[d][i]) <= Emitted
    BY Zenon
  <2>2. PICK j \in 1..Len(wire[d]) : wire'[d][i] = wire[d][j]
    BY <1>6, <2>1, Zenon
  <2>3. /\ wire[d][j].file <= current_file_index
        /\ wire[d][j].file = current_file_index => EndOf(wire[d][j]) <= Emitted
    BY <1>0, <2>1, <2>2, Zenon DEF ReceiverInv
  <2> QED BY <2>2, <2>3, Zenon
<1>8. RingInv' /\ ProducerInv' /\ ReplayInv' /\ WindowInv'
  BY <1>1, <1>5 DEF IInv, RingInv, ProducerInv, ReplayInv, WindowInv, HasCredit, in_flight
<1>9. CASE ~inOrder
  <2>1. rcvd' = rcvd /\ rfile' = rfile /\ acks' = acks
    BY <1>9 DEF Deliver, f
  <2>2. Received' = Received
    BY <1>1, <2>1 DEF Received
  <2>3. TypeOK'
    BY <1>0, <1>1, <1>6, <2>1, ZenonT(60) DEF TypeOK
  <2>4. AckedIsReceived' /\ ReceiverInv'
    BY <1>0, <1>1, <1>5, <1>7, <2>1, <2>2, ZenonT(30) DEF AckedIsReceived, ReceiverInv
  <2> QED BY <1>8, <2>3, <2>4, Zenon DEF IInv
<1>10. CASE inOrder
  <2>1. rfile = current_file_index /\ EndOf(f) <= Emitted /\ EndOf(f) <= FileLen
        /\ rcvd <= EndOf(f)
    BY <1>3, <1>4, <1>10
  <2>2. acks' = acks \cup {[file |-> rfile, offset |-> EndOf(f)]}
    BY <1>10 DEF Deliver, f
  <2>3. Received = rcvd
    BY <1>4, <2>1 DEF Received
  <2>4. acks' \subseteq Ack
    <3>1. acks \subseteq Ack /\ rfile \in Files
      BY <1>0, <2>1, Zenon DEF TypeOK
    <3>2. EndOf(f) \in 0..FileLen
      BY <1>3, <2>1
    <3>3. [file |-> rfile, offset |-> EndOf(f)] \in Ack
      BY <3>1, <3>2 DEF Ack
    <3> QED BY <2>2, <3>1, <3>3, Zenon
  <2>5. CASE EndOf(f) < FileLen
    <3>1. rcvd' = EndOf(f) /\ rfile' = rfile
      BY <1>3, <1>10, <2>5 DEF Deliver, f
    <3>2. Received' = EndOf(f)
      BY <1>1, <1>4, <2>1, <3>1 DEF Received
    <3>3. EndOf(f) \in 0..FileLen
      BY <1>3, <2>1
    <3>4. TypeOK'
      BY <1>0, <1>1, <1>6, <2>4, <3>1, <3>3 DEF TypeOK
    <3>5. acked_offset <= EndOf(f)
      <4>1. acked_offset \in Nat /\ acked_offset <= rcvd
        BY <1>0, <2>3 DEF TypeOK, AckedIsReceived
      <4> QED BY <1>3, <1>4, <2>1, <4>1
    <3>6. AckedIsReceived'
      BY <1>0, <1>1, <3>2, <3>5, Zenon DEF AckedIsReceived
    <3>7. ASSUME NEW a \in acks'
          PROVE  /\ a.file <= current_file_index
                 /\ a.file = current_file_index => a.offset <= EndOf(f)
      <4>1. CASE a \in acks
        <5>1. a.offset \in Nat /\ a.file <= current_file_index
              /\ (a.file = current_file_index => a.offset <= rcvd)
          BY <1>0, <2>3, <4>1, ZenonT(120) DEF TypeOK, Ack, ReceiverInv
        <5> QED BY <1>3, <1>4, <2>1, <5>1
      <4>2. CASE a = [file |-> rfile, offset |-> EndOf(f)]
        <5>1. a.file = rfile /\ a.offset = EndOf(f)
          BY <4>2
        <5>2. rfile <= rfile /\ EndOf(f) <= EndOf(f)
          BY <1>3, <1>4
        <5> QED BY <2>1, <5>1, <5>2, Zenon
      <4> QED BY <2>2, <4>1, <4>2, Zenon
    <3>8. ReceiverInv'
      <4>1. current_file_index # current_file_index + 1
        BY <1>4
      <4> QED BY <1>0, <1>1, <1>5, <1>7, <2>1, <3>1, <3>2, <3>7, <4>1, Zenon DEF ReceiverInv
    <3> QED BY <1>8, <3>4, <3>6, <3>8, ZenonT(30) DEF IInv
  <2>6. CASE EndOf(f) = FileLen
    <3>1. rcvd' = 0 /\ rfile' = rfile + 1 /\ Emitted = FileLen
      BY <1>4, <1>10, <2>1, <2>6 DEF Deliver, f
    <3>2. Received' = FileLen
      BY <1>1, <1>4, <2>1, <3>1 DEF Received
    <3>3. rfile' \in 0..(LastFile + 1) /\ 0 \in 0..FileLen
      BY <1>0, <1>4, <2>1, <3>1 DEF TypeOK, Files
    <3>4. TypeOK'
      BY <1>0, <1>1, <1>6, <2>4, <3>1, <3>3, ZenonT(120) DEF TypeOK
    <3>5. acked_offset <= FileLen
      <4>1. acked_offset \in Nat /\ acked_offset <= rcvd
        BY <1>0, <2>3 DEF TypeOK, AckedIsReceived
      <4> QED BY <1>4, <2>1, <2>6, <4>1
    <3>6. AckedIsReceived'
      BY <1>0, <1>1, <3>2, <3>5 DEF AckedIsReceived
    <3>7. ASSUME NEW a \in acks'
          PROVE  /\ a.file <= current_file_index
                 /\ a.file = current_file_index => a.offset <= FileLen
      <4>1. CASE a \in acks
        <5>1. a.offset \in Nat /\ a.file <= current_file_index
              /\ (a.file = current_file_index => a.offset <= rcvd)
          BY <1>0, <2>3, <4>1, Zenon DEF TypeOK, Ack, ReceiverInv
        <5> QED BY <1>4, <2>1, <2>6, <5>1
      <4>2. CASE a = [file |-> rfile, offset |-> EndOf(f)]
        BY <1>4, <2>1, <2>6, <4>2
      <4> QED BY <2>2, <4>1, <4>2
    <3>8. ReceiverInv'
      BY <1>0, <1>1, <1>4, <1>5, <1>7, <2>1, <3>1, <3>2, <3>7, ZenonT(120) DEF ReceiverInv
    <3> QED BY <1>8, <3>4, <3>6, <3>8 DEF IInv
  <2> QED BY <1>3, <2>1, <2>5, <2>6
<1> QED
  BY <1>9, <1>10

-----------------------------------------------------------------------------
\* One step: the actions of Next, each by its own lemma.
LEMMA NextInv ==
    ASSUME RecordReplayed, IInv, [Next]_vars
    PROVE  IInv'
<1>1. CASE UNCHANGED vars
  <2>1. TypeOK'
    BY <1>1 DEF IInv, TypeOK, vars, controlVars, producerVars, netVars, receiverVars
  <2> QED
    BY <1>1, <2>1, InertStep, Zenon DEF vars, controlVars, producerVars, netVars, receiverVars
<1>2. CASE Producer
  BY <1>2, CreditSteps, PushStep, SendSteps, RecordStep, ReconnectSteps, ReplaySteps,
     RecordReplayStep, ReplayDoneStep, FileCompleteStep, Zenon DEF Producer
<1>3. CASE AckArrives \/ ResumeArrives
  BY <1>3, AckStep, ResumeStep
<1>4. CASE \E c \in Conns : Break(c)
  BY <1>4, BreakStep
<1>5. CASE Deliver
  BY <1>5, DeliverStep
<1>6. CASE \/ ClientCancels \/ ResumeRefused \/ Reconnect
           \/ WatchdogCheck \/ WatchdogCancel \/ TimePasses
           \/ \E c \in Conns : Close(c)
  BY <1>6, BystanderSteps
<1> QED
  BY <1>1, <1>2, <1>3, <1>4, <1>5, <1>6, Zenon DEF Next

\* The invariant implies what the runs check.
LEMMA InvImplies ==
    ASSUME IInv
    PROVE  TypeOK /\ AckedIsReceived /\ CreditWindow /\ RingTail
<1>1. CreditWindow
  <2>1. /\ sent_offset \in Nat /\ acked_offset \in Nat /\ RingEnd \in Nat
        /\ sent_offset <= RingEnd
    BY Offsets DEF IInv, TypeOK, RingInv
  <2>2. RingEnd - acked_offset <= WindowBytes \/ RingEnd - acked_offset <= MaxChunk
    BY Zenon DEF IInv, WindowInv
  <2> QED BY <2>1, <2>2 DEF CreditWindow, in_flight
<1>2. RingTail
  BY DEF IInv, TypeOK, RingInv, ProducerInv, RingEnd, RingTail, Abut, AwaitsResume, Pushed,
         Registered
<1> QED
  BY <1>1, <1>2 DEF IInv

\* IInv always holds.
THEOREM Invariance == RecordReplayed => (Spec => []IInv)
<1> SUFFICES ASSUME RecordReplayed PROVE Spec => []IInv
  OBVIOUS
<1>1. IInv /\ [Next]_vars => IInv'
  BY NextInv
<1> QED
  BY <1>1, InitInv, PTL DEF Spec

\* Every field keeps its type; offsets stay within the file.
THEOREM TypeCorrect == RecordReplayed => (Spec => []TypeOK)
<1> SUFFICES ASSUME RecordReplayed PROVE Spec => []TypeOK
  OBVIOUS
<1>1. IInv => TypeOK
  BY DEF IInv
<1> QED
  BY <1>1, Invariance, PTL

\* wait_for_credit bounds what is emitted and unacknowledged by the window (or
\* by one chunk where chunks are larger), although it reserves nothing and
\* ACKs, resumes, drops and replays run between the wait and record_sent.
THEOREM WindowRespected == RecordReplayed => (Spec => []CreditWindow)
<1> SUFFICES ASSUME RecordReplayed PROVE Spec => []CreditWindow
  OBVIOUS
<1>1. IInv => CreditWindow
  BY InvImplies
<1> QED
  BY <1>1, Invariance, PTL

\* record_ack, request_resume and advance_to_file release credit only for
\* bytes of the current file that the receiver holds.
THEOREM CreditIsEarned == RecordReplayed => (Spec => []AckedIsReceived)
<1> SUFFICES ASSUME RecordReplayed PROVE Spec => []AckedIsReceived
  OBVIOUS
<1>1. IInv => AckedIsReceived
  BY DEF IInv
<1> QED
  BY <1>1, Invariance, PTL

\* push's debug_assert never fails: the ring is one contiguous run that ends
\* where the producer stands.
THEOREM RingContiguous == RecordReplayed => (Spec => []RingTail)
<1> SUFFICES ASSUME RecordReplayed PROVE Spec => []RingTail
  OBVIOUS
<1>1. IInv => RingTail
  BY InvImplies
<1> QED
  BY <1>1, Invariance, PTL
-----------------------------------------------------------------------------
\* A step keeps the producer's sleep justified.
LEMMA WakeupStep ==
    ASSUME NoMissedWakeup, [Next]_vars
    PROVE  NoMissedWakeup'
<1> USE DEF NoMissedWakeup, AwaitsResume, controlVars, producerVars, netVars, receiverVars
<1>1. CASE UNCHANGED vars
  BY <1>1 DEF vars, HasCredit, in_flight
<1>2. CASE WaitForCredit
  <2>1. CASE CreditSleep(chunk) /\ pc' = pc
    BY <1>2, <2>1 DEF WaitForCredit, CreditSleep, HasCredit, in_flight
  <2>2. CASE ~(CreditSleep(chunk) /\ pc' = pc)
    BY <1>2, <2>2, Zenon DEF WaitForCredit, CreditOk, WaitCancelled, CreditTimeout
  <2> QED BY <2>1, <2>2, Zenon
<1>3. CASE WaitForReconnect
  BY <1>3, Zenon DEF WaitForReconnect, ResumeReady, ReconnectSleep, WaitCancelled, ReconnectTimeout
<1>4. CASE FileComplete
  BY <1>4 DEF FileComplete, advance_to_file, notify_all
<1>5. CASE NextChunk \/ ReadPeer \/ Send \/ ReadNewPeer \/ Replay \/ ReplayDone
  BY <1>5, Zenon DEF NextChunk, ReadPeer, Send, ReadNewPeer, Replay, ReplayDone
<1>6. CASE PushReplay \/ RecordSent \/ RecordReplay
  BY <1>6, Zenon DEF PushReplay, push_replay, RecordSent, RecordReplay, record_sent
<1>7. CASE AckArrives
  BY <1>7, Zenon DEF AckArrives, record_ack, notify_all, HasCredit, in_flight
<1>8. CASE ClientCancels \/ WatchdogCancel \/ ResumeArrives
  BY <1>8, Zenon DEF ClientCancels, WatchdogCancel, cancel, ResumeArrives, request_resume,
              notify_all, HasCredit, in_flight
<1>9. CASE \/ ResumeRefused \/ WatchdogCheck \/ Reconnect \/ Deliver
           \/ \E c \in Conns : Break(c) \/ Close(c)
  BY <1>9, Zenon DEF ResumeRefused, WatchdogCheck, Reconnect, Deliver, Break, Close,
              HasCredit, in_flight
<1>10. CASE TimePasses
  BY <1>10 DEF TimePasses, Tick, HasCredit, in_flight
<1> QED
  BY <1>1, <1>2, <1>3, <1>4, <1>5, <1>6, <1>7, <1>8, <1>9, <1>10, ZenonT(60) DEF Next, Producer

\* While the producer sleeps in wait_for_credit or wait_for_reconnect, it has
\* neither credit, a staged resume nor a cancel: each method that provides
\* one of them notifies the condvar, whatever else runs.
THEOREM NoLostWakeup == Spec => []NoMissedWakeup
<1>1. Init => NoMissedWakeup
  BY DEF Init, ControlInit, NoMissedWakeup
<1>2. NoMissedWakeup /\ [Next]_vars => NoMissedWakeup'
  BY WakeupStep
<1> QED
  BY <1>1, <1>2, PTL DEF Spec
-----------------------------------------------------------------------------
\* The numbers of an Emit step: new is the sent offset after it, end the ring's.
LEMMA EmitNumbers ==
    ASSUME NEW s \in Nat, NEW new \in Nat, NEW end \in Nat, NEW a \in Nat,
           s <= new, new <= end, end <= FileLen, end - s <= MaxChunk,
           end - a <= WindowBytes \/ end - a <= MaxChunk
    PROVE  \/ new = s
           \/ /\ new \in (s + 1)..FileLen /\ new - s <= MaxChunk
              /\ new - a <= WindowBytes \/ new - a <= MaxChunk
<1> QED
  OBVIOUS

\* The numbers of an Acknowledge and of a Receive step.
LEMMA GrowthNumbers ==
    ASSUME NEW old \in Nat, NEW new \in Nat, NEW bound \in Nat, old <= new, new <= bound
    PROVE  new = old \/ new \in (old + 1)..bound
<1> QED
  OBVIOUS

\* An end at most a chunk past s.
LEMMA ReachNumbers ==
    ASSUME NEW r \in Nat, NEW end \in Nat, NEW s \in Nat, r <= end, end - s <= MaxChunk
    PROVE  r <= s + MaxChunk
<1> QED
  OBVIOUS

\* Only the sent offset moves: Emit, or nothing.
LEMMA EmitStep ==
    ASSUME IInv, IInv', sent_offset <= sent_offset', sent_offset' <= RingEnd,
           UNCHANGED <<current_file_index, acked_offset, Received>>
    PROVE  [Flow!Next]_(Flow!flowVars)
<1>1. /\ sent_offset \in Nat /\ sent_offset' \in Nat /\ acked_offset \in Nat
      /\ RingEnd \in Nat /\ RingEnd <= FileLen
  BY Offsets, Zenon DEF IInv, TypeOK
<1>2. /\ RingEnd - sent_offset <= MaxChunk
      /\ RingEnd - acked_offset <= WindowBytes \/ RingEnd - acked_offset <= MaxChunk
  BY DEF IInv, RingInv, WindowInv
<1>3. \/ sent_offset' = sent_offset
      \/ /\ sent_offset' \in (sent_offset + 1)..FileLen
         /\ sent_offset' - sent_offset <= MaxChunk
         /\ \/ sent_offset' - acked_offset <= WindowBytes
            \/ sent_offset' - acked_offset <= MaxChunk
  BY Zenon, <1>1, <1>2, EmitNumbers
<1> QED
  BY <1>3 DEF Flow!Next, Flow!Emit, Flow!WithinWindow, Flow!flowVars

\* Only the acknowledged offset moves: Acknowledge, or nothing.
LEMMA AcknowledgeStep ==
    ASSUME IInv, IInv', acked_offset <= acked_offset',
           UNCHANGED <<current_file_index, sent_offset, Received>>
    PROVE  [Flow!Next]_(Flow!flowVars)
<1>1. /\ sent_offset \in Nat /\ acked_offset \in Nat /\ acked_offset' \in Nat
      /\ acked_offset' <= sent_offset /\ acked_offset' <= Received
  BY DEF IInv, TypeOK, AckedIsReceived
<1>2. acked_offset' = acked_offset \/ acked_offset' \in (acked_offset + 1)..sent_offset
  BY <1>1, GrowthNumbers
<1> QED
  BY <1>1, <1>2, Zenon DEF Flow!Next, Flow!Acknowledge, Flow!flowVars

\* In every state, what is received lies in the ring's range.
ReceivedInRing ==
    /\ Received \in Nat /\ Emitted \in Nat /\ RingEnd \in Nat
    /\ Received <= Emitted /\ Emitted <= RingEnd

\* The same of the state after a step.
LEMMA NextOffsets == IInv' => ReceivedInRing'
<1>1. IInv => ReceivedInRing
  BY Offsets DEF ReceivedInRing
<1> QED
  BY <1>1, PTL

\* Only what is received moves: Receive, or nothing.
LEMMA ReceiveStep ==
    ASSUME IInv, IInv', Received <= Received', RingEnd' = RingEnd,
           UNCHANGED <<current_file_index, sent_offset, acked_offset>>
    PROVE  [Flow!Next]_(Flow!flowVars)
<1>1. /\ Received \in Nat /\ RingEnd \in Nat /\ RingEnd <= FileLen /\ sent_offset \in Nat
  BY Offsets, Zenon DEF IInv, TypeOK
<1>2. Received' \in Nat /\ Received' <= RingEnd
  <2>1. /\ Received' \in Nat /\ Emitted' \in Nat /\ RingEnd' \in Nat
        /\ Received' <= Emitted' /\ Emitted' <= RingEnd'
    BY NextOffsets DEF ReceivedInRing
  <2> QED BY <2>1
<1>3. Received' <= sent_offset + MaxChunk
  <2>1. RingEnd - sent_offset <= MaxChunk
    BY DEF IInv, RingInv
  <2> QED BY <1>1, <1>2, <2>1, ReachNumbers, Zenon
<1>4. Received' = Received \/ Received' \in (Received + 1)..FileLen
  <2>1. Received' <= FileLen
    BY <1>1, <1>2
  <2> QED BY <1>1, <1>2, <2>1, GrowthNumbers
<1> QED
  BY <1>3, <1>4 DEF Flow!Next, Flow!Receive, Flow!flowVars

\* A step of the transfer is a step of WindowedFlow, or moves none of its offsets.
LEMMA FlowStep ==
    ASSUME RecordReplayed, IInv, IInv', [Next]_vars
    PROVE  [Flow!Next]_(Flow!flowVars)
<1> USE DEF controlVars, producerVars, netVars, receiverVars
<1> DEFINE Still == UNCHANGED <<current_file_index, sent_offset, acked_offset, rfile, rcvd>>
<1>0. TypeOK /\ ProducerInv /\ RingInv /\ ReceiverInv
  BY DEF IInv
<1>1. CASE Still
  BY <1>1 DEF Flow!flowVars, Received
<1>2. CASE UNCHANGED vars
  BY <1>1, <1>2 DEF vars
<1>3. CASE \/ NextChunk \/ WaitForCredit \/ PushReplay \/ ReadPeer \/ Send
           \/ WaitForReconnect \/ ReadNewPeer \/ Replay \/ ReplayDone
  <2>1. Still
    BY <1>3, ZenonT(120) DEF NextChunk, WaitForCredit, CreditOk, CreditSleep, WaitCancelled,
                CreditTimeout, PushReplay, push_replay, ReadPeer, Send,
                WaitForReconnect, ResumeReady, ReconnectSleep, ReconnectTimeout,
                ReadNewPeer, Replay, ReplayDone
  <2> QED BY ZenonT(60), <1>1, <2>1
<1>4. CASE \/ ClientCancels \/ ResumeRefused \/ WatchdogCheck \/ WatchdogCancel
           \/ TimePasses \/ Reconnect \/ \E c \in Conns : Break(c) \/ Close(c)
  <2>1. Still
    BY <1>4, Zenon DEF ClientCancels, ResumeRefused, WatchdogCheck, WatchdogCancel, cancel,
                TimePasses, Tick, Reconnect, Break, Close
  <2> QED BY <1>1, <2>1
<1>5. CASE RecordSent
  <2>1. /\ sent_offset \in Nat /\ off \in Nat /\ chunk \in Nat
        /\ sent_offset = off /\ RingEnd = off + chunk
    BY <1>0, <1>5 DEF TypeOK, ProducerInv, RecordSent
  <2>2. sent_offset <= sent_offset' /\ sent_offset' <= RingEnd
    BY <1>5, <2>1 DEF RecordSent, record_sent
  <2>3. UNCHANGED <<current_file_index, acked_offset, Received>>
    BY <1>5 DEF RecordSent, record_sent, Received
  <2> QED BY <2>2, <2>3, EmitStep, Zenon
<1>6. CASE RecordReplay
  <2>1. Emitted \in Nat /\ sent_offset \in Nat /\ Emitted <= RingEnd /\ RingEnd \in Nat
        /\ sent_offset <= Emitted
    BY <1>0, Offsets, Zenon DEF TypeOK
  <2>2. sent_offset' = Emitted
    BY <1>6 DEF RecordReplay, record_sent, Emitted
  <2>3. UNCHANGED <<current_file_index, acked_offset, Received>>
    BY <1>6 DEF RecordReplay, record_sent, Received
  <2> QED BY <2>1, <2>2, <2>3, EmitStep, Zenon
<1>7. CASE AckArrives
  <2>1. PICK a \in acks : record_ack(a.file, a.offset)
    BY <1>7 DEF AckArrives
  <2>2. a.offset \in Nat /\ sent_offset \in Nat /\ acked_offset \in Nat
    BY <1>0 DEF TypeOK, Ack
  <2>3. acked_offset <= acked_offset'
    BY <2>1, <2>2 DEF record_ack, Releases
  <2>4. UNCHANGED <<current_file_index, sent_offset, Received>>
    BY <1>7, <2>1 DEF AckArrives, record_ack, Received
  <2> QED BY <2>3, <2>4, AcknowledgeStep, Zenon
<1>8. CASE ResumeArrives
  <2>1. rcvd \in Nat /\ acked_offset \in Nat
    BY <1>0 DEF TypeOK
  <2>2. acked_offset <= acked_offset'
    BY <1>8, <2>1 DEF ResumeArrives, request_resume
  <2>3. UNCHANGED <<current_file_index, sent_offset, Received>>
    BY <1>8 DEF ResumeArrives, request_resume, Received
  <2> QED BY <2>2, <2>3, AcknowledgeStep, Zenon
<1>9. CASE FileComplete
  <2>1. CASE current_file_index < LastFile
    <3>1. /\ current_file_index \in Nat /\ rfile = current_file_index + 1 /\ rcvd = 0
      BY <1>0, <1>9 DEF TypeOK, Files, ReceiverInv, FileComplete
    <3>2. sent_offset = FileLen /\ Received = FileLen
      <4>1. sent_offset = FileLen
        BY <1>0, <1>9, <3>1, Zenon DEF ReceiverInv, Emitted, FileComplete, AwaitsResume
      <4>2. Received = FileLen
        BY <1>9, Zenon DEF FileComplete, Received
      <4> QED BY <4>1, <4>2
    <3>3. /\ current_file_index' = current_file_index + 1
          /\ sent_offset' = 0 /\ acked_offset' = 0 /\ rfile' = rfile /\ rcvd' = rcvd
      BY <1>9, <2>1 DEF FileComplete, advance_to_file
    <3>4. Received' = 0
      BY <3>1, <3>3 DEF Received
    <3> QED BY <3>2, <3>3, <3>4, Zenon DEF Flow!Next, Flow!NextFile
  <2>2. CASE ~(current_file_index < LastFile)
    BY <1>1, <1>9, <2>2, ZenonT(60) DEF FileComplete
  <2> QED BY <2>1, <2>2
<1>10. CASE Deliver
  <2> DEFINE f == Head(wire[conn])
  <2>1. /\ UNCHANGED <<controlVars, producerVars>>
        /\ conn \in Conns /\ wire[conn] \in Seq(Frame) /\ wire[conn] # <<>>
    BY <1>0, <1>10, ZenonT(60) DEF TypeOK, Deliver
  <2>2. /\ EndOf(f) \in Nat /\ f.offset <= EndOf(f) /\ f.offset \in Nat
        /\ f.file <= current_file_index /\ f.file \in Nat
    <3>1. f \in Frame /\ f = wire[conn][1] /\ 1 \in 1..Len(wire[conn])
      BY Zenon, <2>1, HeadFacts
    <3>2. /\ f.file \in Nat /\ f.offset \in Nat /\ f.data_len \in Nat
          /\ EndOf(f) = f.offset + f.data_len
      BY <3>1, FrameFacts, Zenon DEF EndOf
    <3>3. f.file <= current_file_index
      BY <1>0, <2>1, <3>1, Zenon DEF ReceiverInv
    <3> HIDE DEF f
    <3> QED BY <3>2, <3>3
  <2>3. /\ current_file_index \in Nat /\ rfile \in Nat /\ rcvd \in Nat /\ rcvd <= FileLen
        /\ rfile \in {current_file_index, current_file_index + 1}
    <3>1. /\ current_file_index \in Files /\ rfile \in 0..(LastFile + 1) /\ rcvd \in 0..FileLen
          /\ rfile \in {current_file_index, current_file_index + 1}
      BY <1>0, Zenon DEF TypeOK, ReceiverInv
    <3> QED BY <3>1 DEF Files
  <2>4. Received <= Received'
    <3>1. CASE f.file = rfile /\ f.offset = rcvd
      <4>1. rfile = current_file_index
        <5> HIDE DEF f
        <5> QED BY <2>2, <2>3, <3>1
      <4>2. EndOf(f) <= Emitted /\ Emitted <= FileLen /\ Emitted \in Nat
        <5>1. f = wire[conn][1] /\ 1 \in 1..Len(wire[conn])
          BY <2>1, HeadFacts, Zenon
        <5>2. Emitted <= FileLen /\ Emitted \in Nat
          BY Offsets, ConstantFacts
        <5> QED BY <1>0, <2>1, <3>1, <4>1, <5>1, <5>2, Zenon DEF ReceiverInv
      <4>3. CASE EndOf(f) < FileLen
        <5>1. EndOf(f) # FileLen
          BY <2>2, <4>3
        <5>2. rcvd' = EndOf(f) /\ rfile' = rfile
          BY <1>10, <3>1, <4>3, <5>1, Zenon DEF Deliver
        <5>3. ~(rfile > current_file_index)
          BY <2>3, <4>1
        <5>4. Received = rcvd /\ Received' = EndOf(f)
          BY <2>1, <5>2, <5>3, Zenon DEF Received, controlVars
        <5> QED BY <2>2, <3>1, <5>4, Zenon
      <4>4. CASE EndOf(f) = FileLen
        <5>1. rfile' = rfile + 1
          BY <1>10, <3>1, <4>4, Zenon DEF Deliver
        <5>2. rfile + 1 > current_file_index /\ ~(rfile > current_file_index)
          BY <2>3, <4>1
        <5>3. Received = rcvd /\ Received' = FileLen
          BY <2>1, <5>1, <5>2, Zenon DEF Received, controlVars
        <5> QED BY <2>3, <5>3, Zenon
      <4>5. EndOf(f) < FileLen \/ EndOf(f) = FileLen
        <5> HIDE DEF f
        <5> QED BY <2>2, <4>2
      <4> QED BY <4>3, <4>4, <4>5, Zenon
    <3>2. CASE ~(f.file = rfile /\ f.offset = rcvd)
      <4>1. rcvd' = rcvd /\ rfile' = rfile
        BY <1>10, <3>2, Zenon DEF Deliver
      <4>2. Received' = Received
        BY <2>1, <4>1, Zenon DEF Received, controlVars
      <4>3. Received \in Nat
        BY Offsets, Zenon
      <4> QED BY <4>2, <4>3
    <3> QED BY <3>1, <3>2, Zenon
  <2>5. RingEnd' = RingEnd
    BY <2>1 DEF RingEnd
  <2> QED BY ZenonT(120), <2>1, <2>4, <2>5, ReceiveStep
<1> QED
  BY <1>2, <1>3, <1>4, <1>5, <1>6, <1>7, <1>8, <1>9, <1>10, ZenonT(60) DEF Next, Producer

\* The transfer implements WindowedFlow: whatever breaks, per file the emitted
\* offset runs at most a window ahead of the acknowledged one, credit and
\* receipt only grow, and a file is left only when it has arrived whole.
THEOREM ImplementsFlow == RecordReplayed => (Spec => FlowControl)
<1> SUFFICES ASSUME RecordReplayed PROVE Spec => FlowControl
  OBVIOUS
<1>1. Init => Flow!Init
  BY DEF Init, ControlInit, Flow!Init, Received
<1>2. IInv /\ IInv' /\ [Next]_vars => [Flow!Next]_(Flow!flowVars)
  BY FlowStep
<1> QED
  BY <1>1, <1>2, Invariance, PTL DEF Spec, FlowControl, Flow!Spec
=============================================================================
