------------------------ MODULE StreamTransferProofs ------------------------
(***************************************************************************)
(* Every step of StreamTransfer preserves one invariant, IInv, that relates*)
(* the credit counters, the replay ring, the producer's position and what  *)
(* the connections and the receiver hold.  One lemma per action or group   *)
(* of like actions: here the producer's and those that move no offset, in  *)
(* StreamTheorems the rest and the conclusions.                            *)
(***************************************************************************)
EXTENDS StreamTransfer, FiniteSetTheorems, TLAPS

(***************************************************************************)
(* Facts about the replay ring, for every capacity and every contents.     *)
(***************************************************************************)
\* A set of indices up to n has at most n elements.
LEMMA IndicesUpTo ==
    ASSUME NEW n \in Nat, NEW S, S \subseteq 1..n
    PROVE  Cardinality(S) \in 0..n
<1>1. IsFiniteSet(1..n) /\ Cardinality(1..n) = n
  BY FS_Interval
<1>2. Cardinality(S) <= Cardinality(1..n) /\ Cardinality(S) \in Nat
  BY Zenon, <1>1, FS_Subset, FS_CardinalityType
<1> QED
  BY <1>1, <1>2

\* Chunks of a ring ascend without overlap, and consecutive ones abut.
Abut(ring) == \A i \in 1..(Len(ring) - 1) : ring[i + 1].offset = EndOf(ring[i])

Ascends(ring) ==
    \A i, j \in 1..Len(ring) : i < j => EndOf(ring[i]) <= ring[j].offset

\* A chunk's offsets are natural numbers.
LEMMA ChunkFacts ==
    ASSUME NEW c \in RingChunk
    PROVE  c.offset \in Nat /\ c.data_len \in Nat /\ EndOf(c) \in Nat
<1> QED
  BY DEF RingChunk, EndOf

\* A suffix of a ring is a ring with the same newest chunk.
LEMMA SuffixOfRing ==
    ASSUME NEW ring \in Seq(RingChunk), NEW k \in 1..Len(ring)
    PROVE  LET s == SubSeq(ring, k, Len(ring))
           IN  /\ s \in Seq(RingChunk) /\ s # <<>>
               /\ Newest(s) = Newest(ring)
               /\ Abut(ring) => Abut(s)
               /\ Ascends(ring) => Ascends(s)
<1> DEFINE s == SubSeq(ring, k, Len(ring))
<1>1. /\ s \in Seq(RingChunk) /\ Len(s) = Len(ring) - k + 1
      /\ \A i \in 1..Len(s) : s[i] = ring[k + i - 1]
  OBVIOUS
<1> HIDE DEF s
<1>2. s # <<>> /\ Newest(s) = Newest(ring)
  <2>1. Len(s) \in 1..Len(s) /\ k + Len(s) - 1 = Len(ring)
    BY <1>1
  <2>2. s[Len(s)] = ring[k + Len(s) - 1]
    BY <2>1, <1>1
  <2>3. s # <<>>
    BY <2>1
  <2> QED BY <2>1, <2>2, <2>3 DEF Newest
<1>3. ASSUME Abut(ring) PROVE Abut(s)
  <2> SUFFICES ASSUME NEW i \in 1..(Len(s) - 1)
               PROVE  s[i + 1].offset = EndOf(s[i])
    BY DEF Abut
  <2>1. s[i] = ring[k + i - 1] /\ s[i + 1] = ring[k + i]
    BY <1>1
  <2>2. k + i - 1 \in 1..(Len(ring) - 1) /\ (k + i - 1) + 1 = k + i
    BY <1>1
  <2> QED BY <2>1, <2>2, <1>3 DEF Abut
<1>4. ASSUME Ascends(ring) PROVE Ascends(s)
  <2> SUFFICES ASSUME NEW i \in 1..Len(s), NEW j \in 1..Len(s), i < j
               PROVE  EndOf(s[i]) <= s[j].offset
    BY DEF Ascends
  <2>1. s[i] = ring[k + i - 1] /\ s[j] = ring[k + j - 1]
    BY <1>1
  <2>2. /\ k + i - 1 \in 1..Len(ring) /\ k + j - 1 \in 1..Len(ring)
        /\ k + i - 1 < k + j - 1
    BY <1>1
  <2> QED BY <2>1, <2>2, <1>4, Zenon DEF Ascends
<1> QED
  BY <1>1, <1>2, <1>3, <1>4 DEF s

\* ReplayRing::push keeps a suffix of the grown ring that has the new chunk.
LEMMA PushIsSuffix ==
    ASSUME NEW ring \in Seq(RingChunk), NEW c \in RingChunk
    PROVE  \E k \in 1..(Len(ring) + 1) :
              push(ring, c) = SubSeq(Append(ring, c), k, Len(Append(ring, c)))
<1> DEFINE grown == Append(ring, c)
           S == {i \in 1..(Len(grown) - 1) :
                    WireBytes(SubSeq(grown, i, Len(grown))) > RingCapacity}
<1>1. grown \in Seq(RingChunk) /\ Len(grown) = Len(ring) + 1
  OBVIOUS
<1>2. Cardinality(S) \in 0..Len(ring)
  <2>1. S \subseteq 1..Len(ring)
    BY <1>1
  <2> QED BY <2>1, IndicesUpTo
<1>3. push(ring, c) = SubSeq(grown, Cardinality(S) + 1, Len(grown))
  BY <1>1 DEF push, Evicted
<1> HIDE DEF S
<1>4. Cardinality(S) + 1 \in 1..(Len(ring) + 1)
  BY <1>2
<1> QED
  BY <1>3, <1>4, Zenon DEF grown

\* What push leaves, when the chunk continues the ring.
LEMMA PushFacts ==
    ASSUME NEW ring \in Seq(RingChunk), NEW c \in RingChunk
    PROVE  /\ push(ring, c) \in Seq(RingChunk) /\ push(ring, c) # <<>>
           /\ Newest(push(ring, c)) = c
           /\ Abut(ring) /\ Ascends(ring) /\ c.offset = highest_end_offset(ring)
              => Abut(push(ring, c)) /\ Ascends(push(ring, c))
<1> DEFINE grown == Append(ring, c)
<1>1. /\ grown \in Seq(RingChunk) /\ Len(grown) = Len(ring) + 1
      /\ \A i \in 1..Len(ring) : grown[i] = ring[i]
      /\ grown[Len(ring) + 1] = c
  OBVIOUS
<1>2. PICK k \in 1..Len(grown) : push(ring, c) = SubSeq(grown, k, Len(grown))
  BY <1>1, PushIsSuffix, Zenon
<1>3. Newest(grown) = c
  BY <1>1 DEF Newest
<1> HIDE DEF grown
<1>4. ASSUME Abut(ring), Ascends(ring), c.offset = highest_end_offset(ring)
      PROVE  Abut(grown) /\ Ascends(grown)
  <2>1. \A i \in 1..Len(ring) : ring[i] \in RingChunk
    OBVIOUS
  <2>2. ring # <<>> => c.offset = EndOf(ring[Len(ring)]) /\ Len(ring) \in 1..Len(ring)
    BY <1>4 DEF highest_end_offset, Newest
  <2>3. \A i \in 1..Len(ring) : EndOf(ring[i]) <= c.offset
    <3> SUFFICES ASSUME NEW i \in 1..Len(ring) PROVE EndOf(ring[i]) <= c.offset
      OBVIOUS
    <3>1. CASE i = Len(ring)
      BY <3>1, <2>1, <2>2 DEF EndOf, RingChunk
    <3>2. CASE i < Len(ring)
      <4>1. EndOf(ring[i]) <= ring[Len(ring)].offset
        BY <3>2, <1>4 DEF Ascends
      <4>2. /\ ring[Len(ring)].offset \in Nat /\ ring[Len(ring)].data_len \in Nat
            /\ EndOf(ring[i]) \in Nat
        <5>1. ring[Len(ring)] \in RingChunk /\ ring[i] \in RingChunk
          BY <3>2, <2>1
        <5> QED BY <5>1, ChunkFacts, Zenon
      <4>3. c.offset = ring[Len(ring)].offset + ring[Len(ring)].data_len
        BY <3>2, <2>2 DEF EndOf
      <4> QED BY <4>1, <4>2, <4>3
    <3> QED BY <3>1, <3>2
  <2>4. Abut(grown)
    BY <1>1, <1>4, <2>2 DEF Abut
  <2>5. Ascends(grown)
    BY <1>1, <1>4, <2>3, SMTT(60) DEF Ascends
  <2> QED BY <2>4, <2>5
<1> QED
  BY <1>1, <1>2, <1>3, <1>4, SuffixOfRing

\* replay_from keeps a suffix, empty only past the newest chunk's offset.
LEMMA ReplayFacts ==
    ASSUME NEW ring \in Seq(RingChunk), ring # <<>>, NEW o \in Nat
    PROVE  LET r == replay_from(ring, o)
           IN  \/ r = <<>> /\ Newest(ring).offset < o
               \/ \E k \in 1..Len(ring) : r = SubSeq(ring, k, Len(ring))
<1> DEFINE S == {i \in DOMAIN ring : ring[i].offset < o}
<1>1. Len(ring) \in Nat \ {0} /\ DOMAIN ring = 1..Len(ring)
  OBVIOUS
<1>2. Cardinality(S) \in 0..Len(ring)
  BY <1>1, IndicesUpTo
<1>3. Cardinality(S) = Len(ring) => S = 1..Len(ring)
  <2>1. IsFiniteSet(1..Len(ring)) /\ Cardinality(1..Len(ring)) = Len(ring)
    BY <1>1, FS_Interval
  <2>2. S \in SUBSET (1..Len(ring))
    BY <1>1
  <2> HIDE DEF S
  <2> QED BY Zenon, <2>1, <2>2, FS_Subset
<1>4. S = 1..Len(ring) => Newest(ring).offset < o
  BY <1>1 DEF Newest
<1>5. replay_from(ring, o) = SubSeq(ring, Cardinality(S) + 1, Len(ring))
  BY DEF replay_from
<1> HIDE DEF S
<1>6. CASE Cardinality(S) = Len(ring)
  BY <1>1, <1>3, <1>4, <1>5, <1>6
<1>7. CASE Cardinality(S) < Len(ring)
  <2>1. Cardinality(S) + 1 \in 1..Len(ring)
    BY <1>1, <1>2, <1>7
  <2> QED BY Zenon, <2>1, <1>5
<1> QED
  BY <1>1, <1>2, <1>6, <1>7

\* The newest chunk and the end of a ring, in numbers.
LEMMA RingEndFacts ==
    ASSUME NEW ring \in Seq(RingChunk)
    PROVE  /\ highest_end_offset(ring) \in Nat
           /\ ring = <<>> => highest_end_offset(ring) = 0
           /\ ring # <<>> =>
                /\ Newest(ring) \in RingChunk
                /\ highest_end_offset(ring) = Newest(ring).offset + Newest(ring).data_len
<1>1. ring # <<>> => Newest(ring) \in RingChunk
  BY DEF Newest
<1> QED
  BY <1>1 DEF highest_end_offset, EndOf, RingChunk

\* Re-emitting a non-empty list: its head ends before the newest chunk starts
\* or is that chunk, and the rest is again such a list.
LEMMA EmitFacts ==
    ASSUME NEW kept \in Seq(RingChunk), kept # <<>>, Ascends(kept)
    PROVE  /\ Head(kept) \in RingChunk /\ Tail(kept) \in Seq(RingChunk)
           /\ Tail(kept) = <<>> => Head(kept) = Newest(kept)
           /\ Tail(kept) # <<>> => /\ Newest(Tail(kept)) = Newest(kept)
                                  /\ Ascends(Tail(kept))
                                  /\ EndOf(Head(kept)) <= Newest(kept).offset
<1>1. Len(kept) \in Nat \ {0} /\ Head(kept) = kept[1] /\ kept[1] \in RingChunk
  OBVIOUS
<1>2. /\ Tail(kept) \in Seq(RingChunk) /\ Len(Tail(kept)) = Len(kept) - 1
      /\ \A i \in 1..Len(Tail(kept)) : Tail(kept)[i] = kept[i + 1]
  OBVIOUS
<1>3. Tail(kept) = <<>> => Head(kept) = Newest(kept)
  BY <1>1, <1>2 DEF Newest
<1>4. ASSUME Tail(kept) # <<>>
      PROVE  /\ Newest(Tail(kept)) = Newest(kept)
             /\ Ascends(Tail(kept))
             /\ EndOf(Head(kept)) <= Newest(kept).offset
  <2>1. Len(kept) > 1 /\ Len(Tail(kept)) \in 1..Len(Tail(kept))
    BY <1>1, <1>2, <1>4
  <2>2. Newest(Tail(kept)) = Newest(kept)
    <3>1. Tail(kept)[Len(Tail(kept))] = kept[Len(Tail(kept)) + 1]
      BY <1>2, <2>1
    <3>2. Len(Tail(kept)) + 1 = Len(kept)
      BY <1>1, <1>2
    <3> QED BY <3>1, <3>2, Zenon DEF Newest
  <2>3. Ascends(Tail(kept))
    <3> SUFFICES ASSUME NEW i \in 1..Len(Tail(kept)), NEW j \in 1..Len(Tail(kept)), i < j
                 PROVE  EndOf(Tail(kept)[i]) <= Tail(kept)[j].offset
      BY DEF Ascends
    <3>1. Tail(kept)[i] = kept[i + 1] /\ Tail(kept)[j] = kept[j + 1]
      BY <1>2
    <3>2. i + 1 \in 1..Len(kept) /\ j + 1 \in 1..Len(kept) /\ i + 1 < j + 1
      BY <1>1, <1>2
    <3> QED BY <3>1, <3>2 DEF Ascends
  <2>4. EndOf(Head(kept)) <= Newest(kept).offset
    BY <1>1, <2>1 DEF Ascends, Newest
  <2> QED BY <2>2, <2>3, <2>4
<1> QED
  BY <1>1, <1>2, <1>3, <1>4
-----------------------------------------------------------------------------
(***************************************************************************)
(* The inductive invariant.                                                *)
(***************************************************************************)
RingEnd == highest_end_offset(replay)

\* The last byte of the current file that has ever been handed to a
\* connection; ahead of sent_offset between a send and its record_sent.
Emitted ==
    IF pc = "record" THEN off + chunk
    ELSE IF pc = "rerecord" /\ EndOf(Head(emit)) > sent_offset
         THEN EndOf(Head(emit)) ELSE sent_offset

RingInv ==
    /\ Abut(replay) /\ Ascends(replay)
    /\ sent_offset <= RingEnd /\ RingEnd <= FileLen
    /\ RingEnd - sent_offset <= MaxChunk
    /\ replay # <<>> => sent_offset \in {RingEnd, Newest(replay).offset}

ProducerInv ==
    /\ pc \in {"next", "credit", "push"} =>
          sent_offset = off /\ RingEnd = off /\ off < FileLen
    /\ pc \in {"credit", "push"} => chunk > 0 /\ off + chunk <= FileLen
    /\ pc = "push" => HasCredit(chunk)
    /\ pc \in {"peer", "send", "record"} =>
          sent_offset = off /\ RingEnd = off + chunk
    /\ pc = "await" =>
          off = FileLen /\ RingEnd = FileLen /\ sent_offset = FileLen
    /\ pc \in {"peer", "send", "record", "reconnect", "await", "swap", "replay", "rerecord"}
          => replay # <<>>

ReplayInv ==
    pc \in {"swap", "replay", "rerecord"} =>
        /\ emit = <<>> => pc # "rerecord" /\ sent_offset = RingEnd
        /\ emit # <<>> => Newest(emit) = Newest(replay) /\ Ascends(emit)

WindowInv == RingEnd - acked_offset <= WindowBytes \/ RingEnd - acked_offset <= MaxChunk

ReceiverInv ==
    /\ rfile \in {current_file_index, current_file_index + 1}
    /\ rfile = current_file_index => rcvd <= Emitted
    /\ rfile = current_file_index + 1 => rcvd = 0 /\ Emitted = FileLen
    /\ \A c \in Conns : \A i \in 1..Len(wire[c]) :
          /\ wire[c][i].file <= current_file_index
          /\ wire[c][i].file = current_file_index => EndOf(wire[c][i]) <= Emitted
    /\ \A a \in acks : /\ a.file <= current_file_index
                       /\ a.file = current_file_index => a.offset <= Received
    /\ pending_resume # None => pending_resume <= Emitted

IInv == /\ TypeOK /\ AckedIsReceived /\ RingInv /\ ProducerInv /\ ReplayInv
        /\ WindowInv /\ ReceiverInv

\* The constants, as the steps need them.
LEMMA ConstantFacts ==
    /\ WindowBytes \in Nat /\ IdleTimeout \in Nat /\ None \notin Nat
    /\ FileLen \in Nat /\ FileLen > 0 /\ LastFile \in Nat
    /\ LastConn \in Nat /\ LastConn > 0 /\ MaxChunk \in Nat
<1> QED
  BY ControlAssumption, StreamAssumption

USE ConstantFacts
-----------------------------------------------------------------------------
\* The offsets of a state, in order.
LEMMA Offsets ==
    ASSUME IInv
    PROVE  /\ RingEnd \in Nat /\ Emitted \in Nat /\ Received \in Nat
           /\ acked_offset <= sent_offset /\ sent_offset <= Emitted
           /\ Emitted <= RingEnd /\ RingEnd <= FileLen
           /\ Received <= Emitted
<1>1. /\ RingEnd \in Nat /\ sent_offset \in Nat /\ acked_offset \in Nat
      /\ off \in Nat /\ chunk \in Nat /\ FileLen \in Nat
      /\ current_file_index \in Nat /\ rfile \in Nat /\ rcvd \in Nat
  BY RingEndFacts DEF IInv, TypeOK, RingEnd, Files
<1>2. ASSUME pc = "rerecord"
      PROVE  EndOf(Head(emit)) \in Nat /\ EndOf(Head(emit)) <= RingEnd
  <2>1. /\ emit # <<>> /\ Newest(emit) = Newest(replay) /\ Ascends(emit)
        /\ replay # <<>> /\ emit \in Seq(RingChunk) /\ replay \in Seq(RingChunk)
    BY <1>2 DEF IInv, ReplayInv, ProducerInv, TypeOK
  <2>2. /\ Newest(replay).offset \in Nat /\ Newest(replay).data_len \in Nat
        /\ RingEnd = Newest(replay).offset + Newest(replay).data_len
    BY <2>1, RingEndFacts DEF RingEnd, RingChunk
  <2>3. EndOf(Head(emit)) \in Nat
    BY <2>1, EmitFacts, ChunkFacts, Zenon
  <2>4. EndOf(Head(emit)) <= Newest(replay).offset \/ EndOf(Head(emit)) = RingEnd
    <3>1. EndOf(Newest(replay)) = RingEnd
      BY <2>2, Zenon DEF EndOf
    <3> QED BY <2>1, <3>1, EmitFacts, Zenon
  <2> QED BY <2>2, <2>3, <2>4
<1>3. /\ Emitted \in Nat /\ sent_offset <= Emitted /\ Emitted <= RingEnd
  <2>1. sent_offset <= RingEnd /\ (pc = "record" => sent_offset = off /\ RingEnd = off + chunk)
    BY DEF IInv, RingInv, ProducerInv
  <2> QED BY <1>1, <1>2, <2>1 DEF Emitted
<1>4. Received \in Nat /\ Received <= Emitted
  BY <1>1, <1>3 DEF Received, IInv, ReceiverInv
<1> QED
  BY <1>1, <1>3, <1>4 DEF IInv, AckedIsReceived, RingInv

\* The initial state.
LEMMA InitInv == Init => IInv
<1> SUFFICES ASSUME Init PROVE IInv
  OBVIOUS
<1> USE DEF Init, ControlInit
<1>1. TypeOK
  <2>1. link \in [Conns -> {"unused", "up", "broken", "closed"}]
    OBVIOUS
  <2>2. <<>> \in Seq(Frame) /\ <<>> \in Seq(RingChunk)
    OBVIOUS
  <2>3. wire \in [Conns -> Seq(Frame)]
    BY <2>2
  <2>4. 1 \in Conns /\ 0 \in Files /\ 0 \in 0..(LastFile + 1) /\ 0 \in 0..IdleTimeout
        /\ 0 \in 0..FileLen /\ 0 \in 0..MaxChunk
    BY DEF Conns, Files
  <2> QED BY <2>1, <2>2, <2>3, <2>4, Zenon DEF TypeOK
<1>2. RingEnd = 0 /\ Emitted = 0 /\ Received = 0
  BY DEF RingEnd, highest_end_offset, Emitted, Received
<1>3. RingInv /\ ProducerInv /\ ReplayInv /\ WindowInv
  BY <1>2 DEF RingInv, ProducerInv, ReplayInv, WindowInv, Abut, Ascends
<1>4. AckedIsReceived /\ ReceiverInv
  BY <1>2 DEF AckedIsReceived, ReceiverInv
<1> QED
  BY <1>1, <1>3, <1>4 DEF IInv

\* A step that leaves every offset alone.
LEMMA InertStep ==
    ASSUME IInv, TypeOK',
           UNCHANGED <<sent_offset, acked_offset, current_file_index, replay,
                       pending_resume, pc, off, chunk, emit, wire, acks, rfile, rcvd>>
    PROVE  IInv'
<1> USE DEF IInv
<1>1. RingEnd' = RingEnd /\ Emitted' = Emitted /\ Received' = Received
  BY DEF RingEnd, Emitted, Received
<1>2. RingInv' /\ WindowInv'
  BY <1>1 DEF RingInv, WindowInv
<1>3. ProducerInv' /\ ReplayInv'
  BY <1>1, Zenon DEF ProducerInv, ReplayInv, HasCredit, in_flight
<1>4. AckedIsReceived' /\ ReceiverInv'
  BY <1>1 DEF AckedIsReceived, ReceiverInv
<1> QED
  BY <1>2, <1>3, <1>4

\* A step of the producer that moves no offset and sends nothing.
LEMMA MoveStep ==
    ASSUME IInv, TypeOK', ProducerInv', ReplayInv',
           pc \notin {"record", "rerecord"}, pc' \notin {"record", "rerecord"},
           UNCHANGED <<sent_offset, acked_offset, current_file_index, replay,
                       pending_resume, wire, acks, rfile, rcvd>>
    PROVE  IInv'
<1> USE DEF IInv
<1>1. RingEnd' = RingEnd /\ Emitted' = Emitted /\ Received' = Received
  BY DEF RingEnd, Emitted, Received
<1>2. RingInv' /\ WindowInv'
  BY <1>1, Zenon DEF RingInv, WindowInv
<1>3. AckedIsReceived' /\ ReceiverInv'
  BY <1>1 DEF AckedIsReceived, ReceiverInv
<1> QED
  BY <1>2, <1>3

\* Cancel, watchdog, clock, refusals, teardown and reconnection move nothing.
LEMMA BystanderSteps ==
    ASSUME IInv,
           \/ ClientCancels \/ ResumeRefused \/ Reconnect
           \/ WatchdogCheck \/ WatchdogCancel \/ TimePasses
           \/ \E c \in Conns : Close(c)
    PROVE  IInv'
<1> USE DEF controlVars, producerVars, netVars, receiverVars
<1>0. TypeOK
  BY DEF IInv
<1>1. CASE ClientCancels
  <2>1. TypeOK'
    BY <1>0, <1>1, ZenonT(120) DEF TypeOK, ClientCancels, cancel, notify_all, Reasons
  <2> QED BY <1>1, <2>1, InertStep, Zenon DEF ClientCancels, cancel
<1>2. CASE ResumeRefused
  <2>1. TypeOK'
    BY <1>0, <1>2 DEF TypeOK, ResumeRefused
  <2> QED BY <1>2, <2>1, InertStep DEF ResumeRefused
<1>3. CASE Reconnect
  <2>1. conn + 1 \in Conns
    BY <1>0, <1>3 DEF TypeOK, Reconnect, Conns
  <2>2. TypeOK'
    BY <1>0, <1>3, <2>1, ZenonT(30) DEF TypeOK, Reconnect
  <2> QED BY <1>3, <2>2, InertStep, Zenon DEF Reconnect
<1>4. CASE WatchdogCheck
  <2>1. TypeOK'
    BY <1>0, <1>4, ZenonT(60) DEF TypeOK, WatchdogCheck
  <2> QED BY <1>4, <2>1, InertStep DEF WatchdogCheck
<1>5. CASE WatchdogCancel
  <2>1. TypeOK'
    BY <1>0, <1>5, ZenonT(120) DEF TypeOK, WatchdogCancel, cancel, notify_all, Reasons
  <2> QED BY <1>5, <2>1, InertStep, ZenonT(120) DEF WatchdogCancel, cancel
<1>6. CASE TimePasses
  <2>1. idle' \in 0..IdleTimeout
    BY <1>0, <1>6 DEF TypeOK, TimePasses, Tick
  <2>2. TypeOK'
    BY <1>0, <1>6, <2>1 DEF TypeOK, TimePasses, Tick
  <2> QED BY <1>6, <2>2, InertStep DEF TimePasses, Tick
<1>7. ASSUME NEW c \in Conns, Close(c) PROVE IInv'
  <2>1. TypeOK'
    BY <1>0, <1>7 DEF TypeOK, Close
  <2> QED BY <1>7, <2>1, InertStep, Zenon DEF Close
<1> QED
  BY <1>1, <1>2, <1>3, <1>4, <1>5, <1>6, <1>7

\* NextChunk picks a length; wait_for_credit grants, sleeps or fails.
LEMMA CreditSteps ==
    ASSUME IInv, NextChunk \/ WaitForCredit
    PROVE  IInv'
<1> USE DEF controlVars, producerVars, netVars, receiverVars
<1>0. TypeOK /\ ProducerInv
  BY DEF IInv
<1>1. CASE NextChunk
  <2>1. /\ chunk' \in 0..MaxChunk /\ chunk' > 0 /\ off + chunk' <= FileLen
    BY <1>0, <1>1, StreamAssumption DEF TypeOK, ProducerInv, NextChunk
  <2>2. TypeOK'
    BY <1>0, <1>1, <2>1, Zenon DEF TypeOK, NextChunk
  <2>3. ProducerInv' /\ ReplayInv'
    BY <1>0, <1>1, <2>1, Zenon DEF ProducerInv, ReplayInv, NextChunk, RingEnd
  <2> QED BY <1>1, <2>2, <2>3, MoveStep, Zenon DEF NextChunk
<1>2. CASE WaitForCredit
  <2>1. CASE CreditSleep(chunk) /\ pc' = pc
    <3>1. TypeOK'
      BY <1>0, <1>2, <2>1, Zenon DEF TypeOK, WaitForCredit, CreditSleep
    <3> QED BY <1>2, <2>1, <3>1, InertStep, Zenon DEF WaitForCredit, CreditSleep
  <2>2. CASE CreditOk(chunk) /\ pc' = "push"
    <3>1. TypeOK'
      BY <1>0, <1>2, <2>2, Zenon DEF TypeOK, WaitForCredit, CreditOk
    <3>2. ProducerInv' /\ ReplayInv'
      BY <1>0, <1>2, <2>2
     , Zenon DEF ProducerInv, ReplayInv, WaitForCredit, CreditOk, RingEnd, HasCredit, in_flight
    <3> QED BY <1>2, <2>2, <3>1, <3>2, MoveStep, Zenon DEF WaitForCredit, CreditOk
  <2>3. CASE /\ WaitCancelled \/ CreditTimeout(chunk)
             /\ pc' = "aborted"
    <3>1. TypeOK'
      BY <1>0, <1>2, <2>3, Zenon DEF TypeOK, WaitForCredit, WaitCancelled, CreditTimeout
    <3>2. ProducerInv' /\ ReplayInv'
      BY <2>3, Zenon DEF ProducerInv, ReplayInv
    <3> QED BY <1>2, <2>3, <3>1, <3>2, MoveStep
           , Zenon DEF WaitForCredit, WaitCancelled, CreditTimeout
  <2> QED BY <1>2, <2>1, <2>2, <2>3, Zenon DEF WaitForCredit
<1> QED
  BY <1>1, <1>2

\* push_replay extends the ring by the chunk that has credit.
LEMMA PushStep ==
    ASSUME IInv, PushReplay
    PROVE  IInv'
<1> DEFINE c == [offset |-> off, data_len |-> chunk]
<1> USE DEF PushReplay, push_replay, netVars, receiverVars
<1>0. TypeOK /\ ProducerInv /\ RingInv /\ ReceiverInv /\ AckedIsReceived
  BY Zenon DEF IInv
<1>1. /\ off \in Nat /\ chunk \in Nat /\ chunk <= MaxChunk
      /\ sent_offset = off /\ RingEnd = off /\ off + chunk <= FileLen
      /\ HasCredit(chunk) /\ c \in RingChunk /\ replay \in Seq(RingChunk)
      /\ acked_offset \in Nat
  BY <1>0 DEF TypeOK, ProducerInv, RingChunk
<1>2. /\ replay' \in Seq(RingChunk) /\ replay' # <<>> /\ Newest(replay') = c
      /\ Abut(replay') /\ Ascends(replay')
  BY <1>0, <1>1, PushFacts, Zenon DEF RingInv, RingEnd
<1>3. RingEnd' = off + chunk
  BY <1>2 DEF RingEnd, highest_end_offset, EndOf
<1>4. TypeOK'
  BY <1>0, <1>2, Zenon DEF TypeOK
<1>5. RingInv'
  BY <1>1, <1>2, <1>3 DEF RingInv
<1>6. ProducerInv' /\ ReplayInv'
  BY <1>1, <1>2, <1>3, Zenon DEF ProducerInv, ReplayInv
<1>7. WindowInv'
  BY <1>0, <1>1, <1>3 DEF WindowInv, HasCredit, in_flight, AckedIsReceived
<1>8. Emitted' = Emitted /\ Received' = Received
  BY Zenon DEF Emitted, Received
<1>9. AckedIsReceived' /\ ReceiverInv'
  BY <1>0, <1>8, Zenon DEF AckedIsReceived, ReceiverInv
<1> QED
  BY <1>4, <1>5, <1>6, <1>7, <1>9, Zenon DEF IInv

\* A frame's file exists and its offsets are natural numbers.
LEMMA FrameFacts ==
    ASSUME NEW f \in Frame
    PROVE  /\ f.file \in Nat /\ f.file <= LastFile
           /\ f.offset \in Nat /\ f.data_len \in Nat /\ EndOf(f) \in Nat
<1> QED
  BY SMTT(120) DEF Frame, Files, EndOf

\* Offsets that only grow.
LEMMA AtMost ==
    ASSUME NEW a \in Nat, NEW b \in Nat, NEW c \in Nat, a <= b, b <= c
    PROVE  a <= c
OBVIOUS

\* A frame of a longer wire was there before, or is the one that was added.
LEMMA AppendCases ==
    ASSUME NEW S, NEW w \in Seq(S), NEW f \in S, NEW i \in 1..Len(Append(w, f))
    PROVE  (i \in 1..Len(w) /\ Append(w, f)[i] = w[i]) \/ Append(w, f)[i] = f
OBVIOUS

\* What a send adds to a connection, when the receiver's side of the
\* invariant holds for the frame and the offsets stay.
LEMMA FrameSent ==
    ASSUME IInv, NEW c \in Conns, NEW f \in Frame, send_notify(c, f),
           f.file = current_file_index, EndOf(f) <= Emitted',
           Emitted <= Emitted', Emitted' \in Nat, Emitted' <= FileLen,
           UNCHANGED <<current_file_index, rfile, rcvd, pending_resume>>
    PROVE  wire' \in [Conns -> Seq(Frame)] /\ ReceiverInv'
<1>0. /\ ReceiverInv /\ wire \in [Conns -> Seq(Frame)] /\ current_file_index \in Nat
      /\ Emitted \in Nat /\ rcvd \in Nat
      /\ pending_resume \in Nat \cup {None}
  BY Offsets DEF IInv, TypeOK, Files
<1>1. /\ wire' = wire \/ wire' = [wire EXCEPT ![c] = Append(@, f)]
      /\ acks' = acks
  BY Zenon DEF send_notify
<1>2. wire' \in [Conns -> Seq(Frame)] /\ Received' = Received
  <2>1. Append(wire[c], f) \in Seq(Frame)
    BY <1>0
  <2>2. Received' = Received
    BY Zenon DEF Received
  <2> QED BY <1>0, <1>1, <2>1, <2>2, Zenon
<1>3. ASSUME NEW d \in Conns, NEW i \in 1..Len(wire'[d])
      PROVE  /\ wire'[d][i].file <= current_file_index
             /\ wire'[d][i].file = current_file_index => EndOf(wire'[d][i]) <= Emitted'
  <2>0. wire[d] \in Seq(Frame)
    BY <1>0, Zenon
  <2>1. CASE i \in 1..Len(wire[d]) /\ wire'[d][i] = wire[d][i]
    <3>1. EndOf(wire[d][i]) \in Nat
      <4>1. wire[d][i] \in Frame
        BY <2>0, <2>1
      <4> QED BY <4>1, FrameFacts, Zenon
    <3>2. /\ wire[d][i].file <= current_file_index
          /\ wire[d][i].file = current_file_index => EndOf(wire[d][i]) <= Emitted
      BY <1>0, <2>1, Zenon DEF ReceiverInv
    <3>3. EndOf(wire[d][i]) <= Emitted => EndOf(wire[d][i]) <= Emitted'
      BY <1>0, <3>1, AtMost, Zenon
    <3> QED BY <2>1, <3>2, <3>3, Zenon
  <2>2. CASE wire'[d][i] = f
    <3>1. f.file <= current_file_index
      BY <1>0
    <3> QED BY <2>2, <3>1, Zenon
  <2>3. wire'[d] = wire[d] \/ wire'[d] = Append(wire[d], f)
    BY <1>0, <1>1, Zenon
  <2>4. CASE wire'[d] = wire[d]
    BY <2>1, <2>4, Zenon
  <2>5. CASE wire'[d] = Append(wire[d], f)
    <3>1. i \in 1..Len(Append(wire[d], f))
      BY <2>5, Zenon
    <3>2. \/ i \in 1..Len(wire[d]) /\ Append(wire[d], f)[i] = wire[d][i]
          \/ Append(wire[d], f)[i] = f
      BY <2>0, <3>1, AppendCases, Zenon
    <3> QED BY <2>1, <2>2, <2>5, <3>2, Zenon
  <2> QED BY <2>3, <2>4, <2>5, Zenon
<1>4. pending_resume # None => pending_resume <= Emitted'
  <2>1. pending_resume # None => pending_resume <= Emitted
    BY <1>0, Zenon DEF ReceiverInv
  <2> QED BY <1>0, <2>1
<1>5. /\ rfile = current_file_index => rcvd <= Emitted'
      /\ rfile = current_file_index + 1 => rcvd = 0 /\ Emitted' = FileLen
  <2>1. /\ rfile = current_file_index => rcvd <= Emitted
        /\ rfile = current_file_index + 1 => rcvd = 0 /\ Emitted = FileLen
    BY <1>0, Zenon DEF ReceiverInv
  <2> QED BY <1>0, <2>1
<1> QED
  BY <1>0, <1>1, <1>2, <1>3, <1>4, <1>5, ZenonT(60) DEF ReceiverInv

\* The chunk goes out, or the send fails and the producer awaits a resume.
LEMMA SendSteps ==
    ASSUME IInv, ReadPeer \/ Send
    PROVE  IInv'
<1> USE DEF controlVars, producerVars, netVars, receiverVars
<1>0. TypeOK /\ ProducerInv /\ RingInv /\ AckedIsReceived
  BY DEF IInv
<1>1. CASE ReadPeer
  <2>1. TypeOK'
    BY <1>0, <1>1, ZenonT(30) DEF TypeOK, ReadPeer
  <2>2. ProducerInv' /\ ReplayInv'
    BY <1>0, <1>1 DEF ProducerInv, ReplayInv, ReadPeer, RingEnd
  <2> QED BY <1>1, <2>1, <2>2, MoveStep, ZenonT(60) DEF ReadPeer
<1>2. CASE Send /\ pc' = "reconnect" /\ UNCHANGED netVars
  <2>1. TypeOK'
    BY <1>0, <1>2, ZenonT(60) DEF TypeOK, Send
  <2>2. ProducerInv' /\ ReplayInv'
    BY <1>0, <1>2, Zenon DEF ProducerInv, ReplayInv, Send, RingEnd
  <2> QED BY <1>2, <2>1, <2>2, MoveStep, ZenonT(60) DEF Send
<1>3. CASE Send /\ pc' = "record"
           /\ send_notify(target, [file |-> current_file_index,
                                   offset |-> off, data_len |-> chunk])
  <2> DEFINE f == [file |-> current_file_index, offset |-> off, data_len |-> chunk]
  <2>1. /\ off \in Nat /\ chunk \in Nat /\ sent_offset = off /\ RingEnd = off + chunk
        /\ pc = "send" /\ target \in Conns /\ f \in Frame
    <3>1. /\ off \in 0..FileLen /\ chunk \in 0..MaxChunk /\ sent_offset = off
          /\ RingEnd = off + chunk /\ pc = "send" /\ target \in Conns
          /\ current_file_index \in Files
      BY <1>0, <1>3, Zenon DEF TypeOK, ProducerInv, Send
    <3>2. off \in Nat /\ chunk \in Nat
      BY <3>1
    <3> QED BY <3>1, <3>2, Zenon DEF Frame
  <2>2. Emitted = off /\ Emitted' = off + chunk /\ RingEnd' = RingEnd
    BY <1>3, <2>1 DEF Emitted, RingEnd, Send
  <2>3. RingEnd <= FileLen
    BY <1>0, Zenon DEF RingInv
  <2>4. wire' \in [Conns -> Seq(Frame)] /\ ReceiverInv'
    BY <1>3, <2>1, <2>2, <2>3, FrameSent, SMTT(120) DEF EndOf, Send
  <2>5. TypeOK'
    BY <1>0, <1>3, <2>4, ZenonT(60) DEF TypeOK, Send, send_notify
  <2>6. ProducerInv' /\ ReplayInv'
    BY <1>0, <1>3, <2>1, <2>2, ZenonT(60) DEF ProducerInv, ReplayInv, Send
  <2>7. RingInv' /\ WindowInv' /\ AckedIsReceived'
    BY <1>0, <1>3, <2>2, Zenon DEF IInv, RingInv, WindowInv, AckedIsReceived, Received, Send
  <2> QED BY <2>4, <2>5, <2>6, <2>7, ZenonT(60) DEF IInv
<1> QED
  BY <1>1, <1>2, <1>3, ZenonT(30) DEF Send

\* record_sent after a send catches sent_offset up with the ring.
LEMMA RecordStep ==
    ASSUME IInv, RecordSent
    PROVE  IInv'
<1>0. TypeOK /\ ProducerInv /\ RingInv /\ ReceiverInv /\ AckedIsReceived /\ WindowInv
  BY Zenon DEF IInv
<1>1. /\ pc = "record" /\ pc' = Onward(off') /\ off' = off + chunk /\ idle' = 0
      /\ sent_offset' = IF off + chunk > sent_offset THEN off + chunk ELSE sent_offset
      /\ UNCHANGED <<acked_offset, current_file_index, cancelled, replay, peer, pending_resume,
                     parked, chunk, target, emit, link, wire, acks, conn, session, rfile, rcvd,
                     watch>>
  BY Zenon DEF RecordSent, record_sent, netVars, receiverVars
<1>2. /\ off \in Nat /\ chunk \in Nat /\ sent_offset = off /\ RingEnd = off + chunk
      /\ RingEnd <= FileLen /\ acked_offset \in Nat /\ replay # <<>>
      /\ acked_offset <= sent_offset
  <2>1. /\ off \in 0..FileLen /\ chunk \in 0..MaxChunk /\ sent_offset = off
        /\ RingEnd = off + chunk /\ RingEnd <= FileLen /\ acked_offset \in Nat /\ replay # <<>>
        /\ acked_offset <= sent_offset
    BY <1>0, <1>1, Zenon DEF TypeOK, ProducerInv, RingInv, AckedIsReceived
  <2> QED BY <2>1
<1>3. /\ sent_offset' = RingEnd /\ off' = RingEnd /\ RingEnd' = RingEnd
      /\ RingEnd \in Nat /\ RingEnd \in 0..FileLen
  <2>1. sent_offset' = off + chunk /\ off + chunk \in 0..FileLen
    BY <1>1, <1>2
  <2>2. RingEnd' = RingEnd
    BY <1>1, Zenon DEF RingEnd
  <2> QED BY <1>1, <1>2, <2>1, <2>2
<1>4. pc' \in {"await", "next"} /\ (pc' = "await" => off' = FileLen)
      /\ (pc' = "next" => off' < FileLen)
  <2>1. off' # FileLen => off' < FileLen
    BY <1>3
  <2> QED BY <1>1, <2>1, Zenon DEF Onward
<1>5. Emitted' = Emitted /\ Received' = Received
  BY <1>1, <1>2, <1>3, <1>4, ZenonT(60) DEF Emitted, Received
<1>6. TypeOK'
  <2>1. 0 \in 0..IdleTimeout
    OBVIOUS
  <2>2. pc' \in {"next", "credit", "push", "peer", "send", "record", "reconnect",
                 "swap", "replay", "rerecord", "await", "done", "aborted"}
    BY <1>4, Zenon
  <2> QED BY <1>0, <1>1, <1>3, <2>1, <2>2, ZenonT(60) DEF TypeOK
<1>7. RingInv'
  <2>1. RingEnd <= RingEnd /\ RingEnd - RingEnd <= MaxChunk
    BY <1>3
  <2>2. Abut(replay) /\ Ascends(replay) /\ RingEnd <= FileLen
    BY <1>0, <1>2, Zenon DEF RingInv
  <2> QED BY <1>1, <1>3, <2>1, <2>2, Zenon DEF RingInv
<1>8. ProducerInv' /\ ReplayInv'
  BY <1>1, <1>2, <1>3, <1>4, Zenon DEF ProducerInv, ReplayInv
<1>9. WindowInv' /\ AckedIsReceived'
  <2>1. acked_offset <= RingEnd
    BY <1>2
  <2> QED BY <1>0, <1>1, <1>3, <1>5, <2>1, Zenon DEF WindowInv, AckedIsReceived
<1>10. ReceiverInv'
  BY <1>0, <1>1, <1>5, Zenon DEF ReceiverInv
<1> QED
  BY <1>6, <1>7, <1>8, <1>9, <1>10, Zenon DEF IInv

\* A resume is taken up, or the wait for it sleeps or fails.
LEMMA ReconnectSteps ==
    ASSUME IInv, WaitForReconnect
    PROVE  IInv'
<1> USE DEF WaitForReconnect, netVars, receiverVars
<1>0. TypeOK /\ ProducerInv /\ RingInv /\ ReceiverInv /\ AckedIsReceived /\ WindowInv
  BY DEF IInv
<1>1. CASE ReconnectSleep /\ pc' = pc /\ UNCHANGED emit
  <2>1. TypeOK'
    BY <1>0, <1>1, ZenonT(30) DEF TypeOK, ReconnectSleep
  <2> QED BY <1>1, <2>1, InertStep, ZenonT(60) DEF ReconnectSleep
<1>2. CASE (WaitCancelled \/ ReconnectTimeout) /\ pc' = "aborted" /\ UNCHANGED emit
  <2>1. TypeOK'
    BY <1>0, <1>2, ZenonT(120) DEF TypeOK, WaitCancelled, ReconnectTimeout, controlVars
  <2>2. ProducerInv' /\ ReplayInv'
    BY <1>2 DEF ProducerInv, ReplayInv
  <2> QED BY <1>2, <2>1, <2>2, MoveStep
          DEF WaitCancelled, ReconnectTimeout, controlVars, AwaitsResume
<1>3. CASE /\ ResumeReady /\ pc' = "swap"
           /\ emit' = replay_from(replay, pending_resume)
  <2> USE DEF ResumeReady
  <2>1. /\ replay # <<>> /\ replay \in Seq(RingChunk) /\ pending_resume \in Nat
        /\ pc \in {"reconnect", "await"} /\ sent_offset \in Nat
    BY <1>0, <1>3, Zenon DEF TypeOK, ProducerInv, AwaitsResume
  <2>2. RingEnd' = RingEnd /\ Emitted' = sent_offset /\ Emitted = sent_offset
        /\ Received' = Received
    BY <1>3, <2>1 DEF RingEnd, Emitted, Received
  <2>3. pending_resume <= sent_offset
    BY <1>0, <1>3, <2>2, ZenonT(120) DEF ReceiverInv
  <2>4. /\ Newest(replay).offset \in Nat
        /\ sent_offset \in {RingEnd, Newest(replay).offset}
    BY <1>0, <2>1, RingEndFacts DEF RingInv, RingChunk
  <2>5. /\ emit' \in Seq(RingChunk)
        /\ emit' = <<>> => sent_offset = RingEnd
        /\ emit' # <<>> => Newest(emit') = Newest(replay) /\ Ascends(emit')
    <3>1. CASE emit' = <<>> /\ Newest(replay).offset < pending_resume
      BY SMTT(120), <2>1, <2>3, <2>4, <3>1
    <3>2. ASSUME NEW k \in 1..Len(replay), emit' = SubSeq(replay, k, Len(replay))
          PROVE  /\ emit' \in Seq(RingChunk) /\ emit' # <<>>
                 /\ Newest(emit') = Newest(replay) /\ Ascends(emit')
      BY <1>0, <2>1, <3>2, SuffixOfRing, ZenonT(60) DEF RingInv
    <3> QED BY <1>3, <2>1, <3>1, <3>2, ReplayFacts, ZenonT(120)
  <2>6. TypeOK'
    BY <1>0, <1>3, <2>5, ZenonT(60) DEF TypeOK
  <2>7. ProducerInv' /\ ReplayInv'
    BY <1>3, <2>1, <2>2, <2>5, ZenonT(60) DEF ProducerInv, ReplayInv
  <2>8. RingInv' /\ WindowInv' /\ AckedIsReceived'
    BY <1>0, <2>2, <1>3, ZenonT(60) DEF RingInv, WindowInv, AckedIsReceived
  <2>9. ReceiverInv'
    <3>1. /\ UNCHANGED <<current_file_index, rfile, rcvd, wire, acks>>
          /\ pending_resume' = None
      BY <1>3, Zenon
    <3>2. Emitted' = Emitted /\ Received' = Received
      BY <2>2
    <3> HIDE DEF WaitForReconnect, ResumeReady
    <3> QED BY <1>0, <3>1, <3>2, ZenonT(120) DEF ReceiverInv
  <2> QED BY <2>6, <2>7, <2>8, <2>9, ZenonT(60) DEF IInv
<1> QED
  BY <1>1, <1>2, <1>3

\* One chunk of the replay list goes out, or the send fails.
LEMMA ReplaySteps ==
    ASSUME IInv, ReadNewPeer \/ Replay
    PROVE  IInv'
<1> USE DEF controlVars, producerVars, netVars, receiverVars
<1>0. TypeOK /\ ProducerInv /\ RingInv /\ ReplayInv /\ AckedIsReceived
  BY DEF IInv
<1>1. CASE ReadNewPeer
  <2>1. TypeOK'
    BY <1>0, <1>1, ZenonT(60) DEF TypeOK, ReadNewPeer
  <2>2. ProducerInv' /\ ReplayInv'
    BY <1>0, <1>1, ZenonT(60) DEF ProducerInv, ReplayInv, ReadNewPeer, RingEnd
  <2> QED BY <1>1, <2>1, <2>2, MoveStep, ZenonT(60) DEF ReadNewPeer
<1>2. CASE Replay /\ pc' = "reconnect" /\ UNCHANGED netVars
  <2>1. TypeOK'
    BY <1>0, <1>2, ZenonT(120) DEF TypeOK, Replay
  <2>2. ProducerInv' /\ ReplayInv'
    BY <1>0, <1>2, Zenon DEF ProducerInv, ReplayInv, Replay, RingEnd
  <2> QED BY <1>2, <2>1, <2>2, MoveStep, Zenon DEF Replay
<1>3. CASE Replay /\ pc' = "rerecord"
           /\ send_notify(target, [file |-> current_file_index,
                                   offset |-> Head(emit).offset,
                                   data_len |-> Head(emit).data_len])
  <2> DEFINE h == Head(emit)
             f == [file |-> current_file_index, offset |-> h.offset,
                   data_len |-> h.data_len]
  <2>1. /\ pc = "replay" /\ emit # <<>> /\ emit \in Seq(RingChunk) /\ replay # <<>>
        /\ Newest(emit) = Newest(replay) /\ Ascends(emit)
        /\ replay \in Seq(RingChunk) /\ target \in Conns /\ sent_offset \in Nat
        /\ current_file_index \in Files
    BY <1>0, <1>3, ZenonT(120) DEF TypeOK, ProducerInv, ReplayInv, Replay
  <2>2. h \in RingChunk /\ EndOf(h) \in Nat
    BY <2>1, EmitFacts, ChunkFacts, Zenon
  <2>3. f \in Frame /\ EndOf(f) = EndOf(h)
    BY <2>1, <2>2, Zenon DEF Frame, RingChunk, EndOf
  <2>4. /\ Newest(replay).offset \in Nat /\ Newest(replay).data_len \in Nat
        /\ RingEnd = Newest(replay).offset + Newest(replay).data_len
    BY <2>1, RingEndFacts DEF RingEnd, RingChunk
  <2>5. EndOf(h) <= RingEnd
    <3>1. CASE Tail(emit) = <<>>
      BY <2>1, <2>2, <2>4, <3>1, EmitFacts DEF EndOf
    <3>2. CASE Tail(emit) # <<>>
      <4>1. EndOf(h) <= Newest(replay).offset
        BY <2>1, <3>2, EmitFacts, Zenon
      <4> HIDE DEF h
      <4> QED BY <2>2, <2>4, <4>1
    <3> QED BY <3>1, <3>2, Zenon
  <2>6. RingEnd' = RingEnd /\ Emitted = sent_offset
        /\ Emitted' = IF EndOf(h) > sent_offset THEN EndOf(h) ELSE sent_offset
    BY <1>3, <2>1, Zenon DEF RingEnd, Emitted, Replay
  <2>7. RingEnd <= FileLen /\ sent_offset <= RingEnd
    BY <1>0 DEF RingInv
  <2>8. wire' \in [Conns -> Seq(Frame)] /\ ReceiverInv'
    <3>1. /\ EndOf(f) <= Emitted' /\ Emitted <= Emitted' /\ Emitted' \in Nat
          /\ Emitted' <= FileLen
      <4> HIDE DEF h, f
      <4>1. FileLen \in Nat /\ RingEnd \in Nat
        BY <2>4
      <4> QED BY <2>1, <2>2, <2>3, <2>5, <2>6, <2>7, <4>1
    <3> HIDE DEF h
    <3> QED BY <1>3, <2>1, <2>3, <3>1, FrameSent, ZenonT(120) DEF Replay, h
  <2>9. TypeOK'
    BY <1>0, <1>3, <2>8, Zenon DEF TypeOK, Replay, send_notify
  <2>10. ProducerInv' /\ ReplayInv'
    BY <1>0, <1>3, <2>1, <2>6, Zenon DEF ProducerInv, ReplayInv, Replay
  <2>11. RingInv' /\ WindowInv' /\ AckedIsReceived'
    BY <1>0, <1>3, <2>6, ZenonT(120) DEF IInv, RingInv, WindowInv, AckedIsReceived, Received, Replay
  <2> QED BY <2>8, <2>9, <2>10, <2>11 DEF IInv
<1> QED
  BY <1>1, <1>2, <1>3, Zenon DEF Replay

\* record_sent of a re-emitted chunk: only the newest one can be news.
LEMMA RecordReplayStep ==
    ASSUME IInv, RecordReplayed, RecordReplay
    PROVE  IInv'
<1> DEFINE h == Head(emit)
<1>0. TypeOK /\ ProducerInv /\ RingInv /\ ReplayInv /\ ReceiverInv /\ AckedIsReceived
      /\ WindowInv
  BY ZenonT(60) DEF IInv
<1>1. /\ pc = "rerecord" /\ pc' = "replay" /\ emit' = Tail(emit) /\ idle' = 0
      /\ sent_offset' = IF EndOf(h) > sent_offset THEN EndOf(h) ELSE sent_offset
      /\ UNCHANGED <<acked_offset, current_file_index, cancelled, replay, peer, pending_resume,
                     parked, off, chunk, target, link, wire, acks, conn, session, rfile, rcvd,
                     watch>>
  BY Zenon DEF RecordReplay, record_sent, netVars, receiverVars
<1>2. /\ emit # <<>> /\ emit \in Seq(RingChunk) /\ replay # <<>>
      /\ Newest(emit) = Newest(replay) /\ Ascends(emit)
      /\ replay \in Seq(RingChunk) /\ sent_offset \in Nat /\ acked_offset \in Nat
      /\ acked_offset <= sent_offset
  BY <1>0, <1>1, Zenon DEF TypeOK, ProducerInv, ReplayInv, AckedIsReceived
<1>3. h \in RingChunk /\ EndOf(h) \in Nat /\ Tail(emit) \in Seq(RingChunk)
  <2>1. h \in RingChunk /\ Tail(emit) \in Seq(RingChunk)
    BY <1>2, EmitFacts, Zenon
  <2> HIDE DEF h
  <2> QED BY <2>1, ChunkFacts, Zenon
<1>4. /\ Newest(replay).offset \in Nat /\ Newest(replay).data_len \in Nat
      /\ RingEnd = Newest(replay).offset + Newest(replay).data_len
      /\ sent_offset \in {RingEnd, Newest(replay).offset} /\ sent_offset <= RingEnd
  <2>1. /\ Newest(replay) \in RingChunk
        /\ RingEnd = Newest(replay).offset + Newest(replay).data_len
    BY <1>2, RingEndFacts, Zenon DEF RingEnd
  <2>2. sent_offset \in {RingEnd, Newest(replay).offset} /\ sent_offset <= RingEnd
    BY <1>0, <1>2, Zenon DEF RingInv
  <2> QED BY <2>1, <2>2, ChunkFacts, Zenon
<1>5. RingEnd' = RingEnd /\ replay' = replay
  BY <1>1, Zenon DEF RingEnd
<1> HIDE DEF h
<1>6. /\ sent_offset' \in {RingEnd, Newest(replay).offset} /\ sent_offset' \in Nat
      /\ sent_offset <= sent_offset' /\ sent_offset' <= RingEnd
      /\ Tail(emit) = <<>> => sent_offset' = RingEnd
  <2>1. CASE Tail(emit) = <<>>
    <3>1. EndOf(h) = RingEnd
      BY <1>2, <1>4, <2>1, EmitFacts, ZenonT(60) DEF EndOf, h
    <3>2. sent_offset' = RingEnd
      BY <1>1, <1>2, <1>3, <1>4, <3>1
    <3> QED BY <1>2, <1>4, <3>2
  <2>2. CASE Tail(emit) # <<>>
    <3>1. EndOf(h) <= Newest(replay).offset
      BY <1>2, <2>2, EmitFacts, Zenon DEF h
    <3>2. sent_offset' = sent_offset
      BY <1>1, <1>2, <1>3, <1>4, <3>1
    <3>3. sent_offset <= sent_offset
      BY <1>2
    <3> QED BY <1>2, <1>4, <2>2, <3>2, <3>3, Zenon
  <2> QED BY <2>1, <2>2, Zenon
<1>7. Emitted' = Emitted /\ Received' = Received
  BY <1>1, ZenonT(60) DEF Emitted, Received, h
<1>8. TypeOK'
  <2>1. 0 \in 0..IdleTimeout
    OBVIOUS
  <2> QED BY <1>0, <1>1, <1>3, <1>6, <2>1, ZenonT(60) DEF TypeOK
<1>9. RingInv'
  <2>1. /\ RingEnd - sent_offset <= MaxChunk /\ RingEnd <= FileLen
        /\ Abut(replay) /\ Ascends(replay)
    BY <1>0, Zenon DEF RingInv
  <2>2. RingEnd - sent_offset' <= MaxChunk
    BY <1>2, <1>4, <1>6, <2>1
  <2> QED BY <1>5, <1>6, <2>1, <2>2, Zenon DEF RingInv
<1>10. ProducerInv'
  BY <1>1, <1>2, Zenon DEF ProducerInv
<1>11. ReplayInv'
  BY <1>1, <1>2, <1>5, <1>6, EmitFacts, Zenon DEF ReplayInv
<1>12. WindowInv'
  BY <1>0, <1>1, <1>5, Zenon DEF WindowInv
<1>13. AckedIsReceived'
  <2>1. acked_offset <= sent_offset'
    BY <1>2, <1>6
  <2> QED BY <1>0, <1>1, <1>7, <2>1, Zenon DEF AckedIsReceived
<1>14. ReceiverInv'
  BY <1>0, <1>1, <1>7, Zenon DEF ReceiverInv
<1> QED
  BY <1>8, <1>9, <1>10, <1>11, <1>12, <1>13, <1>14, ZenonT(60) DEF IInv

\* The replay list is empty: the producer goes on where the ring ends.
LEMMA ReplayDoneStep ==
    ASSUME IInv, ReplayDone
    PROVE  IInv'
<1>0. TypeOK /\ ProducerInv /\ RingInv /\ ReplayInv
  BY ZenonT(60) DEF IInv
<1>1. /\ pc = "replay" /\ emit = <<>> /\ off' = RingEnd /\ pc' = Onward(off')
      /\ UNCHANGED <<sent_offset, acked_offset, current_file_index, cancelled, replay, peer,
                     pending_resume, idle, parked, chunk, target, emit, link, wire, acks, conn,
                     session, rfile, rcvd, watch>>
  BY Zenon DEF ReplayDone, RingEnd, controlVars, netVars, receiverVars
<1>2. /\ RingEnd \in Nat /\ RingEnd <= FileLen
      /\ sent_offset = RingEnd /\ RingEnd' = RingEnd /\ replay # <<>>
  BY <1>0, <1>1, RingEndFacts, Zenon DEF TypeOK, RingInv, ReplayInv, ProducerInv, RingEnd
<1>3. /\ pc' \in {"await", "next"} /\ (pc' = "await" => off' = FileLen)
      /\ (pc' = "next" => off' < FileLen)
  <2>1. RingEnd # FileLen => RingEnd < FileLen
    BY <1>2
  <2> QED BY <1>1, <2>1, Zenon DEF Onward
<1>4. TypeOK'
  <2>1. RingEnd \in 0..FileLen
    BY <1>2
  <2>2. pc' \in {"next", "credit", "push", "peer", "send", "record", "reconnect",
                 "swap", "replay", "rerecord", "await", "done", "aborted"}
    BY <1>3, Zenon
  <2> QED BY <1>0, <1>1, <2>1, <2>2, ZenonT(60) DEF TypeOK
<1>5. ProducerInv' /\ ReplayInv'
  BY <1>1, <1>2, <1>3, Zenon DEF ProducerInv, ReplayInv
<1> QED
  BY <1>1, <1>3, <1>4, <1>5, MoveStep, Zenon DEF controlVars, netVars, receiverVars

\* advance_to_file starts the next file from nothing.
LEMMA FileCompleteStep ==
    ASSUME IInv, FileComplete
    PROVE  IInv'
<1> USE DEF netVars, receiverVars
<1>0. TypeOK /\ ProducerInv /\ ReceiverInv
  BY Zenon DEF IInv
<1>1. CASE current_file_index < LastFile
  <2>0. /\ current_file_index' = current_file_index + 1
        /\ sent_offset' = 0 /\ acked_offset' = 0 /\ replay' = <<>>
        /\ pending_resume' = None /\ idle' = 0 /\ parked' = FALSE
        /\ off' = 0 /\ pc' = "next" /\ rfile > current_file_index
        /\ UNCHANGED <<cancelled, peer, chunk, target, emit, netVars, receiverVars, watch>>
    BY <1>1, ZenonT(60) DEF FileComplete, advance_to_file, notify_all
  <2>1. /\ current_file_index \in Nat /\ LastFile \in Nat /\ rfile \in Nat
        /\ rfile = current_file_index + 1 /\ rcvd = 0
        /\ current_file_index' = current_file_index + 1
    <3>1. /\ current_file_index \in Files /\ rfile \in 0..(LastFile + 1)
          /\ rfile \in {current_file_index, current_file_index + 1}
          /\ rfile = current_file_index + 1 => rcvd = 0
      BY <1>0, Zenon DEF TypeOK, ReceiverInv
    <3>2. current_file_index \in Nat /\ LastFile \in Nat /\ rfile \in Nat
      BY <3>1, ConstantFacts DEF Files
    <3>3. rfile > current_file_index
      BY <2>0, Zenon
    <3>4. rfile = current_file_index + 1
      BY <3>1, <3>2, <3>3
    <3> QED BY <2>0, <3>1, <3>2, <3>4, Zenon
  <2>2. RingEnd' = 0 /\ Emitted' = 0 /\ Received' = 0
    <3>1. ~(rfile' > current_file_index') /\ rcvd' = 0
      <4>1. rfile' = rfile /\ rcvd' = rcvd
        BY <2>0, Zenon DEF receiverVars
      <4> QED BY <2>1, <4>1
    <3>2. RingEnd' = 0
      BY <2>0, Zenon DEF RingEnd, highest_end_offset
    <3> QED BY <2>0, <3>1, <3>2, Zenon DEF Emitted, Received
  <2>3. TypeOK'
    <3>1. current_file_index' \in Files /\ <<>> \in Seq(RingChunk)
      BY <1>1, <2>1 DEF Files
    <3>2. 0 \in 0..FileLen /\ 0 \in 0..IdleTimeout
      OBVIOUS
    <3> QED BY <1>0, <2>0, <3>1, <3>2, Zenon DEF TypeOK
  <2>4. RingInv' /\ ProducerInv' /\ ReplayInv' /\ WindowInv'
    <3>1. Abut(<<>>) /\ Ascends(<<>>)
      BY DEF Abut, Ascends
    <3>2. /\ 0 <= 0 /\ 0 <= FileLen /\ 0 < FileLen
          /\ 0 - 0 <= MaxChunk /\ 0 - 0 <= WindowBytes
      BY ConstantFacts
    <3> QED BY <2>0, <2>2, <3>1, <3>2, Zenon DEF RingInv, ProducerInv, ReplayInv, WindowInv
  <2>5. AckedIsReceived'
    <3>1. 0 <= 0
      OBVIOUS
    <3> QED BY <2>0, <2>2, <3>1, Zenon DEF AckedIsReceived
  <2>6. ReceiverInv'
    <3>1. ASSUME NEW a \in acks PROVE a.file \in Nat /\ a.file <= current_file_index
      <4>1. a \in Ack
        BY <1>0, <3>1, Zenon DEF TypeOK
      <4>2. a.file \in Nat
        BY <4>1 DEF Ack, Files
      <4> QED BY <1>0, <3>1, <4>2, Zenon DEF ReceiverInv
    <3>2. ASSUME NEW c \in Conns, NEW i \in 1..Len(wire[c])
          PROVE  wire[c][i].file \in Nat /\ wire[c][i].file <= current_file_index
      <4>1. wire \in [Conns -> Seq(Frame)]
        BY <1>0, Zenon DEF TypeOK
      <4>2. wire[c] \in Seq(Frame)
        BY <4>1
      <4>3. wire[c][i] \in Frame
        BY <4>2
      <4>4. wire[c][i].file \in Nat
        BY <4>3, FrameFacts, Zenon
      <4> QED BY <1>0, <4>4, Zenon DEF ReceiverInv
    <3>3. /\ acks' = acks /\ wire' = wire /\ rfile' = rfile /\ rcvd' = rcvd
          /\ pending_resume' = None
      BY <2>0, Zenon DEF netVars, receiverVars
    <3>4. ASSUME NEW m \in Nat, m <= current_file_index
          PROVE  m <= current_file_index' /\ m # current_file_index'
      BY <2>1, <3>4
    <3>5. rfile' = current_file_index' /\ 0 <= 0 /\ rfile' # current_file_index' + 1
      BY <2>1, <3>3
    <3>6. \A a \in acks' : a.file <= current_file_index' /\ a.file # current_file_index'
      BY <3>1, <3>3, <3>4, Zenon
    <3>7. \A c \in Conns : \A i \in 1..Len(wire'[c]) :
             wire'[c][i].file <= current_file_index' /\ wire'[c][i].file # current_file_index'
      BY <3>2, <3>3, <3>4, Zenon
    <3> QED BY <2>1, <2>2, <3>3, <3>5, <3>6, <3>7, Zenon DEF ReceiverInv
  <2> QED BY <2>3, <2>4, <2>5, <2>6, ZenonT(60) DEF IInv
<1>2. CASE ~(current_file_index < LastFile)
  <2>1. TypeOK'
    BY <1>0, <1>2, ZenonT(120) DEF TypeOK, FileComplete
  <2>2. ProducerInv' /\ ReplayInv'
    <3>1. pc' = "done"
      BY <1>2, Zenon DEF FileComplete
    <3> QED BY <3>1, Zenon DEF ProducerInv, ReplayInv
  <2> QED BY <1>2, <2>1, <2>2, MoveStep DEF FileComplete, AwaitsResume
<1> QED
  BY <1>1, <1>2, Zenon
=============================================================================
