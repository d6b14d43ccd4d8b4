---------------------------- MODULE PullStreamSteps ---------------------------
(***************************************************************************)
(* What every step of the server does to a serialized value stream, for    *)
(* any number of pullers, any body, chunk size and channel depth: what was *)
(* handed out, the chunk held back, the channel and the producer's buffer  *)
(* stay consecutive stretches of the body.  PullStreamTheorems concludes.  *)
(***************************************************************************)
EXTENDS PullStream, TLAPS

\* The units of a body that follow unit a, as many as s has.
Run(s, a) == \A i \in 1..Len(s) : s[i] = a + i

\* A chunk d that continues a body of u units after unit a.
Follows(d, a, u) == d # <<>> /\ Run(d, a) /\ a + Len(d) <= u

\* The unit after which message i of a channel begins, when the channel itself
\* begins after unit base, and the unit after which the next message will.
Front(base, rx, i) == IF i = 1 THEN base ELSE rx[i - 1].data[Len(rx[i - 1].data)]
Back(base, rx) == Front(base, rx, Len(rx) + 1)

\* The messages of a channel: chunks that continue each other, and a marker in
\* the last place only; End comes after the whole body.
Chain(rx, base, u) ==
    \A i \in 1..Len(rx) :
        /\ rx[i].kind = "Chunk" => Follows(rx[i].data, Front(base, rx, i), u)
        /\ rx[i].kind # "Chunk" => i = Len(rx)
        /\ rx[i].kind = "End" => Front(base, rx, i) = u

\* What a producer goes on with: its buffer continues the channel, and it is
\* not about to send End before the whole body is in the channel.
Ahead(p, rx, back, u) ==
    /\ p.pc # "gone" /\ rx # <<>> => rx[Len(rx)].kind = "Chunk"
    /\ p.pc \in {"write", "send"} =>
          Run(p.buf, back) /\ p.written = back + Len(p.buf) /\ p.written <= u
    /\ p.pc = "send" => p.buf # <<>>
    /\ p.pc = "marker" /\ p.marker = End => back = u

\* The chunk a session holds back: its own lookahead, or the one the next
\* handler that holds its lock has in hand.
Hand(s, t) ==
    IF s.lock = None THEN s.lookahead
    ELSE IF t[s.lock].pc = "lookahead" THEN t[s.lock].current ELSE None

HeldUpTo(h, hand) == IF hand = None THEN Len(h) ELSE Len(h) + Len(hand)

\* What was handed out, the chunk in hand, the channel and the producer of a
\* stream are consecutive stretches of the body.
InOrder(s, p, h, hand, u) ==
    /\ hand # None => Follows(hand, Len(h), u)
    /\ Chain(s.rx, HeldUpTo(h, hand), u)
    /\ Ahead(p, s.rx, Back(HeldUpTo(h, hand), s.rx), u)

StreamOK(s, p, h, last, hand, u) ==
    /\ Run(h, 0) /\ Len(h) <= u
    /\ last => s.done /\ Len(h) = u
    /\ ~s.done => InOrder(s, p, h, hand, u)
-----------------------------------------------------------------------------
Msgs == [kind : {"Chunk", "End", "Fail"}, data : Seq(Nat)]
Sessions == [rx : Seq(Msgs), lookahead : Seq(Nat) \cup {None}, done : BOOLEAN,
             lock : Callers \cup {None}]
Producers == [pc : {"write", "send", "marker", "gone"}, written : Nat, buf : Seq(Nat),
              marker : {End, Fail}]

\* None is no sequence of units.
LEMMA NoneFacts ==
  /\ None \notin Callers /\ None \notin Nat /\ None \notin Seq(Nat)
  /\ Rival \notin Pullers /\ IsFiniteSet(Pullers)
  /\ \A s \in Scenarios : s.units \in Nat
  BY StreamAssumption

\* The two markers, apart from each other and from every chunk.
LEMMA MarkerFacts ==
  /\ End \in Msgs /\ End.kind = "End" /\ Fail \in Msgs /\ Fail.kind = "Fail" /\ End # Fail
<1>1. <<>> \in Seq(Nat)
  OBVIOUS
<1>2. End \in Msgs /\ End.kind = "End"
  BY <1>1 DEF End, Msgs
<1>3. Fail \in Msgs /\ Fail.kind = "Fail"
  BY <1>1 DEF Fail, Msgs
<1>4. QED
  BY <1>2, <1>3

\* Two runs that continue each other are one (Answer hands out one after the other).
LEMMA RunConcat ==
  ASSUME NEW a \in Nat, NEW s \in Seq(Nat), NEW t \in Seq(Nat), Run(s, a), Run(t, a + Len(s))
  PROVE  s \o t \in Seq(Nat) /\ Len(s \o t) = Len(s) + Len(t) /\ Run(s \o t, a)
<1>1. /\ s \o t \in Seq(Nat) /\ Len(s \o t) = Len(s) + Len(t)
      /\ \A i \in 1..(Len(s) + Len(t)) : (s \o t)[i] = IF i <= Len(s) THEN s[i] ELSE t[i - Len(s)]
  OBVIOUS
<1>2. ASSUME NEW i \in 1..(Len(s) + Len(t)) PROVE (s \o t)[i] = a + i
  <2>1. CASE i <= Len(s)
    BY <2>1, <1>1 DEF Run
  <2>2. CASE i > Len(s)
    <3>1. i - Len(s) \in 1..Len(t)
      BY <2>2
    <3>2. (s \o t)[i] = a + Len(s) + (i - Len(s))
      BY <2>2, <3>1, <1>1 DEF Run
    <3>3. QED
      BY <3>2
  <2>3. QED
    BY <2>1, <2>2
<1>3. QED
  BY <1>1, <1>2 DEF Run

\* A run grows by the unit that follows it (ChunkSink::write).
LEMMA RunAppend ==
  ASSUME NEW a \in Nat, NEW s \in Seq(Nat), Run(s, a)
  PROVE  /\ Append(s, a + Len(s) + 1) \in Seq(Nat) /\ Append(s, a + Len(s) + 1) # <<>>
         /\ Len(Append(s, a + Len(s) + 1)) = Len(s) + 1
         /\ Run(Append(s, a + Len(s) + 1), a)
<1> DEFINE l == Append(s, a + Len(s) + 1)
<1>1. l \in Seq(Nat) /\ Len(l) = Len(s) + 1 /\ l[Len(s) + 1] = a + Len(s) + 1
      /\ \A i \in 1..Len(s) : l[i] = s[i]
  OBVIOUS
<1> HIDE DEF l
<1>2. ASSUME NEW i \in 1..(Len(s) + 1) PROVE l[i] = a + i
  <2>1. CASE i \in 1..Len(s)
    BY <2>1, <1>1 DEF Run
  <2>2. CASE i = Len(s) + 1
    BY <2>2, <1>1
  <2>3. QED
    BY <2>1, <2>2
<1>3. Run(l, a) /\ l # <<>>
  BY <1>1, <1>2 DEF Run
<1>4. QED
  BY <1>1, <1>3 DEF l

\* An empty sequence is a run anywhere.
LEMMA RunEmpty == \A a : Run(<<>>, a) /\ Len(<<>>) = 0
  BY DEF Run

\* The last unit of a chunk says where it ends.
LEMMA FollowsEnd ==
  ASSUME NEW d \in Seq(Nat), NEW a \in Nat, NEW u \in Nat, Follows(d, a, u)
  PROVE  Len(d) \in Nat \ {0} /\ d[Len(d)] = a + Len(d) /\ a + Len(d) <= u
<1>1. Len(d) \in Nat \ {0}
  BY DEF Follows
<1>2. QED
  BY <1>1 DEF Follows, Run
-----------------------------------------------------------------------------
\* A chunk taken from the front of a channel leaves a chain (Session::recv).
LEMMA ChainPop ==
  ASSUME NEW rx \in Seq(Msgs), NEW base \in Nat, NEW u \in Nat, Chain(rx, base, u),
         rx # <<>>, Head(rx).kind = "Chunk"
  PROVE  /\ Head(rx).data \in Seq(Nat) /\ Follows(Head(rx).data, base, u)
         /\ Chain(Tail(rx), base + Len(Head(rx).data), u)
         /\ Back(base + Len(Head(rx).data), Tail(rx)) = Back(base, rx)
         /\ Tail(rx) # <<>> => Tail(rx)[Len(Tail(rx))] = rx[Len(rx)]
<1> DEFINE d == Head(rx).data
           next == base + Len(d)
<1>0. Len(rx) \in Nat \ {0} /\ Head(rx) = rx[1] /\ rx[1] \in Msgs
  OBVIOUS
<1>1. Len(rx) \in Nat \ {0} /\ Head(rx) = rx[1] /\ d \in Seq(Nat)
  BY <1>0 DEF Msgs
<1>2. Follows(d, base, u)
  BY <1>1 DEF Chain, Front
<1>3. d[Len(d)] = next
  BY <1>1, <1>2, FollowsEnd, Zenon
<1>4. Tail(rx) \in Seq(Msgs) /\ Len(Tail(rx)) = Len(rx) - 1
      /\ \A i \in 1..(Len(rx) - 1) : Tail(rx)[i] = rx[i + 1]
  BY <1>1
<1>5. ASSUME NEW i \in 1..Len(rx) PROVE Front(next, Tail(rx), i) = Front(base, rx, i + 1)
  <2>1. CASE i = 1
    BY <2>1, <1>1, <1>3 DEF Front
  <2>2. CASE i # 1
    <3>1. Tail(rx)[i - 1] = rx[i]
      BY <2>2, <1>1, <1>4
    <3>2. QED
      BY <2>2, <3>1, <1>1 DEF Front
  <2>3. QED
    BY <2>1, <2>2
<1>6. Chain(Tail(rx), next, u)
  <2> SUFFICES ASSUME NEW i \in 1..Len(Tail(rx))
               PROVE  /\ Tail(rx)[i].kind = "Chunk" =>
                            Follows(Tail(rx)[i].data, Front(next, Tail(rx), i), u)
                      /\ Tail(rx)[i].kind # "Chunk" => i = Len(Tail(rx))
                      /\ Tail(rx)[i].kind = "End" => Front(next, Tail(rx), i) = u
    BY DEF Chain
  <2>1. i \in 1..Len(rx) /\ i + 1 \in 1..Len(rx) /\ Tail(rx)[i] = rx[i + 1]
    BY <1>1, <1>4
  <2>2. Front(next, Tail(rx), i) = Front(base, rx, i + 1)
    BY <2>1, <1>5
  <2>3. /\ rx[i + 1].kind = "Chunk" => Follows(rx[i + 1].data, Front(base, rx, i + 1), u)
        /\ rx[i + 1].kind # "Chunk" => i + 1 = Len(rx)
        /\ rx[i + 1].kind = "End" => Front(base, rx, i + 1) = u
    BY <2>1 DEF Chain
  <2>4. i = Len(Tail(rx)) <=> i + 1 = Len(rx)
    BY <2>1, <1>1, <1>4
  <2>5. QED
    BY <2>1, <2>2, <2>3, <2>4, Zenon
<1>7. Back(next, Tail(rx)) = Back(base, rx)
  BY <1>1, <1>4, <1>5 DEF Back
<1>8. Tail(rx) # <<>> => Tail(rx)[Len(Tail(rx))] = rx[Len(rx)]
  BY <1>1, <1>4
<1>9. QED
  BY <1>1, <1>2, <1>6, <1>7, <1>8

\* A chain without a marker takes one more message: a chunk that continues it
\* or a marker (ChunkSink::send_chunk, produce).
LEMMA ChainPush ==
  ASSUME NEW rx \in Seq(Msgs), NEW base \in Nat, NEW u \in Nat, Chain(rx, base, u),
         rx # <<>> => rx[Len(rx)].kind = "Chunk",
         NEW msg \in Msgs,
         msg.kind = "Chunk" => Follows(msg.data, Back(base, rx), u),
         msg.kind = "End" => Back(base, rx) = u
  PROVE  /\ Append(rx, msg) \in Seq(Msgs) /\ Append(rx, msg)[Len(rx) + 1] = msg
         /\ Len(Append(rx, msg)) = Len(rx) + 1
         /\ Chain(Append(rx, msg), base, u)
         /\ Back(base, Append(rx, msg)) = msg.data[Len(msg.data)]
<1> DEFINE more == Append(rx, msg)
<1>1. more \in Seq(Msgs) /\ Len(rx) \in Nat /\ Len(more) = Len(rx) + 1 /\ more[Len(rx) + 1] = msg
      /\ \A i \in 1..Len(rx) : more[i] = rx[i]
  OBVIOUS
<1>2. ASSUME NEW i \in 1..(Len(rx) + 1) PROVE Front(base, more, i) = Front(base, rx, i)
  BY <1>1 DEF Front
<1>3. Chain(more, base, u)
  <2> SUFFICES ASSUME NEW i \in 1..(Len(rx) + 1)
               PROVE  /\ more[i].kind = "Chunk" => Follows(more[i].data, Front(base, more, i), u)
                      /\ more[i].kind # "Chunk" => i = Len(more)
                      /\ more[i].kind = "End" => Front(base, more, i) = u
    BY <1>1 DEF Chain
  <2>1. CASE i = Len(rx) + 1
    BY <2>1, <1>1, <1>2 DEF Back
  <2>2. CASE i # Len(rx) + 1
    <3>1. i \in 1..Len(rx) /\ more[i] = rx[i]
      BY <2>2, <1>1
    <3>2. rx[i].kind = "Chunk"
      BY <3>1 DEF Chain
    <3>3. QED
      BY <3>1, <3>2, <1>2 DEF Chain
  <2>3. QED
    BY <2>1, <2>2
<1>4. Back(base, more) = msg.data[Len(msg.data)]
  BY <1>1 DEF Back, Front
<1>5. QED
  BY <1>1, <1>3, <1>4

\* The last unit of a chunk is a number.
LEMMA LastOffset ==
  ASSUME NEW d \in Seq(Nat), d # <<>>
  PROVE  d[Len(d)] \in Nat
OBVIOUS

\* Where a chain ends is a place in the body.
LEMMA BackInBody ==
  ASSUME NEW rx \in Seq(Msgs), NEW base \in Nat, NEW u \in Nat, base <= u, Chain(rx, base, u),
         rx # <<>> => rx[Len(rx)].kind = "Chunk"
  PROVE  Back(base, rx) \in Nat /\ Back(base, rx) <= u
<1>0. \A k \in Nat \ {0} : k # 1 => k - 1 \in 1..k /\ k - 1 # k
  OBVIOUS
<1>1. CASE rx = <<>>
  BY <1>1 DEF Back, Front
<1>2. CASE rx # <<>>
  <2> DEFINE n == Len(rx)
             d == rx[n].data
  <2>0. n \in Nat \ {0} /\ rx[n] \in Msgs
    BY <1>2
  <2>1. n \in Nat \ {0} /\ d \in Seq(Nat)
    BY <2>0 DEF Msgs
  <2>2. Follows(d, Front(base, rx, n), u)
    BY <1>2, <2>1 DEF Chain
  <2>3. Front(base, rx, n) \in Nat
    <3>1. CASE n = 1
      BY <3>1 DEF Front
    <3>2. CASE n # 1
      <4>0. n - 1 \in 1..n /\ n - 1 # n
        BY <3>2, <2>1, <1>0, Zenon
      <4>1. n - 1 \in 1..n /\ n - 1 # n /\ rx[n - 1] \in Msgs
        BY <4>0
      <4>2. rx[n - 1].data \in Seq(Nat)
        BY <4>1 DEF Msgs
      <4>3. Follows(rx[n - 1].data, Front(base, rx, n - 1), u)
        BY <4>1 DEF Chain
      <4>4. rx[n - 1].data # <<>>
        BY <4>3 DEF Follows
      <4>5. rx[n - 1].data[Len(rx[n - 1].data)] \in Nat
        BY <4>2, <4>4, LastOffset, Zenon
      <4>6. QED
        BY <3>2, <4>5, Zenon DEF Front
    <3>3. QED
      BY <3>1, <3>2
  <2>4. d[Len(d)] <= u /\ d[Len(d)] \in Nat
    BY <2>1, <2>2, <2>3, FollowsEnd
  <2>5. Back(base, rx) = d[Len(d)]
    BY <2>1 DEF Back, Front
  <2>6. QED
    BY <2>4, <2>5
<1>3. QED
  BY <1>1, <1>2
-----------------------------------------------------------------------------
(***************************************************************************)
(* The inductive invariant.                                                *)
(***************************************************************************)
Created == {id \in StreamIds : id < next_id}

Tasks == [pc : {"idle", "open", "next", "ok", "error"} \cup Holding,
          id : StreamIds \cup {None}, current : Seq(Nat) \cup {None}, last : BOOLEAN]

\* A request that needs a stream names one that was opened.
Names(t, opened) ==
    /\ t.id \in opened \cup {None}
    /\ t.pc \in {"next", "ok"} \cup Holding => t.id \in opened

\* The server's state has its types.
ServerTypes ==
    /\ scenario \in Scenarios /\ next_id \in Nat \ {0} /\ table \subseteq Created
    /\ session \in [StreamIds -> Sessions \cup {None}]
    /\ producer \in [StreamIds -> Producers \cup {None}]
    /\ \A id \in Created : session[id] \in Sessions /\ producer[id] \in Producers
    /\ \A id \in StreamIds \ Created : producer[id] = None
    /\ task \in [Callers -> Tasks] /\ \A c \in Callers : Names(task[c], Created)
    /\ handed \in [StreamIds -> Seq(Nat)] /\ ended \subseteq StreamIds

\* The lock of a session is held by the one next handler that is pulling.
Pulling == {"pull", "lookahead"}
Locks ==
    /\ \A c \in Callers : task[c].pc = "lookahead" => task[c].current # None
    /\ \A c \in Callers : task[c].pc \in Pulling => session[task[c].id].lock = c
    /\ \A id \in Created :
          /\ session[id].done => session[id].lock = None
          /\ session[id].lock # None => /\ task[session[id].lock].pc \in Pulling
                                        /\ task[session[id].lock].id = id

\* Every stream is in order.
Streams ==
    \A id \in StreamIds :
        IF id \in Created
        THEN StreamOK(session[id], producer[id], handed[id], id \in ended,
                      Hand(session[id], task), scenario.units)
        ELSE handed[id] = <<>> /\ id \notin ended

PullPcs == Over \cup {"start", "opening", "reading", "fetching", "commit"}

\* A puller makes one request at a time, and asks for the next chunk of the
\* stream it opened.
OneRequest ==
    /\ pc \in [Pullers -> PullPcs] /\ task[Rival].pc # "open"
    /\ \A p \in Pullers :
          /\ pc[p] = "start" => task[p].pc = "idle"
          /\ pc[p] = "reading" /\ p \notin failed => task[p].pc = "idle" /\ task[p].id \in Created

\* The pullers that have a stream to open.
Unopened == {p \in Pullers : pc[p] = "start" \/ task[p].pc = "open"}

StreamsInv == ServerTypes /\ Locks /\ Streams /\ OneRequest

\* A step keeps the invariant and opens no stream.
Kept == StreamsInv' /\ next_id' = next_id /\ Unopened' \subseteq Unopened

-----------------------------------------------------------------------------
(***************************************************************************)
(* One stream, step by step.                                               *)
(***************************************************************************)
\* A stream that is in order, with its types.
OneStream(s, p, h, last, hand, u) ==
    /\ s \in Sessions /\ p \in Producers /\ h \in Seq(Nat) /\ last \in BOOLEAN
    /\ hand \in Seq(Nat) \cup {None} /\ u \in Nat
    /\ StreamOK(s, p, h, last, hand, u)

\* What is handed out and in hand ends inside the body.
LEMMA HeldInBody ==
  ASSUME NEW s, NEW p, NEW h, NEW last, NEW hand, NEW u,
         OneStream(s, p, h, last, hand, u), ~s.done
  PROVE  /\ HeldUpTo(h, hand) \in Nat /\ HeldUpTo(h, hand) <= u
         /\ s.rx \in Seq(Msgs) /\ Chain(s.rx, HeldUpTo(h, hand), u)
         /\ Ahead(p, s.rx, Back(HeldUpTo(h, hand), s.rx), u)
<1>1. h \in Seq(Nat) /\ Len(h) \in Nat /\ Len(h) <= u /\ u \in Nat
  BY DEF OneStream, StreamOK
<1>2. hand # None => hand \in Seq(Nat) /\ Follows(hand, Len(h), u)
  BY DEF OneStream, StreamOK, InOrder
<1>3. HeldUpTo(h, hand) \in Nat /\ HeldUpTo(h, hand) <= u
  <2>1. CASE hand = None
    BY <2>1, <1>1 DEF HeldUpTo
  <2>2. CASE hand # None
    BY <2>2, <1>1, <1>2, FollowsEnd DEF HeldUpTo
  <2>3. QED
    BY <2>1, <2>2
<1>4. s.rx \in Seq(Msgs)
  BY DEF OneStream, Sessions
<1>5. QED
  BY <1>3, <1>4 DEF OneStream, StreamOK, InOrder

\* A producer that goes on from where it was keeps its stream in order.
LEMMA ProducerMoves ==
  ASSUME NEW s, NEW p, NEW h, NEW last, NEW hand, NEW u, NEW q,
         StreamOK(s, p, h, last, hand, u),
         ~s.done => Ahead(q, s.rx, Back(HeldUpTo(h, hand), s.rx), u)
  PROVE  StreamOK(s, q, h, last, hand, u)
  BY DEF StreamOK, InOrder

\* ChunkSink::write takes the next unit.
LEMMA StreamWrites ==
  ASSUME NEW s, NEW p, NEW h, NEW last, NEW hand, NEW u, NEW q \in Producers,
         OneStream(s, p, h, last, hand, u),
         p.pc = "write", p.written < u, q.pc \in {"write", "send"},
         q.written = p.written + 1, q.buf = Append(p.buf, p.written + 1)
  PROVE  StreamOK(s, q, h, last, hand, u)
<1> DEFINE back == Back(HeldUpTo(h, hand), s.rx)
<1>1. ASSUME ~s.done PROVE Ahead(q, s.rx, back, u)
  <2>1. Ahead(p, s.rx, back, u) /\ s.rx \in Seq(Msgs) /\ u \in Nat
    BY <1>1, HeldInBody, Zenon DEF OneStream
  <2>2. s.rx # <<>> => s.rx[Len(s.rx)].kind = "Chunk"
    BY <2>1 DEF Ahead
  <2>3. back \in Nat
    BY <1>1, <2>2, HeldInBody, BackInBody, Zenon DEF OneStream
  <2>4. p.buf \in Seq(Nat) /\ Run(p.buf, back) /\ p.written = back + Len(p.buf)
    BY <2>1 DEF Ahead, OneStream, Producers
  <2> HIDE DEF back
  <2>5. q.buf \in Seq(Nat) /\ Len(q.buf) = Len(p.buf) + 1 /\ Run(q.buf, back) /\ q.buf # <<>>
    <3>1. q.buf = Append(p.buf, back + Len(p.buf) + 1)
      BY <2>4
    <3>2. QED
      BY <2>3, <2>4, <3>1, RunAppend, Zenon
  <2>6. q.written = back + Len(q.buf) /\ q.written <= u
    BY <2>1, <2>3, <2>4, <2>5
  <2>7. QED
    BY <2>2, <2>5, <2>6 DEF Ahead
<1>2. QED
  BY <1>1, ProducerMoves DEF OneStream

\* The body is written: a partial chunk is sent, or the marker is.
LEMMA StreamFlushes ==
  ASSUME NEW s, NEW p, NEW h, NEW last, NEW hand, NEW u, NEW q \in Producers,
         OneStream(s, p, h, last, hand, u),
         p.pc = "write", p.written = u, q.written = p.written, q.buf = p.buf,
         q.pc = IF p.buf = <<>> THEN "marker" ELSE "send"
  PROVE  StreamOK(s, q, h, last, hand, u)
<1> DEFINE back == Back(HeldUpTo(h, hand), s.rx)
<1>1. ASSUME ~s.done PROVE Ahead(q, s.rx, back, u)
  <2>1. Ahead(p, s.rx, back, u) /\ s.rx \in Seq(Msgs)
    BY <1>1, HeldInBody
  <2>2. s.rx # <<>> => s.rx[Len(s.rx)].kind = "Chunk"
    BY <2>1 DEF Ahead
  <2>3. back \in Nat
    BY <1>1, <2>2, HeldInBody, BackInBody, Zenon DEF OneStream
  <2> HIDE DEF back
  <2>4. Run(p.buf, back) /\ p.written = back + Len(p.buf)
    BY <2>1 DEF Ahead
  <2>5. CASE p.buf = <<>>
    BY <2>2, <2>3, <2>4, <2>5 DEF Ahead
  <2>6. CASE p.buf # <<>>
    BY <2>1, <2>2, <2>4, <2>6 DEF Ahead
  <2>7. QED
    BY <2>5, <2>6, Zenon
<1>2. QED
  BY <1>1, ProducerMoves DEF OneStream

\* A producer that fails or is gone sends no End.
LEMMA StreamBreaks ==
  ASSUME NEW s, NEW p, NEW h, NEW last, NEW hand, NEW u, NEW q \in Producers,
         OneStream(s, p, h, last, hand, u), p.pc # "gone",
         q.pc = "gone" \/ (q.pc = "marker" /\ q.marker = Fail)
  PROVE  StreamOK(s, q, h, last, hand, u)
<1>1. End # Fail
  BY MarkerFacts, Zenon
<1>2. ASSUME ~s.done PROVE Ahead(q, s.rx, Back(HeldUpTo(h, hand), s.rx), u)
  <2>1. Ahead(p, s.rx, Back(HeldUpTo(h, hand), s.rx), u)
    BY <1>2, HeldInBody, Zenon
  <2>2. QED
    BY <1>1, <2>1 DEF Ahead
<1>3. QED
  BY <1>2, ProducerMoves DEF OneStream

\* ChunkSink::send_chunk: the full buffer goes to the end of the channel.
LEMMA StreamSends ==
  ASSUME NEW s, NEW p, NEW h, NEW last, NEW hand, NEW u,
         NEW r \in Sessions, NEW q \in Producers,
         OneStream(s, p, h, last, hand, u), p.pc = "send",
         r.rx = Append(s.rx, Chunk(p.buf)), r.done = s.done,
         q.pc = "write", q.buf = <<>>, q.written = p.written
  PROVE  StreamOK(r, q, h, last, hand, u)
<1> DEFINE base == HeldUpTo(h, hand)
           back == Back(base, s.rx)
<1>1. ASSUME ~s.done PROVE Chain(r.rx, base, u) /\ Ahead(q, r.rx, Back(base, r.rx), u)
  <2>1. /\ base \in Nat /\ base <= u /\ u \in Nat /\ s.rx \in Seq(Msgs)
        /\ Chain(s.rx, base, u) /\ Ahead(p, s.rx, back, u)
    BY <1>1, HeldInBody, Zenon DEF OneStream
  <2>2. s.rx # <<>> => s.rx[Len(s.rx)].kind = "Chunk"
    BY <2>1 DEF Ahead
  <2> HIDE DEF base
  <2>3. back \in Nat
    BY <2>1, <2>2, BackInBody, Zenon
  <2> HIDE DEF back
  <2>4. /\ p.buf \in Seq(Nat) /\ p.written = back + Len(p.buf) /\ p.written <= u
        /\ Follows(p.buf, back, u)
    BY <2>1 DEF Ahead, OneStream, Producers, Follows
  <2>5. Chunk(p.buf) \in Msgs /\ Chunk(p.buf).kind = "Chunk" /\ Chunk(p.buf).data = p.buf
    BY <2>4, Zenon DEF Chunk, Msgs
  <2>6. /\ r.rx \in Seq(Msgs) /\ Len(r.rx) = Len(s.rx) + 1 /\ r.rx[Len(s.rx) + 1] = Chunk(p.buf)
        /\ Chain(r.rx, base, u) /\ Back(base, r.rx) = p.buf[Len(p.buf)]
    <3>1. Follows(p.buf, Back(base, s.rx), u)
      BY <2>4, Zenon DEF back
    <3>2. QED
      BY <2>1, <2>2, <2>5, <3>1, ChainPush
  <2>7. Back(base, r.rx) = p.written
    BY <2>1, <2>3, <2>4, <2>6, FollowsEnd, Zenon
  <2>8. Run(q.buf, p.written) /\ q.written = p.written + Len(q.buf)
    BY <2>3, <2>4, RunEmpty
  <2>9. r.rx[Len(r.rx)].kind = "Chunk"
    BY <2>5, <2>6, Zenon
  <2>10. QED
    BY <2>4, <2>6, <2>7, <2>8, <2>9, Zenon DEF Ahead
<1>2. QED
  BY <1>1, Zenon DEF OneStream, StreamOK, InOrder

\* The end of produce: the marker goes to the end of the channel.
LEMMA StreamMarks ==
  ASSUME NEW s, NEW p, NEW h, NEW last, NEW hand, NEW u,
         NEW r \in Sessions, NEW q \in Producers,
         OneStream(s, p, h, last, hand, u), p.pc = "marker",
         r.rx = Append(s.rx, p.marker), r.done = s.done, q.pc = "gone"
  PROVE  StreamOK(r, q, h, last, hand, u)
<1> DEFINE base == HeldUpTo(h, hand)
<1>1. ASSUME ~s.done PROVE Chain(r.rx, base, u)
  <2>1. /\ base \in Nat /\ u \in Nat /\ s.rx \in Seq(Msgs) /\ Chain(s.rx, base, u)
        /\ Ahead(p, s.rx, Back(base, s.rx), u)
    BY <1>1, HeldInBody, Zenon DEF OneStream
  <2>2. /\ s.rx # <<>> => s.rx[Len(s.rx)].kind = "Chunk"
        /\ p.marker = End => Back(base, s.rx) = u
    BY <2>1, Zenon DEF Ahead
  <2>3. /\ p.marker \in Msgs /\ p.marker.kind # "Chunk"
        /\ p.marker.kind = "End" => p.marker = End
    <3>1. p.marker \in {End, Fail}
      BY DEF OneStream, Producers
    <3>2. QED
      BY <3>1, MarkerFacts
  <2> HIDE DEF base
  <2>4. QED
    BY <2>1, <2>2, <2>3, ChainPush
<1>2. ASSUME ~s.done PROVE Ahead(q, r.rx, Back(base, r.rx), u)
  BY Zenon DEF Ahead
<1>3. QED
  BY <1>1, <1>2, Zenon DEF OneStream, StreamOK, InOrder

\* Session::pull takes a chunk in hand.
LEMMA StreamTakes ==
  ASSUME NEW s, NEW p, NEW h, NEW last, NEW u, NEW r \in Sessions,
         OneStream(s, p, h, last, None, u), ~s.done,
         s.rx # <<>>, Head(s.rx).kind = "Chunk", r.rx = Tail(s.rx), r.done = s.done
  PROVE  /\ Head(s.rx).data \in Seq(Nat)
         /\ StreamOK(r, p, h, last, Head(s.rx).data, u)
<1> DEFINE d == Head(s.rx).data
<1>1. /\ Len(h) \in Nat /\ u \in Nat /\ s.rx \in Seq(Msgs) /\ Chain(s.rx, Len(h), u)
      /\ Ahead(p, s.rx, Back(Len(h), s.rx), u)
  BY HeldInBody DEF OneStream, HeldUpTo
<1>2. /\ d \in Seq(Nat) /\ Follows(d, Len(h), u) /\ Chain(r.rx, Len(h) + Len(d), u)
      /\ Back(Len(h) + Len(d), r.rx) = Back(Len(h), s.rx)
      /\ r.rx # <<>> => r.rx[Len(r.rx)] = s.rx[Len(s.rx)]
  BY <1>1, ChainPop, Zenon
<1>3. d # None
  BY <1>2, NoneFacts
<1>4. HeldUpTo(h, d) = Len(h) + Len(d)
  BY <1>3, Zenon DEF HeldUpTo
<1> HIDE DEF d
<1>5. Ahead(p, r.rx, Back(HeldUpTo(h, d), r.rx), u)
  BY <1>1, <1>2, <1>4, Zenon DEF Ahead
<1>6. StreamOK(r, p, h, last, d, u)
  BY <1>2, <1>4, <1>5, Zenon DEF OneStream, StreamOK, InOrder
<1>7. QED
  BY <1>2, <1>6, Zenon DEF d

\* The chunk in hand is handed out when the next one has come.
LEMMA StreamHands ==
  ASSUME NEW s, NEW p, NEW h, NEW last, NEW hand, NEW u, NEW r \in Sessions,
         OneStream(s, p, h, last, hand, u), hand # None, ~s.done,
         s.rx # <<>>, Head(s.rx).kind = "Chunk", r.rx = Tail(s.rx), r.done = FALSE
  PROVE  /\ h \o hand \in Seq(Nat) /\ Head(s.rx).data \in Seq(Nat)
         /\ StreamOK(r, p, h \o hand, last, Head(s.rx).data, u)
<1> DEFINE d == Head(s.rx).data
           base == Len(h) + Len(hand)
           all == h \o hand
<1>1. /\ h \in Seq(Nat) /\ hand \in Seq(Nat) /\ u \in Nat /\ Run(h, 0)
      /\ Follows(hand, Len(h), u)
  BY Zenon DEF OneStream, StreamOK, InOrder
<1>2. all \in Seq(Nat) /\ Len(all) = base /\ Run(all, 0) /\ base <= u /\ base \in Nat
  <2>1. Run(hand, 0 + Len(h)) /\ Len(h) + Len(hand) <= u
    BY <1>1 DEF Follows
  <2>2. h \o hand \in Seq(Nat) /\ Len(h \o hand) = Len(h) + Len(hand) /\ Run(h \o hand, 0)
    BY <1>1, <2>1, RunConcat, Zenon
  <2>3. QED
    BY <1>1, <2>1, <2>2
<1>3. /\ s.rx \in Seq(Msgs) /\ Chain(s.rx, base, u) /\ Ahead(p, s.rx, Back(base, s.rx), u)
  BY HeldInBody DEF HeldUpTo
<1> HIDE DEF base, all
<1>4. /\ d \in Seq(Nat) /\ Follows(d, base, u) /\ Chain(r.rx, base + Len(d), u)
      /\ Back(base + Len(d), r.rx) = Back(base, s.rx)
      /\ r.rx # <<>> => r.rx[Len(r.rx)] = s.rx[Len(s.rx)]
  BY <1>1, <1>2, <1>3, ChainPop, Zenon
<1>5. d # None
  BY <1>4, NoneFacts
<1>6. HeldUpTo(all, d) = base + Len(d)
  BY <1>2, <1>5, Zenon DEF HeldUpTo
<1> HIDE DEF d
<1>7. Ahead(p, r.rx, Back(HeldUpTo(all, d), r.rx), u)
  BY <1>3, <1>4, <1>6 DEF Ahead
<1>8. ~last
  BY Zenon DEF OneStream, StreamOK
<1>9. StreamOK(r, p, all, last, d, u)
  BY <1>2, <1>4, <1>6, <1>7, <1>8, Zenon DEF StreamOK, InOrder
<1>10. QED
  BY <1>2, <1>4, <1>9, Zenon DEF d, all

\* What a stream has handed out once the chunk in hand, if any, is.
Out(h, hand) == IF hand = None THEN h ELSE h \o hand

LEMMA OutFacts ==
  ASSUME NEW h \in Seq(Nat)
  PROVE  Out(h, None) = h /\ Out(h, <<>>) = h /\ <<>> \in Seq(Nat) /\ <<>> # None
<1>1. <<>> \in Seq(Nat) /\ h \o <<>> = h
  OBVIOUS
<1>2. None \notin Seq(Nat)
  BY NoneFacts
<1>3. <<>> # None
  BY <1>1, <1>2, Zenon
<1>4. QED
  BY <1>1, <1>3, Zenon DEF Out

\* End: the chunk in hand, if any, completes the body.
LEMMA StreamEnds ==
  ASSUME NEW s, NEW p, NEW h, NEW last, NEW hand, NEW u, NEW r \in Sessions,
         OneStream(s, p, h, last, hand, u), ~s.done,
         s.rx # <<>>, Head(s.rx).kind = "End", r.done = TRUE,
         NEW x
  PROVE  Out(h, hand) \in Seq(Nat) /\ StreamOK(r, p, Out(h, hand), TRUE, x, u)
<1> DEFINE g == Out(h, hand)
<1>1. /\ h \in Seq(Nat) /\ u \in Nat /\ Run(h, 0)
      /\ hand # None => hand \in Seq(Nat) /\ Follows(hand, Len(h), u)
  BY Zenon DEF OneStream, StreamOK, InOrder
<1>2. s.rx \in Seq(Msgs) /\ Chain(s.rx, HeldUpTo(h, hand), u)
  BY HeldInBody, Zenon
<1>3. HeldUpTo(h, hand) = u
  BY <1>2 DEF Chain, Front
<1>4. g \in Seq(Nat) /\ Len(g) = u /\ Run(g, 0)
  <2>1. CASE hand = None
    BY <2>1, <1>1, <1>3, Zenon DEF HeldUpTo, Out
  <2>2. CASE hand # None
    <3>1. Run(hand, 0 + Len(h)) /\ hand \in Seq(Nat)
      BY <2>2, <1>1 DEF Follows
    <3>2. Len(h) + Len(hand) = u
      BY <2>2, <1>3, Zenon DEF HeldUpTo
    <3>3. QED
      BY <2>2, <3>1, <3>2, <1>1, RunConcat, Zenon DEF Out
  <2>3. QED
    BY <2>1, <2>2, Zenon
<1> HIDE DEF g
<1>5. g \in Seq(Nat) /\ StreamOK(r, p, g, TRUE, x, u)
  BY <1>1, <1>4 DEF StreamOK
<1>6. QED
  BY <1>5, Zenon DEF g

\* Fail: nothing more is handed out.
LEMMA StreamFails ==
  ASSUME NEW s, NEW p, NEW h, NEW last, NEW hand, NEW u, NEW r,
         OneStream(s, p, h, last, hand, u), ~s.done, r.done = TRUE, NEW x
  PROVE  StreamOK(r, p, h, last, x, u)
  BY Zenon DEF OneStream, StreamOK

-----------------------------------------------------------------------------
(***************************************************************************)
(* Steps of one actor.                                                     *)
(***************************************************************************)
\* What an opened stream is known to be.
LEMMA OpenedStream ==
  ASSUME StreamsInv, NEW id \in Created
  PROVE  /\ id \in StreamIds /\ session[id] \in Sessions /\ producer[id] \in Producers
         /\ OneStream(session[id], producer[id], handed[id], id \in ended,
                      Hand(session[id], task), scenario.units)
<1>1. id \in StreamIds /\ session[id] \in Sessions /\ producer[id] \in Producers
      /\ handed[id] \in Seq(Nat) /\ task \in [Callers -> Tasks]
  BY DEF StreamsInv, ServerTypes, Created
<1>2. scenario.units \in Nat
  BY NoneFacts DEF StreamsInv, ServerTypes
<1>3. Hand(session[id], task) \in Seq(Nat) \cup {None}
  <2>1. session[id].lookahead \in Seq(Nat) \cup {None} /\ session[id].lock \in Callers \cup {None}
    BY <1>1 DEF Sessions
  <2>2. CASE session[id].lock = None
    BY <2>1, <2>2 DEF Hand
  <2>3. CASE session[id].lock # None
    <3>1. task[session[id].lock].current \in Seq(Nat) \cup {None}
      BY <1>1, <2>1, <2>3, Zenon DEF Tasks
    <3>2. QED
      BY <2>3, <3>1 DEF Hand
  <2>4. QED
    BY <2>2, <2>3, Zenon
<1>4. StreamOK(session[id], producer[id], handed[id], id \in ended,
               Hand(session[id], task), scenario.units)
  BY <1>1, Zenon DEF StreamsInv, Streams
<1>5. (id \in ended) \in BOOLEAN
  OBVIOUS
<1>6. QED
  BY <1>1, <1>2, <1>3, <1>4, <1>5, Zenon DEF OneStream

\* A producer thread changes its own stream: what it holds and the end of its
\* channel.
ProducerStep(id, r, q) ==
    /\ id \in Created /\ r \in Sessions /\ q \in Producers
    /\ session' = [session EXCEPT ![id] = r] /\ producer' = [producer EXCEPT ![id] = q]
    /\ r.lock = session[id].lock /\ r.lookahead = session[id].lookahead
    /\ r.done = session[id].done
    /\ StreamOK(r, q, handed[id], id \in ended, Hand(session[id], task), scenario.units)
    /\ UNCHANGED <<scenario, next_id, table, task, handed, ended, pc, failed>>

LEMMA ProducerStepKeeps ==
  ASSUME StreamsInv, NEW id, NEW r, NEW q, ProducerStep(id, r, q)
  PROVE  Kept
<1>1. /\ id \in StreamIds /\ id \in Created /\ r \in Sessions /\ q \in Producers
      /\ Created' = Created
  BY DEF ProducerStep, Created
<1>2. ServerTypes'
  BY <1>1 DEF StreamsInv, ServerTypes, ProducerStep
<1>3. \A j \in Created : session'[j].lock = session[j].lock /\ session'[j].done = session[j].done
                         /\ Hand(session'[j], task) = Hand(session[j], task)
  <2> TAKE j \in Created
  <2>1. j \in StreamIds /\ session \in [StreamIds -> Sessions \cup {None}]
    BY DEF Created, StreamsInv, ServerTypes
  <2>2. CASE j = id
    BY <2>1, <2>2 DEF ProducerStep, Hand
  <2>3. CASE j # id
    BY <2>1, <2>3, Zenon DEF ProducerStep
  <2>4. QED
    BY <2>2, <2>3, Zenon
<1>4. Locks'
  <2>1. \A c \in Callers : task[c].pc \in Pulling => task[c].id \in Created
    BY DEF StreamsInv, ServerTypes, Names, Pulling, Holding
  <2>2. Locks /\ task' = task
    BY Zenon DEF StreamsInv, ProducerStep
  <2>3. \A c \in Callers : task[c].pc \in Pulling => session'[task[c].id].lock = c
    BY <1>3, <2>1, <2>2, Zenon DEF Locks
  <2>4. \A j \in Created :
          /\ session'[j].done => session'[j].lock = None
          /\ session'[j].lock # None => /\ task[session'[j].lock].pc \in Pulling
                                        /\ task[session'[j].lock].id = j
    BY <1>3, <2>2, Zenon DEF Locks
  <2>5. QED
    BY <1>1, <2>2, <2>3, <2>4, Zenon DEF Locks
<1>5. Streams'
  <2> SUFFICES ASSUME NEW j \in StreamIds
               PROVE  IF j \in Created
                      THEN StreamOK(session'[j], producer'[j], handed[j], j \in ended,
                                    Hand(session'[j], task), scenario.units)
                      ELSE handed[j] = <<>> /\ j \notin ended
    BY <1>1, Zenon DEF Streams, ProducerStep
  <2>1. CASE j = id
    <3>1. session'[j] = r /\ producer'[j] = q
      BY <2>1, <1>1, Zenon DEF StreamsInv, ServerTypes, ProducerStep
    <3>2. QED
      BY <2>1, <3>1, <1>1, <1>3, Zenon DEF ProducerStep
  <2>2. CASE j # id
    <3>1. /\ session \in [StreamIds -> Sessions \cup {None}]
          /\ producer \in [StreamIds -> Producers \cup {None}]
      BY Zenon DEF StreamsInv, ServerTypes
    <3>2. session'[j] = session[j] /\ producer'[j] = producer[j]
      BY <2>2, <3>1, Zenon DEF ProducerStep
    <3>3. QED
      BY <3>2, Zenon DEF StreamsInv, Streams
  <2>3. QED
    BY <2>1, <2>2, Zenon
<1>6. OneRequest'
  BY <1>1, Zenon DEF StreamsInv, OneRequest, ProducerStep
<1>7. QED
  BY <1>2, <1>4, <1>5, <1>6, Zenon DEF StreamsInv, Kept, Unopened, ProducerStep

\* The producer thread of a stream keeps the invariant (produce, ChunkSink).
LEMMA ProduceKeeps ==
  ASSUME StreamsInv, NEW id \in StreamIds, Produce(id) \/ ProduceFails(id), ServerOnly
  PROVE  Kept
<1> DEFINE s == session[id]
           p == producer[id]
<1>1. id \in Created
  BY Zenon DEF StreamsInv, ServerTypes, Produce, ProduceFails
<1>2. /\ s \in Sessions /\ p \in Producers
      /\ OneStream(s, p, handed[id], id \in ended, Hand(s, task), scenario.units)
  BY <1>1, OpenedStream
<1>3. /\ session \in [StreamIds -> Sessions \cup {None}]
      /\ producer \in [StreamIds -> Producers \cup {None}]
  BY Zenon DEF StreamsInv, ServerTypes
<1>4. p.pc \in {"write", "send", "marker", "gone"} /\ p.written \in Nat /\ p.buf \in Seq(Nat)
      /\ p.marker \in {End, Fail} /\ s.rx \in Seq(Msgs) /\ <<>> \in Seq(Nat)
  BY <1>2 DEF Producers, Sessions
<1>5. UNCHANGED <<scenario, pc, failed>>
  BY DEF ServerOnly, clientVars
<1> HIDE DEF s, p
<1>6. CASE Write(id)
  <2> DEFINE q == producer'[id]
  <2>1. /\ q = [p EXCEPT !.written = p.written + 1, !.buf = Append(p.buf, p.written + 1),
                  !.pc = IF Len(Append(p.buf, p.written + 1)) >= scenario.chunk_bytes
                         THEN "send" ELSE "write"]
        /\ producer' = [producer EXCEPT ![id] = q] /\ session' = [session EXCEPT ![id] = s]
        /\ p.pc = "write" /\ p.written < scenario.units
        /\ UNCHANGED <<next_id, table, task, handed, ended>>
    BY <1>3, <1>6, Zenon DEF Write, p, s
  <2> HIDE DEF q
  <2>2. /\ q \in Producers /\ q.pc \in {"write", "send"} /\ q.written = p.written + 1
        /\ q.buf = Append(p.buf, p.written + 1)
    <3> DEFINE b == Append(p.buf, p.written + 1)
    <3>1. b \in Seq(Nat) /\ p.written + 1 \in Nat
      BY <1>4
    <3> HIDE DEF b
    <3>2. \E x \in {"write", "send"} :
             q = [p EXCEPT !.written = p.written + 1, !.buf = b, !.pc = x]
      BY <2>1, Zenon DEF b
    <3>3. QED
      BY <3>1, <3>2, <1>2, Zenon DEF Producers, b
  <2>3. StreamOK(s, q, handed[id], id \in ended, Hand(s, task), scenario.units)
    BY <2>1, <2>2, <1>2, StreamWrites, Zenon
  <2>4. ProducerStep(id, s, q)
    BY <2>1, <2>2, <2>3, <1>1, <1>2, <1>5, Zenon DEF ProducerStep, s
  <2>5. QED
    BY <2>4, ProducerStepKeeps
<1>7. CASE FlushRemaining(id)
  <2> DEFINE q == producer'[id]
  <2>1. /\ q = [p EXCEPT !.pc = IF p.buf = <<>> THEN "marker" ELSE "send"]
        /\ producer' = [producer EXCEPT ![id] = q] /\ session' = [session EXCEPT ![id] = s]
        /\ p.pc = "write" /\ p.written = scenario.units
        /\ UNCHANGED <<next_id, table, task, handed, ended>>
    BY <1>3, <1>7 DEF FlushRemaining, p, s
  <2> HIDE DEF q
  <2>2. /\ q \in Producers /\ q.pc = (IF p.buf = <<>> THEN "marker" ELSE "send")
        /\ q.written = p.written /\ q.buf = p.buf
    BY <2>1, <1>2, <1>4 DEF Producers
  <2>3. StreamOK(s, q, handed[id], id \in ended, Hand(s, task), scenario.units)
    BY <2>1, <2>2, <1>2, StreamFlushes, Zenon
  <2>4. ProducerStep(id, s, q)
    BY <2>1, <2>2, <2>3, <1>1, <1>2, <1>5 DEF ProducerStep, s
  <2>5. QED
    BY <2>4, ProducerStepKeeps
<1>8. CASE SendChunk(id) /\ RxAlive(id)
  <2> DEFINE q == producer'[id]
             r == session'[id]
  <2>1. /\ q = [p EXCEPT !.pc = "write", !.buf = <<>>]
        /\ r = [s EXCEPT !.rx = Append(s.rx, Chunk(p.buf))]
        /\ producer' = [producer EXCEPT ![id] = q] /\ session' = [session EXCEPT ![id] = r]
        /\ p.pc = "send"
        /\ UNCHANGED <<next_id, table, task, handed, ended>>
    BY <1>3, <1>8, Zenon DEF SendChunk, Push, p, s
  <2> HIDE DEF q, r
  <2>2. q \in Producers /\ q.pc = "write" /\ q.buf = <<>> /\ q.written = p.written
    BY <2>1, <1>2, <1>4, Zenon DEF Producers
  <2>3. Append(s.rx, Chunk(p.buf)) \in Seq(Msgs)
    <3>1. Chunk(p.buf) \in Msgs
      BY <1>4 DEF Chunk, Msgs
    <3>2. QED
      BY <3>1, <1>4
  <2>4. /\ r \in Sessions /\ r.rx = Append(s.rx, Chunk(p.buf)) /\ r.done = s.done
        /\ r.lock = s.lock /\ r.lookahead = s.lookahead
    BY <2>1, <2>3, <1>2, Zenon DEF Sessions
  <2>5. StreamOK(r, q, handed[id], id \in ended, Hand(s, task), scenario.units)
    BY <2>1, <2>2, <2>4, <1>2, StreamSends, Zenon
  <2>6. ProducerStep(id, r, q)
    BY <2>1, <2>2, <2>4, <2>5, <1>1, <1>5 DEF ProducerStep, s
  <2>7. QED
    BY <2>6, ProducerStepKeeps
<1>9. CASE SendMarker(id) /\ RxAlive(id)
  <2> DEFINE q == producer'[id]
             r == session'[id]
  <2>1. /\ q = [p EXCEPT !.pc = "gone"]
        /\ r = [s EXCEPT !.rx = Append(s.rx, p.marker)]
        /\ producer' = [producer EXCEPT ![id] = q] /\ session' = [session EXCEPT ![id] = r]
        /\ p.pc = "marker"
        /\ UNCHANGED <<next_id, table, task, handed, ended>>
    BY <1>3, <1>9 DEF SendMarker, Push, p, s
  <2> HIDE DEF q, r
  <2>2. q \in Producers /\ q.pc = "gone"
    BY <2>1, <1>2, Zenon DEF Producers
  <2>3. Append(s.rx, p.marker) \in Seq(Msgs)
    BY <1>4, MarkerFacts
  <2>4. /\ r \in Sessions /\ r.rx = Append(s.rx, p.marker) /\ r.done = s.done
        /\ r.lock = s.lock /\ r.lookahead = s.lookahead
    BY <2>1, <2>3, <1>2, Zenon DEF Sessions
  <2>5. StreamOK(r, q, handed[id], id \in ended, Hand(s, task), scenario.units)
    BY <2>1, <2>2, <2>4, <1>2, StreamMarks, Zenon
  <2>6. ProducerStep(id, r, q)
    BY <2>1, <2>2, <2>4, <2>5, <1>1, <1>5 DEF ProducerStep, s
  <2>7. QED
    BY <2>6, ProducerStepKeeps
<1>10. CASE \/ SendChunk(id) /\ ~RxAlive(id)
            \/ SendMarker(id) /\ ~RxAlive(id)
            \/ BodyFails(id) \/ BodyPanics(id)
  <2> DEFINE q == producer'[id]
  <2>1. /\ q \in {[p EXCEPT !.pc = "gone"], [p EXCEPT !.pc = "marker", !.marker = Fail]}
        /\ producer' = [producer EXCEPT ![id] = q] /\ session' = [session EXCEPT ![id] = s]
        /\ p.pc # "gone"
        /\ UNCHANGED <<next_id, table, task, handed, ended>>
    BY <1>3, <1>10, Zenon DEF SendChunk, SendMarker, BodyFails, BodyPanics, p, s
  <2> HIDE DEF q
  <2>2. q \in Producers /\ (q.pc = "gone" \/ (q.pc = "marker" /\ q.marker = Fail))
    BY <2>1, <1>2, Zenon DEF Producers
  <2>3. StreamOK(s, q, handed[id], id \in ended, Hand(s, task), scenario.units)
    BY <2>1, <2>2, <1>2, StreamBreaks
  <2>4. ProducerStep(id, s, q)
    BY <2>1, <2>2, <2>3, <1>1, <1>2, <1>5, Zenon DEF ProducerStep, s
  <2>5. QED
    BY <2>4, ProducerStepKeeps
<1>11. QED
  BY <1>6, <1>7, <1>8, <1>9, <1>10, Zenon DEF Produce, ProduceFails

-----------------------------------------------------------------------------
\* A step that moves requests to and from callers and handlers that hold no
\* lock leaves the streams as they are.
QuietStep ==
    /\ table' \subseteq table /\ task' \in [Callers -> Tasks]
    /\ \A c \in Callers :
          \/ task'[c] = task[c]
          \/ /\ task[c].pc \notin Pulling /\ task'[c].pc \notin Pulling
             /\ Names(task'[c], Created)
    /\ UNCHANGED <<scenario, next_id, session, producer, handed, ended>>

LEMMA QuietStepKeeps ==
  ASSUME StreamsInv, QuietStep, OneRequest', Unopened' \subseteq Unopened
  PROVE  Kept
<1>1. Created' = Created
  BY DEF QuietStep, Created
<1>2. ServerTypes'
  <2>1. \A c \in Callers : Names(task'[c], Created)
    BY DEF QuietStep, StreamsInv, ServerTypes
  <2>2. QED
    BY <1>1, <2>1 DEF StreamsInv, ServerTypes, QuietStep
<1>3. ASSUME NEW id \in Created, session[id].lock # None
      PROVE  task'[session[id].lock] = task[session[id].lock]
  <2>1. session[id].lock \in Callers
    BY <1>3 DEF StreamsInv, ServerTypes, Sessions
  <2>2. task[session[id].lock].pc \in Pulling
    BY <1>3, Zenon DEF StreamsInv, Locks
  <2>3. QED
    BY <2>1, <2>2, Zenon DEF QuietStep
<1>4. Locks'
  <2>1. \A c \in Callers : /\ task'[c].pc \in Pulling => task'[c] = task[c]
                           /\ task'[c].pc = "lookahead" => task'[c] = task[c]
    BY Zenon DEF QuietStep, Pulling
  <2>2. \A c \in Callers : /\ task'[c].pc = "lookahead" => task'[c].current # None
                           /\ task'[c].pc \in Pulling => session[task'[c].id].lock = c
    BY <2>1, Zenon DEF StreamsInv, Locks
  <2>3. ASSUME NEW id \in Created
        PROVE  /\ session[id].done => session[id].lock = None
               /\ session[id].lock # None => /\ task'[session[id].lock].pc \in Pulling
                                             /\ task'[session[id].lock].id = id
    <3>1. /\ session[id].done => session[id].lock = None
          /\ session[id].lock # None => /\ task[session[id].lock].pc \in Pulling
                                        /\ task[session[id].lock].id = id
      BY Zenon DEF StreamsInv, Locks
    <3>2. QED
      BY <1>3, <3>1, Zenon
  <2>4. QED
    BY <1>1, <2>2, <2>3, Zenon DEF Locks, QuietStep
<1>5. Streams'
  <2>1. ASSUME NEW id \in Created PROVE Hand(session[id], task') = Hand(session[id], task)
    <3>1. CASE session[id].lock = None
      BY <3>1 DEF Hand
    <3>2. CASE session[id].lock # None
      BY <3>2, <1>3 DEF Hand
    <3>3. QED
      BY <3>1, <3>2, Zenon
  <2>2. QED
    BY <1>1, <2>1, Zenon DEF StreamsInv, Streams, QuietStep
<1>6. QED
  BY <1>2, <1>4, <1>5 DEF StreamsInv, Kept, QuietStep

\* A handler that serves a request leaves its caller waiting for the answer.
LEMMA ServesOne ==
  ASSUME StreamsInv, NEW c \in Callers, NEW t \in Tasks, task' = [task EXCEPT ![c] = t],
         task[c].pc # "idle", t.pc # "open",
         Created \subseteq Created', UNCHANGED <<pc, failed>>
  PROVE  OneRequest' /\ Unopened' \subseteq Unopened
<1>1. task \in [Callers -> Tasks] /\ Pullers \subseteq Callers /\ Rival \in Callers
  BY DEF StreamsInv, ServerTypes, Callers
<1>2. \A d \in Callers : task'[d] = IF d = c THEN t ELSE task[d]
  BY <1>1
<1>3. OneRequest'
  <2>1. task'[Rival].pc # "open" /\ pc' \in [Pullers -> PullPcs]
    BY <1>1, <1>2, Zenon DEF StreamsInv, OneRequest
  <2>2. ASSUME NEW p \in Pullers
        PROVE  /\ pc[p] = "start" => task'[p].pc = "idle"
               /\ pc[p] = "reading" /\ p \notin failed =>
                    task'[p].pc = "idle" /\ task'[p].id \in Created'
    <3>1. CASE p = c
      BY <3>1, <1>1, Zenon DEF StreamsInv, OneRequest
    <3>2. CASE p # c
      BY <3>2, <1>1, <1>2 DEF StreamsInv, OneRequest
    <3>3. QED
      BY <3>1, <3>2, Zenon
  <2>3. QED
    BY <2>1, <2>2 DEF OneRequest
<1>4. Unopened' \subseteq Unopened
  BY <1>1, <1>2 DEF Unopened
<1>5. QED
  BY <1>3, <1>4

\* Such a step of one handler is quiet.
LEMMA HandlerMoves ==
  ASSUME StreamsInv, NEW c \in Callers, NEW t \in Tasks, task' = [task EXCEPT ![c] = t],
         task[c].pc \notin Pulling \cup {"idle"}, t.pc \notin Pulling \cup {"open"},
         Names(t, Created), table' \subseteq table,
         UNCHANGED <<scenario, next_id, session, producer, handed, ended, pc, failed>>
  PROVE  Kept
<1>1. task \in [Callers -> Tasks]
  BY DEF StreamsInv, ServerTypes
<1>2. \A d \in Callers : task'[d] = IF d = c THEN t ELSE task[d]
  BY <1>1
<1>3. task' \in [Callers -> Tasks]
  BY <1>1
<1>4. QuietStep
  BY <1>2, <1>3 DEF QuietStep
<1>5. Created' = Created
  BY Zenon DEF Created
<1>6. QED
  BY <1>4, <1>5, ServesOne, QuietStepKeeps, Zenon

\* The facts a handler's step starts from.
LEMMA TaskFacts ==
  ASSUME StreamsInv, NEW c \in Callers
  PROVE  /\ task \in [Callers -> Tasks] /\ task[c] \in Tasks /\ Names(task[c], Created)
         /\ session \in [StreamIds -> Sessions \cup {None}]
         /\ task[c].pc \in {"next", "ok"} \cup Holding => task[c].id \in Created
  BY Zenon DEF StreamsInv, ServerTypes, Names

\* The parts of NextHandler::handle before and after the session's lock.
LEMMA NextQuiet ==
  ASSUME StreamsInv, NEW c \in Callers, ServerOnly,
         \/ NextLooksUp(c) \/ NextSettles(c)
         \/ NextLocks(c) /\ session[task[c].id].done
  PROVE  Kept
<1> DEFINE t == task'[c]
<1>1. /\ task \in [Callers -> Tasks] /\ task[c] \in Tasks /\ Names(task[c], Created)
      /\ table \subseteq Created
  BY TaskFacts, Zenon DEF StreamsInv, ServerTypes
<1>2. UNCHANGED <<scenario, pc, failed>>
  BY DEF ServerOnly, clientVars
<1>3. CASE NextLooksUp(c)
  <2>1. PICK x \in {"lock", "error"} : /\ task' = [task EXCEPT ![c].pc = x]
                                       /\ x = "lock" => task[c].id \in table
    BY <1>3, Zenon DEF NextLooksUp, Finish
  <2>2. t = [task[c] EXCEPT !.pc = x] /\ task' = [task EXCEPT ![c] = t]
    BY <2>1, <1>1
  <2> HIDE DEF t
  <2>3. t \in Tasks /\ t.pc = x /\ t.id = task[c].id
    BY <2>2, <1>1, Zenon DEF Tasks, Holding
  <2>4. Names(t, Created)
    BY <2>1, <2>3, <1>1, Zenon DEF Names, Holding
  <2>5. task[c].pc = "next" /\ UNCHANGED <<next_id, table, session, producer, handed, ended>>
    BY <1>3 DEF NextLooksUp
  <2>6. QED
    BY <2>2, <2>3, <2>4, <2>5, <1>2, HandlerMoves, Zenon DEF Pulling
<1>4. CASE NextSettles(c)
  <2>1. PICK x \in {"ok", "error"} : task' = [task EXCEPT ![c].pc = x]
    BY <1>4, Zenon DEF NextSettles, Finish
  <2>2. t = [task[c] EXCEPT !.pc = x] /\ task' = [task EXCEPT ![c] = t]
    BY <2>1, <1>1
  <2> HIDE DEF t
  <2>3. t \in Tasks /\ t.pc = x /\ t.id = task[c].id
    BY <2>2, <1>1 DEF Tasks, Holding
  <2>4. task[c].pc = "settle" /\ table' \subseteq table
        /\ UNCHANGED <<next_id, session, producer, handed, ended>>
    BY <1>4, Zenon DEF NextSettles
  <2>5. Names(t, Created)
    BY <2>3, <2>4, <1>1 DEF Names, Holding
  <2>6. QED
    BY <2>2, <2>3, <2>4, <2>5, <1>2, HandlerMoves, Zenon DEF Pulling
<1>5. CASE NextLocks(c) /\ session[task[c].id].done
  <2>1. /\ task' = [task EXCEPT ![c].pc = "settle", ![c].last = TRUE, ![c].current = None]
        /\ task[c].pc = "lock"
        /\ UNCHANGED <<next_id, table, session, producer, handed, ended>>
    BY <1>5 DEF NextLocks
  <2>2. /\ t = [task[c] EXCEPT !.pc = "settle", !.last = TRUE, !.current = None]
        /\ task' = [task EXCEPT ![c] = t]
    BY <2>1, <1>1, Zenon
  <2> HIDE DEF t
  <2>3. t \in Tasks /\ t.pc = "settle" /\ t.id = task[c].id
    BY <2>2, <1>1, Zenon DEF Tasks, Holding
  <2>4. Names(t, Created)
    BY <2>1, <2>3, <1>1, Zenon DEF Names, Holding
  <2>5. QED
    BY <2>1, <2>2, <2>3, <2>4, <1>2, HandlerMoves, Zenon DEF Pulling
<1>6. QED
  BY <1>3, <1>4, <1>5

\* A next handler that has or takes the lock of its session changes that
\* session, and hands out chunks of that stream alone.
PullStep(c, id, r, t, g, e) ==
    /\ id \in Created /\ task[c].id = id /\ task[c].pc \in {"lock"} \cup Pulling
    /\ task[c].pc = "lock" => session[id].lock = None
    /\ r \in Sessions /\ t \in Tasks /\ g \in Seq(Nat) /\ e \in BOOLEAN
    /\ t.id = id /\ t.pc \in Pulling \cup {"settle"}
    /\ t.pc = "lookahead" => t.current # None
    /\ r.lock = IF t.pc \in Pulling THEN c ELSE None
    /\ r.done => t.pc = "settle"
    /\ session' = [session EXCEPT ![id] = r] /\ task' = [task EXCEPT ![c] = t]
    /\ handed' = [handed EXCEPT ![id] = g]
    /\ ended' = IF e THEN ended \cup {id} ELSE ended \ {id}
    /\ StreamOK(r, producer[id], g, e, Hand(r, task'), scenario.units)
    /\ UNCHANGED <<scenario, next_id, table, producer, pc, failed>>

\* A membership and a flag that are equivalent are equal.
LEMMA SameTruth ==
  ASSUME NEW x, NEW S, NEW e \in BOOLEAN, x \in S <=> e
  PROVE  (x \in S) = e
OBVIOUS

LEMMA PullStepKeeps ==
  ASSUME StreamsInv, NEW c \in Callers, NEW id, NEW r, NEW t, NEW g, NEW e,
         PullStep(c, id, r, t, g, e)
  PROVE  Kept
<1>1. /\ id \in StreamIds /\ id \in Created /\ r \in Sessions /\ t \in Tasks
      /\ g \in Seq(Nat) /\ e \in BOOLEAN /\ Created' = Created
  BY DEF PullStep, Created
<1>2. /\ task \in [Callers -> Tasks] /\ session \in [StreamIds -> Sessions \cup {None}]
      /\ handed \in [StreamIds -> Seq(Nat)] /\ ended \subseteq StreamIds
      /\ Locks /\ Streams
  BY Zenon DEF StreamsInv, ServerTypes
<1>3. /\ t.id = id /\ t.pc \in Pulling \cup {"settle"}
      /\ t.pc = "lookahead" => t.current # None
      /\ r.lock = IF t.pc \in Pulling THEN c ELSE None
      /\ r.done => t.pc = "settle"
      /\ session' = [session EXCEPT ![id] = r] /\ task' = [task EXCEPT ![c] = t]
      /\ handed' = [handed EXCEPT ![id] = g]
      /\ ended' = IF e THEN ended \cup {id} ELSE ended \ {id}
  BY Zenon DEF PullStep
<1>4. task'[c] = t /\ session'[id] = r /\ handed'[id] = g /\ (id \in ended' <=> e)
  BY <1>1, <1>2, <1>3, Zenon
<1>5. /\ \A d \in Callers : d # c => task'[d] = task[d]
      /\ \A j \in StreamIds : j # id => /\ session'[j] = session[j] /\ handed'[j] = handed[j]
                                        /\ j \in ended' <=> j \in ended
  BY <1>2, <1>3, Zenon
<1>6. ServerTypes'
  <2>1. /\ task' \in [Callers -> Tasks] /\ session' \in [StreamIds -> Sessions \cup {None}]
        /\ handed' \in [StreamIds -> Seq(Nat)] /\ ended' \subseteq StreamIds
    BY <1>1, <1>2, <1>3
  <2>2. Names(t, Created)
    BY DEF PullStep, Names
  <2>3. \A d \in Callers : Names(task'[d], Created)
    BY <1>4, <1>5, <2>2, Zenon DEF StreamsInv, ServerTypes
  <2>4. \A j \in Created : session'[j] \in Sessions
    BY <1>1, <1>4, <1>5, Zenon DEF StreamsInv, ServerTypes, Created
  <2>5. QED
    BY <1>1, <2>1, <2>3, <2>4, Zenon DEF StreamsInv, ServerTypes, PullStep
<1>7. ASSUME NEW j \in Created, j # id, session[j].lock # None
      PROVE  session[j].lock \in Callers /\ session[j].lock # c
  BY <1>7, Zenon DEF StreamsInv, ServerTypes, Sessions, Locks, PullStep
<1>8. ASSUME NEW d \in Callers, d # c, task[d].pc \in Pulling
      PROVE  task[d].id \in Created /\ task[d].id # id
  <2>1. task[d].id \in Created /\ session[task[d].id].lock = d
    BY <1>8, Zenon DEF StreamsInv, ServerTypes, Names, Locks, Pulling, Holding
  <2>2. session[id].lock \in {None, c}
    BY <1>2, Zenon DEF Locks, PullStep
  <2>3. d # None
    BY NoneFacts
  <2>4. QED
    BY <1>8, <2>1, <2>2, <2>3, Zenon
<1>9. Locks'
  <2>1. ASSUME NEW d \in Callers
        PROVE  task'[d].pc = "lookahead" => task'[d].current # None
    <3>1. task[d].pc = "lookahead" => task[d].current # None
      BY <1>2, Zenon DEF Locks
    <3>2. task'[d] \in {t, task[d]}
      BY <1>4, <1>5, Zenon
    <3>3. QED
      BY <3>1, <3>2, <1>3, Zenon
  <2>2. ASSUME NEW d \in Callers, task'[d].pc \in Pulling
        PROVE  session'[task'[d].id].lock = d
    <3>1. CASE d = c
      BY <2>2, <3>1, <1>3, <1>4, Zenon
    <3>2. CASE d # c
      <4>1. task'[d] = task[d] /\ task[d].id \in Created /\ task[d].id # id
        BY <2>2, <3>2, <1>5, <1>8, Zenon
      <4>2. session'[task[d].id] = session[task[d].id]
        BY <4>1, <1>5, Zenon DEF Created
      <4>3. task[d].pc \in Pulling => session[task[d].id].lock = d
        BY <1>2, Zenon DEF Locks
      <4>4. QED
        BY <2>2, <4>1, <4>2, <4>3, Zenon
    <3>3. QED
      BY <3>1, <3>2, Zenon
  <2>3. ASSUME NEW j \in Created
        PROVE  /\ session'[j].done => session'[j].lock = None
               /\ session'[j].lock # None => /\ task'[session'[j].lock].pc \in Pulling
                                             /\ task'[session'[j].lock].id = j
    <3>1. CASE j = id
      <4>1. r.done => t.pc \notin Pulling
        BY <1>3, Zenon DEF Pulling
      <4>2. QED
        BY <3>1, <4>1, <1>3, <1>4, Zenon
    <3>2. CASE j # id
      <4>1. session'[j] = session[j]
        BY <3>2, <1>5, Zenon DEF Created
      <4>2. session[j].lock # None => task'[session[j].lock] = task[session[j].lock]
        BY <3>2, <1>5, <1>7, Zenon
      <4>3. /\ session[j].done => session[j].lock = None
            /\ session[j].lock # None => /\ task[session[j].lock].pc \in Pulling
                                         /\ task[session[j].lock].id = j
        BY <1>2, Zenon DEF Locks
      <4>4. QED
        BY <4>1, <4>2, <4>3, Zenon
    <3>3. QED
      BY <3>1, <3>2, Zenon
  <2>4. QED
    BY <1>1, <2>1, <2>2, <2>3, Zenon DEF Locks
<1>10. Streams'
  <2> SUFFICES ASSUME NEW j \in StreamIds
               PROVE  IF j \in Created
                      THEN StreamOK(session'[j], producer[j], handed'[j], j \in ended',
                                    Hand(session'[j], task'), scenario.units)
                      ELSE handed'[j] = <<>> /\ j \notin ended'
    BY <1>1, Zenon DEF Streams, PullStep
  <2>1. CASE j = id
    <3>0. session'[j] = r /\ handed'[j] = g /\ ((j \in ended') <=> e)
      BY <2>1, <1>1, <1>4, Zenon
    <3>1. session'[j] = r /\ handed'[j] = g /\ (j \in ended') = e
      BY <3>0, <1>1, SameTruth, Zenon
    <3>2. QED
      BY <2>1, <3>1, <1>1, Zenon DEF PullStep
  <2>2. CASE j # id
    <3>1. session'[j] = session[j] /\ handed'[j] = handed[j] /\ (j \in ended') = (j \in ended)
      <4>1. session'[j] = session[j] /\ handed'[j] = handed[j] /\ (j \in ended' <=> j \in ended)
        BY <2>2, <1>5, Zenon
      <4>2. (j \in ended') = (j \in ended)
        BY <4>1
      <4>3. QED
        BY <4>1, <4>2, Zenon
    <3>2. j \in Created => Hand(session[j], task') = Hand(session[j], task)
      <4>1. CASE session[j].lock = None
        BY <4>1, Zenon DEF Hand
      <4>2. CASE j \in Created /\ session[j].lock # None
        <5>1. task'[session[j].lock] = task[session[j].lock]
          BY <4>2, <2>2, <1>5, <1>7, Zenon
        <5>2. QED
          BY <5>1, Zenon DEF Hand
      <4>3. QED
        BY <4>1, <4>2, Zenon
    <3>3. QED
      BY <3>1, <3>2, <1>2, Zenon DEF Streams
  <2>3. QED
    BY <2>1, <2>2, Zenon
<1>11. OneRequest' /\ Unopened' \subseteq Unopened
  BY <1>1, ServesOne, Zenon DEF PullStep, Pulling
<1>12. QED
  BY <1>6, <1>9, <1>10, <1>11, Zenon DEF StreamsInv, Kept, PullStep

\* What a handler that holds the lock knows of its stream.
LEMMA HolderFacts ==
  ASSUME StreamsInv, NEW c \in Callers, task[c].pc \in Pulling
  PROVE  /\ task[c].id \in Created /\ task[c].id \in StreamIds
         /\ session[task[c].id].lock = c /\ ~session[task[c].id].done
         /\ task[c].id \notin ended
         /\ Hand(session[task[c].id], task) =
               IF task[c].pc = "lookahead" THEN task[c].current ELSE None
         /\ OneStream(session[task[c].id], producer[task[c].id], handed[task[c].id], FALSE,
                      Hand(session[task[c].id], task), scenario.units)
<1> DEFINE id == task[c].id
<1>1. id \in Created
  BY TaskFacts, Zenon DEF Pulling, Holding
<1>2. session[id].lock = c /\ c # None
  BY NoneFacts, Zenon DEF StreamsInv, Locks
<1>3. ~session[id].done
  BY <1>1, <1>2, Zenon DEF StreamsInv, Locks
<1>4. /\ id \in StreamIds
      /\ OneStream(session[id], producer[id], handed[id], id \in ended,
                   Hand(session[id], task), scenario.units)
  BY <1>1, OpenedStream, Zenon
<1>5. id \notin ended
  BY <1>3, <1>4, Zenon DEF OneStream, StreamOK
<1>6. (id \in ended) = FALSE
  BY <1>5
<1>7. QED
  BY <1>1, <1>2, <1>3, <1>4, <1>5, <1>6, Zenon DEF Hand

\* The session as a pull that answers leaves it.
Released(s, last) == [s EXCEPT !.lock = None, !.done = last]

LEMMA ReleasedFacts ==
  ASSUME NEW s \in Sessions, NEW last \in BOOLEAN
  PROVE  /\ Released(s, last) \in Sessions /\ Released(s, last).lock = None
         /\ Released(s, last).done = last /\ Released(s, last).rx = s.rx
         /\ Released(s, last).lookahead = s.lookahead
  BY Zenon DEF Released, Sessions

\* A pull that answers keeps the invariant when the stream stays in order.
LEMMA AnswerKeeps ==
  ASSUME StreamsInv, NEW c \in Callers, task[c].pc \in Pulling, NEW s \in Sessions,
         NEW d \in Seq(Nat) \cup {None}, NEW last \in BOOLEAN, Answer(c, s, d, last),
         UNCHANGED <<scenario, next_id, table, producer, pc, failed>>,
         Out(handed[task[c].id], d) \in Seq(Nat),
         StreamOK(Released(s, last), producer[task[c].id], Out(handed[task[c].id], d),
                  last /\ d # None, s.lookahead, scenario.units)
  PROVE  Kept
<1> DEFINE id == task[c].id
           r == Released(s, last)
           g == Out(handed[id], d)
           t == [task[c] EXCEPT !.pc = "settle", !.current = d, !.last = last]
           e == last /\ d # None
<1>1. id \in Created /\ id \in StreamIds /\ id \notin ended
  BY HolderFacts, Zenon
<1>2. /\ task \in [Callers -> Tasks] /\ task[c] \in Tasks
      /\ session \in [StreamIds -> Sessions \cup {None}]
  BY TaskFacts, Zenon
<1>3. r \in Sessions /\ r.lock = None /\ r.lookahead = s.lookahead /\ r.done = last
  BY ReleasedFacts, Zenon
<1>4. t \in Tasks /\ t.id = id /\ t.pc = "settle"
  BY <1>2, Zenon DEF Tasks, Holding
<1>5. /\ session' = [session EXCEPT ![id] = r] /\ task' = [task EXCEPT ![c] = t]
      /\ ended' = IF e THEN ended \cup {id} ELSE ended \ {id}
  BY <1>1, <1>2, Zenon DEF Answer, Released
<1>6. handed' = [handed EXCEPT ![id] = g]
  BY Zenon DEF Answer, Out
<1>7. e \in BOOLEAN
  BY Zenon
<1> HIDE DEF r, t, e, g
<1>8. Hand(r, task') = s.lookahead
  BY <1>3, Zenon DEF Hand
<1>9. StreamOK(r, producer[id], g, e, Hand(r, task'), scenario.units)
  BY <1>8, Zenon DEF r, e, g
<1>10. g \in Seq(Nat)
  BY Zenon DEF g
<1>11. PullStep(c, id, r, t, g, e)
  BY <1>1, <1>3, <1>4, <1>5, <1>6, <1>7, <1>9, <1>10, Zenon DEF PullStep, Pulling
<1>12. QED
  BY <1>11, PullStepKeeps, Zenon

\* NextHandler takes the lock: a chunk held back is in hand at once.
LEMMA NextLocksKeeps ==
  ASSUME StreamsInv, NEW c \in Callers, ServerOnly, NextLocks(c), ~session[task[c].id].done
  PROVE  Kept
<1> DEFINE id == task[c].id
           s == session[id]
           r == [s EXCEPT !.lock = c, !.lookahead = None]
           t == IF s.lookahead = None THEN [task[c] EXCEPT !.pc = "pull"]
                ELSE [task[c] EXCEPT !.pc = "lookahead", !.current = s.lookahead]
<1>1. /\ task[c].pc = "lock" /\ s.lock = None
      /\ UNCHANGED <<next_id, table, producer, handed, ended>>
  BY Zenon DEF NextLocks
<1>2. /\ task \in [Callers -> Tasks] /\ task[c] \in Tasks /\ id \in Created
      /\ session \in [StreamIds -> Sessions \cup {None}]
  BY <1>1, TaskFacts, Zenon DEF Holding
<1>3. /\ id \in StreamIds /\ s \in Sessions
      /\ OneStream(s, producer[id], handed[id], id \in ended, Hand(s, task), scenario.units)
  BY <1>2, OpenedStream, Zenon
<1>4. id \notin ended
  BY <1>3, Zenon DEF OneStream, StreamOK
<1>5. /\ r \in Sessions /\ r.lock = c /\ r.done = s.done /\ r.rx = s.rx
      /\ s.lookahead \in Seq(Nat) \cup {None}
  BY <1>3, Zenon DEF Sessions
<1>6. /\ t \in Tasks /\ t.id = id
      /\ t.pc = (IF s.lookahead = None THEN "pull" ELSE "lookahead")
      /\ s.lookahead # None => t.current = s.lookahead
  <2>1. CASE s.lookahead = None
    BY <2>1, <1>2, Zenon DEF Tasks, Holding
  <2>2. CASE s.lookahead # None
    BY <2>2, <1>2, <1>5, Zenon DEF Tasks, Holding
  <2>3. QED
    BY <2>1, <2>2
<1>7. session' = [session EXCEPT ![id] = r] /\ task' = [task EXCEPT ![c] = t]
  <2>1. session' = [session EXCEPT ![id] = r]
    BY <1>2, <1>3, Zenon DEF NextLocks
  <2>2. CASE s.lookahead = None
    BY <2>1, <2>2, <1>2 DEF NextLocks
  <2>3. CASE s.lookahead # None
    BY <2>1, <2>3, <1>2, Zenon DEF NextLocks
  <2>4. QED
    BY <2>1, <2>2, <2>3
<1>8. handed' = [handed EXCEPT ![id] = handed[id]] /\ handed[id] \in Seq(Nat)
      /\ ended' = ended \ {id}
  BY <1>1, <1>3, <1>4, Zenon DEF StreamsInv, ServerTypes
<1>9. UNCHANGED <<scenario, pc, failed>>
  BY DEF ServerOnly, clientVars
<1>10. task'[c] = t /\ c # None
  BY <1>2, <1>7, NoneFacts, Zenon
<1> HIDE DEF r, t
<1>11. Hand(r, task') = Hand(s, task)
  BY <1>1, <1>5, <1>6, <1>10, Zenon DEF Hand
<1>12. StreamOK(r, producer[id], handed[id], FALSE, Hand(r, task'), scenario.units)
  <2>1. StreamOK(s, producer[id], handed[id], id \in ended, Hand(s, task), scenario.units)
    BY <1>3, Zenon DEF OneStream
  <2>2. QED
    BY <2>1, <1>4, <1>5, <1>11, Zenon DEF StreamOK, InOrder
<1>13. PullStep(c, id, r, t, handed[id], FALSE)
  BY <1>1, <1>2, <1>5, <1>6, <1>7, <1>8, <1>9, <1>12, Zenon DEF PullStep, Pulling
<1>14. QED
  BY <1>13, PullStepKeeps, Zenon

\* The front of a channel, and what is left behind it.
LEMMA QueuePop ==
  ASSUME NEW S, NEW q \in Seq(S), q # <<>>
  PROVE  Tail(q) \in Seq(S) /\ Head(q) \in S
OBVIOUS

\* Session::recv takes the message at the front of the channel.
LEMMA RecvFacts ==
  ASSUME NEW s \in Sessions
  PROVE  /\ Popped(s) \in Sessions /\ Popped(s).lock = s.lock /\ Popped(s).done = s.done
         /\ Popped(s).lookahead = s.lookahead
         /\ s.rx # <<>> => /\ Popped(s).rx = Tail(s.rx) /\ Head(s.rx) \in Msgs
                           /\ Head(s.rx).kind = "Chunk" => Head(s.rx).data \in Seq(Nat)
<1>1. s.rx \in Seq(Msgs) /\ <<>> \in Seq(Msgs)
  BY DEF Sessions
<1>2. CASE s.rx = <<>>
  BY <1>1, <1>2 DEF Popped, Sessions
<1>3. CASE s.rx # <<>>
  <2>1. Tail(s.rx) \in Seq(Msgs) /\ Head(s.rx) \in Msgs
    BY <1>1, <1>3, QueuePop, Zenon
  <2>2. Popped(s) = [s EXCEPT !.rx = Tail(s.rx)]
    BY <1>3 DEF Popped
  <2>3. Head(s.rx).data \in Seq(Nat)
    BY <2>1 DEF Msgs
  <2>4. QED
    BY <1>3, <2>1, <2>2, <2>3, Zenon DEF Sessions
<1>4. QED
  BY <1>2, <1>3, Zenon

\* Session::pull without a chunk in hand keeps the invariant.
LEMMA PullKeeps ==
  ASSUME StreamsInv, NEW c \in Callers, ServerOnly, Pull(c)
  PROVE  Kept
<1> DEFINE id == task[c].id
           old == session[id]
           s == Popped(old)
<1>1. /\ task[c].pc = "pull" /\ task[c].pc \in Pulling
      /\ UNCHANGED <<next_id, table, producer>>
  BY DEF Pull, Pulling
<1>2. /\ id \in Created /\ id \in StreamIds /\ old.lock = c /\ ~old.done /\ id \notin ended
      /\ OneStream(old, producer[id], handed[id], FALSE, None, scenario.units)
  BY <1>1, HolderFacts, Zenon
<1>3. /\ task \in [Callers -> Tasks] /\ task[c] \in Tasks
      /\ session \in [StreamIds -> Sessions \cup {None}]
  BY TaskFacts
<1>4. UNCHANGED <<scenario, pc, failed>>
  BY DEF ServerOnly, clientVars
<1>5. old \in Sessions /\ handed[id] \in Seq(Nat) /\ handed \in [StreamIds -> Seq(Nat)]
  BY <1>2, Zenon DEF OneStream, StreamsInv, ServerTypes
<1>6. /\ s \in Sessions /\ s.lock = c /\ s.done = old.done /\ s.done = FALSE /\ s.lookahead = old.lookahead
      /\ s.lookahead \in Seq(Nat) \cup {None}
      /\ old.rx # <<>> => /\ s.rx = Tail(old.rx) /\ Head(old.rx) \in Msgs
                          /\ Head(old.rx).kind = "Chunk" => Head(old.rx).data \in Seq(Nat)
  <2>1. s \in Sessions /\ s.lock = c /\ s.done = old.done
    BY <1>2, <1>5, RecvFacts, Zenon
  <2>2. s.done = FALSE /\ s.lookahead \in Seq(Nat) \cup {None}
    BY <1>2, <2>1, Zenon DEF Sessions
  <2>3. QED
    BY <1>5, <2>1, <2>2, RecvFacts, Zenon
<1> DEFINE Takes(msg) ==
             /\ session' = [session EXCEPT ![id] = s]
             /\ task' = [task EXCEPT ![c].pc = "lookahead", ![c].current = msg.data]
             /\ UNCHANGED <<handed, ended>>
<1>7. PICK msg : /\ Recv(id, msg)
                 /\ CASE msg.kind = "Chunk" -> Takes(msg)
                      [] msg.kind = "End"  -> Answer(c, s, <<>>, TRUE)
                      [] msg.kind = "Fail" -> Answer(c, s, None, TRUE)
  BY Zenon DEF Pull
<1>8. \/ old.rx # <<>> /\ msg = Head(old.rx)
      \/ msg = Fail
  BY <1>7 DEF Recv, Channel
<1>9. msg.kind \in {"Chunk", "End", "Fail"}
  <2>1. msg \in Msgs
    BY <1>6, <1>8, MarkerFacts, Zenon
  <2>2. QED
    BY <2>1, Zenon DEF Msgs
<1>10. /\ msg.kind = "Chunk" => Takes(msg)
       /\ msg.kind = "End" => Answer(c, s, <<>>, TRUE)
       /\ msg.kind = "Fail" => Answer(c, s, None, TRUE)
  BY <1>7, Zenon
<1> HIDE DEF s, old
<1>11. CASE msg.kind = "Chunk"
  <2> DEFINE t == [task[c] EXCEPT !.pc = "lookahead", !.current = msg.data]
  <2>1. old.rx # <<>> /\ msg = Head(old.rx) /\ msg.data \in Seq(Nat) /\ s.rx = Tail(old.rx)
    BY <1>6, <1>8, <1>11, MarkerFacts, Zenon
  <2>2. /\ session' = [session EXCEPT ![id] = s] /\ task' = [task EXCEPT ![c] = t]
        /\ UNCHANGED <<handed, ended>>
    BY <1>3, <1>10, <1>11, Zenon
  <2>3. t \in Tasks /\ t.id = id /\ t.pc = "lookahead" /\ t.current = msg.data /\ msg.data # None
    BY <2>1, <1>3, NoneFacts, Zenon DEF Tasks, Holding
  <2>4. task'[c] = t /\ c # None
    BY <2>2, <1>3, NoneFacts, ZenonT(30)
  <2> HIDE DEF t
  <2>5. Hand(s, task') = msg.data
    BY <2>3, <2>4, <1>6, ZenonT(30) DEF Hand
  <2>6. StreamOK(s, producer[id], handed[id], FALSE, Hand(s, task'), scenario.units)
    <3>1. StreamOK(s, producer[id], handed[id], FALSE, Head(old.rx).data, scenario.units)
      BY <2>1, <1>2, <1>6, <1>11, StreamTakes, Zenon
    <3>2. QED
      BY <2>1, <2>5, <3>1, Zenon
  <2>7. handed' = [handed EXCEPT ![id] = handed[id]] /\ ended' = ended \ {id}
    BY <2>2, <1>2, <1>5, Zenon
  <2>8. PullStep(c, id, s, t, handed[id], FALSE)
    BY <2>2, <2>3, <2>6, <2>7, <1>1, <1>2, <1>4, <1>5, <1>6, Zenon DEF PullStep, Pulling
  <2>9. QED
    BY <2>8, PullStepKeeps, Zenon
<1>12. CASE msg.kind = "End"
  <2>1. old.rx # <<>> /\ Head(old.rx).kind = "End" /\ Answer(c, s, <<>>, TRUE)
    BY <1>10, <1>8, <1>12, MarkerFacts, Zenon
  <2>2. Released(s, TRUE) \in Sessions /\ Released(s, TRUE).done = TRUE
    BY <1>6, ReleasedFacts, Zenon
  <2>3. StreamOK(Released(s, TRUE), producer[id], Out(handed[id], None), TRUE, s.lookahead,
                 scenario.units)
    BY <2>1, <2>2, <1>2, StreamEnds, Zenon
  <2>4. /\ Out(handed[id], None) = handed[id] /\ Out(handed[id], <<>>) = handed[id]
        /\ <<>> \in Seq(Nat) /\ <<>> # None
    BY <1>5, OutFacts
  <2>5. StreamOK(Released(s, TRUE), producer[id], Out(handed[id], <<>>), TRUE /\ <<>> # None,
                 s.lookahead, scenario.units)
    BY <2>3, <2>4, Zenon
  <2>6. QED
    BY <2>1, <2>4, <2>5, <1>1, <1>4, <1>5, <1>6, AnswerKeeps, Zenon
<1>13. CASE msg.kind = "Fail"
  <2>1. Answer(c, s, None, TRUE)
    BY <1>10, <1>13, Zenon
  <2>2. Released(s, TRUE).done = TRUE
    BY <1>6, ReleasedFacts, Zenon
  <2>3. StreamOK(Released(s, TRUE), producer[id], handed[id], FALSE, s.lookahead, scenario.units)
    BY <2>2, <1>2, StreamFails, Zenon
  <2>4. Out(handed[id], None) = handed[id] /\ (TRUE /\ None # None) = FALSE
    BY DEF Out
  <2>5. StreamOK(Released(s, TRUE), producer[id], Out(handed[id], None), TRUE /\ None # None,
                 s.lookahead, scenario.units)
    BY <2>3, <2>4, Zenon
  <2>6. QED
    BY <2>1, <2>4, <2>5, <1>1, <1>4, <1>5, <1>6, AnswerKeeps, Zenon
<1>14. QED
  BY <1>9, <1>11, <1>12, <1>13

\* Session::pull with a chunk in hand keeps the invariant: the chunk is handed
\* out when another chunk or End follows it, and dropped when Fail does.
LEMMA LookaheadKeeps ==
  ASSUME StreamsInv, NEW c \in Callers, ServerOnly, Lookahead(c)
  PROVE  Kept
<1> DEFINE id == task[c].id
           old == session[id]
           s == Popped(old)
           d == task[c].current
<1>1. /\ task[c].pc = "lookahead" /\ task[c].pc \in Pulling
      /\ UNCHANGED <<next_id, table, producer>>
  BY DEF Lookahead, Pulling
<1>2. /\ id \in StreamIds /\ ~old.done
      /\ OneStream(old, producer[id], handed[id], FALSE, d, scenario.units)
  BY <1>1, HolderFacts, Zenon
<1>3. d # None /\ d \in Seq(Nat)
  BY <1>1, <1>2, Zenon DEF StreamsInv, Locks, OneStream
<1>4. UNCHANGED <<scenario, pc, failed>>
  BY DEF ServerOnly, clientVars
<1>5. old \in Sessions /\ handed[id] \in Seq(Nat)
  BY <1>2, Zenon DEF OneStream
<1>6. /\ s \in Sessions
      /\ old.rx # <<>> => s.rx = Tail(old.rx) /\ Head(old.rx) \in Msgs
  BY <1>5, RecvFacts
<1>7. PICK msg : /\ Recv(id, msg)
                 /\ CASE msg.kind = "Chunk" -> Answer(c, [s EXCEPT !.lookahead = msg.data], d, FALSE)
                      [] msg.kind = "End"  -> Answer(c, s, d, TRUE)
                      [] msg.kind = "Fail" -> Answer(c, s, None, TRUE)
  BY Zenon DEF Lookahead
<1>8. \/ old.rx # <<>> /\ msg = Head(old.rx)
      \/ msg = Fail
  BY <1>7, Zenon DEF Recv, Channel
<1>9. msg.kind \in {"Chunk", "End", "Fail"}
  <2>1. msg \in Msgs
    BY <1>6, <1>8, MarkerFacts
  <2>2. QED
    BY <2>1 DEF Msgs
<1>10. /\ msg.kind = "Chunk" => Answer(c, [s EXCEPT !.lookahead = msg.data], d, FALSE)
       /\ msg.kind = "End" => Answer(c, s, d, TRUE)
       /\ msg.kind = "Fail" => Answer(c, s, None, TRUE)
  BY <1>7, Zenon
<1> HIDE DEF s, old, d
<1>11. CASE msg.kind = "Chunk"
  <2> DEFINE x == [s EXCEPT !.lookahead = msg.data]
  <2>1. old.rx # <<>> /\ Head(old.rx).kind = "Chunk" /\ msg = Head(old.rx) /\ s.rx = Tail(old.rx)
    BY <1>6, <1>8, <1>11, MarkerFacts, Zenon
  <2>2. msg.data \in Seq(Nat)
    BY <2>1, <1>6 DEF Msgs
  <2>3. x \in Sessions /\ x.lookahead = msg.data /\ x.rx = s.rx
    BY <2>2, <1>6, Zenon DEF Sessions
  <2>4. Answer(c, x, d, FALSE)
    BY <1>10, <1>11, Zenon
  <2> HIDE DEF x
  <2>5. /\ Released(x, FALSE) \in Sessions /\ Released(x, FALSE).rx = Tail(old.rx)
        /\ Released(x, FALSE).done = FALSE
    BY <2>1, <2>3, ReleasedFacts, Zenon
  <2>6. Out(handed[id], d) = handed[id] \o d /\ (FALSE /\ d # None) = FALSE
    BY <1>3, Zenon DEF Out
  <2>7. /\ handed[id] \o d \in Seq(Nat)
        /\ StreamOK(Released(x, FALSE), producer[id], handed[id] \o d, FALSE,
                    Head(old.rx).data, scenario.units)
    BY <2>1, <2>5, <1>2, <1>3, StreamHands, Zenon
  <2>8. /\ Out(handed[id], d) \in Seq(Nat)
        /\ StreamOK(Released(x, FALSE), producer[id], Out(handed[id], d), FALSE /\ d # None,
                    x.lookahead, scenario.units)
    BY <2>1, <2>3, <2>6, <2>7, Zenon
  <2>9. QED
    BY <2>3, <2>4, <2>8, <1>1, <1>3, <1>4, AnswerKeeps, Zenon
<1>12. CASE msg.kind = "End"
  <2>1. old.rx # <<>> /\ Head(old.rx).kind = "End" /\ Answer(c, s, d, TRUE)
    BY <1>10, <1>8, <1>12, MarkerFacts, Zenon
  <2>2. Released(s, TRUE) \in Sessions /\ Released(s, TRUE).done = TRUE
    BY <1>6, ReleasedFacts, Zenon
  <2>3. /\ Out(handed[id], d) \in Seq(Nat)
        /\ StreamOK(Released(s, TRUE), producer[id], Out(handed[id], d), TRUE, s.lookahead,
                    scenario.units)
    BY <2>1, <2>2, <1>2, StreamEnds, Zenon
  <2>4. (TRUE /\ d # None) = TRUE
    BY <1>3
  <2>5. StreamOK(Released(s, TRUE), producer[id], Out(handed[id], d), TRUE /\ d # None,
                 s.lookahead, scenario.units)
    BY <2>3, <2>4, Zenon
  <2>6. QED
    BY <2>1, <2>3, <2>5, <1>1, <1>3, <1>4, <1>6, AnswerKeeps, Zenon
<1>13. CASE msg.kind = "Fail"
  <2>1. Answer(c, s, None, TRUE)
    BY <1>10, <1>13, Zenon
  <2>2. Released(s, TRUE).done = TRUE
    BY <1>6, ReleasedFacts, Zenon
  <2>3. StreamOK(Released(s, TRUE), producer[id], handed[id], FALSE, s.lookahead, scenario.units)
    BY <2>2, <1>2, StreamFails, Zenon
  <2>4. Out(handed[id], None) = handed[id] /\ (TRUE /\ None # None) = FALSE
    BY DEF Out
  <2>5. StreamOK(Released(s, TRUE), producer[id], Out(handed[id], None), TRUE /\ None # None,
                 s.lookahead, scenario.units)
    BY <2>3, <2>4, Zenon
  <2>6. QED
    BY <2>1, <2>4, <2>5, <1>1, <1>4, <1>5, <1>6, AnswerKeeps, Zenon
<1>14. QED
  BY <1>9, <1>11, <1>12, <1>13

=============================================================================
