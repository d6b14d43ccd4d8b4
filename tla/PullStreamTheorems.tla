-------------------------- MODULE PullStreamTheorems --------------------------
(***************************************************************************)
(* The theorems about the serialized value stream, from the steps of       *)
(* PullStreamSteps: opening a stream, the pullers, the rival and the       *)
(* faults keep the invariant too, and the invariant says that chunks are   *)
(* handed out once and in order.                                           *)
(***************************************************************************)
EXTENDS PullStreamSteps, FiniteSetTheorems

\* A stream that was just opened is in order.
FreshSession == [rx |-> <<>>, lookahead |-> None, done |-> FALSE, lock |-> None]
FreshProducer == [pc |-> "write", written |-> 0, buf |-> <<>>, marker |-> End]

LEMMA FreshStream ==
  ASSUME NEW u \in Nat, NEW tasks
  PROVE  /\ FreshSession \in Sessions /\ FreshSession.lock = None /\ FreshSession.done = FALSE
         /\ FreshProducer \in Producers
         /\ StreamOK(FreshSession, FreshProducer, <<>>, FALSE, Hand(FreshSession, tasks), u)
<1> DEFINE s == FreshSession
           p == FreshProducer
<1>1. /\ s \in Sessions /\ s.lock = None /\ s.done = FALSE /\ s.rx = <<>> /\ s.lookahead = None
  BY DEF FreshSession, Sessions
<1>2. p \in Producers /\ p.pc = "write" /\ p.written = 0 /\ p.buf = <<>>
  BY DEF FreshProducer, Producers
<1> HIDE DEF s, p
<1>3. Hand(s, tasks) = None
  BY <1>1 DEF Hand
<1>4. HeldUpTo(<<>>, None) = 0 /\ Back(0, <<>>) = 0 /\ Run(<<>>, 0)
  <2>1. Run(<<>>, 0)
    BY RunEmpty
  <2>2. QED
    BY <2>1 DEF HeldUpTo, Back, Front
<1>5. Chain(<<>>, 0, u)
  BY DEF Chain
<1>6. Ahead(p, <<>>, 0, u)
  BY <1>2, <1>4 DEF Ahead
<1>7. InOrder(s, p, <<>>, None, u)
  BY <1>1, <1>4, <1>5, <1>6, Zenon DEF InOrder
<1>8. StreamOK(s, p, <<>>, FALSE, None, u)
  BY <1>1, <1>4, <1>7 DEF StreamOK
<1>9. QED
  BY <1>1, <1>2, <1>3, <1>8, Zenon DEF s, p

\* OpenHandler::handle refuses a method it does not serve.
LEMMA OpenRefused ==
  ASSUME StreamsInv, NEW c \in Callers, ServerOnly, Open(c), ~scenario.known
  PROVE  Kept
<1>1. /\ task[c].pc = "open" /\ UNCHANGED <<handed, ended>>
      /\ UNCHANGED <<scenario, pc, failed>>
  BY DEF Open, ServerOnly, clientVars
<1>2. task \in [Callers -> Tasks] /\ task[c] \in Tasks /\ Names(task[c], Created)
  BY TaskFacts
<1> DEFINE t == [task[c] EXCEPT !.pc = "error"]
<1>3. /\ task' = [task EXCEPT ![c] = t]
      /\ UNCHANGED <<next_id, table, session, producer>>
  BY <1>2 DEF Open, Finish
<1>4. t \in Tasks /\ t.pc = "error" /\ t.id = task[c].id
  BY <1>2 DEF Tasks
<1> HIDE DEF t
<1>5. Names(t, Created)
  BY <1>4, <1>2 DEF Names, Holding
<1>6. QED
  BY <1>3, <1>4, <1>5, <1>1, HandlerMoves, Zenon DEF Pulling

\* The puller whose request it serves has no other stream to open.
LEMMA OpenFacts ==
  ASSUME StreamsInv, NEW c \in Callers, ServerOnly, Open(c), scenario.known
  PROVE  next_id' = next_id + 1 /\ c \in Unopened /\ Unopened' = Unopened \ {c}
<1>1. task[c].pc = "open" /\ pc' = pc
  BY DEF Open, ServerOnly, clientVars
<1>2. /\ c \in Pullers /\ pc[c] # "start" /\ Pullers \subseteq Callers
      /\ task \in [Callers -> Tasks] /\ task[c] \in Tasks
  BY <1>1, TaskFacts, Zenon DEF StreamsInv, OneRequest, Callers
<1> DEFINE t == [task[c] EXCEPT !.pc = "ok", !.id = next_id]
<1>3. next_id' = next_id + 1 /\ task' = [task EXCEPT ![c] = t]
  BY Zenon DEF Open
<1>4. t.pc = "ok"
  BY <1>2 DEF Tasks
<1> HIDE DEF t
<1>5. task'[c].pc # "open" /\ \A d \in Pullers \ {c} : task'[d] = task[d]
  BY <1>2, <1>3, <1>4, Zenon
<1>6. QED
  BY <1>1, <1>2, <1>3, <1>5, Zenon DEF Unopened

\* What is not a member has membership FALSE.
LEMMA NotIn ==
  ASSUME NEW x, NEW S, x \notin S
  PROVE  (x \in S) = FALSE
OBVIOUS

\* The stream it opens is fresh, and leaves the others as they were.
LEMMA OpenStreams ==
  ASSUME StreamsInv, NEW c \in Callers, ServerOnly, Open(c), scenario.known,
         next_id \in StreamIds
  PROVE  StreamsInv'
<1>1. /\ task[c].pc = "open" /\ UNCHANGED <<handed, ended>>
      /\ UNCHANGED <<scenario, pc, failed>>
  BY DEF Open, ServerOnly, clientVars
<1>2. task \in [Callers -> Tasks] /\ task[c] \in Tasks /\ Names(task[c], Created)
  BY TaskFacts
<1> DEFINE n == next_id
           t == [task[c] EXCEPT !.pc = "ok", !.id = n]
<1>3. /\ n' = n + 1 /\ table' = table \cup {n} /\ task' = [task EXCEPT ![c] = t]
      /\ session' = [session EXCEPT ![n] = FreshSession]
      /\ producer' = [producer EXCEPT ![n] = FreshProducer]
  BY <1>2, Zenon DEF Open, FreshSession, FreshProducer
<1>4. t.pc = "ok" /\ t.id = n
  BY <1>2 DEF Tasks
<1>5. \A d \in Callers : task'[d] = IF d = c THEN t ELSE task[d]
  BY <1>3, <1>2, Zenon
<1>6. n \in StreamIds /\ n \notin Created
  BY DEF StreamsInv, ServerTypes, Created
<1>7. t \in Tasks
  BY <1>6, <1>2, Zenon DEF Tasks
<1> HIDE DEF t
<1>8. Created' = Created \cup {n}
  BY <1>3, <1>6 DEF Created, StreamIds
<1> HIDE DEF n
<1>9. /\ session \in [StreamIds -> Sessions \cup {None}]
      /\ producer \in [StreamIds -> Producers \cup {None}]
      /\ scenario.units \in Nat /\ n \in Nat \ {0}
  BY NoneFacts DEF StreamsInv, ServerTypes, n
<1>10. /\ FreshSession \in Sessions /\ FreshSession.lock = None /\ FreshSession.done = FALSE
       /\ FreshProducer \in Producers
       /\ StreamOK(FreshSession, FreshProducer, <<>>, FALSE, Hand(FreshSession, task'),
                   scenario.units)
  BY <1>9, FreshStream, Zenon
<1>11. /\ \A j \in StreamIds : session'[j] = IF j = n THEN FreshSession ELSE session[j]
       /\ \A j \in StreamIds : producer'[j] = IF j = n THEN FreshProducer ELSE producer[j]
  BY <1>3, <1>9, Zenon
<1>12. ServerTypes'
  <2>1. task' \in [Callers -> Tasks]
    BY <1>3, <1>7, <1>2, Zenon
  <2>2. /\ session' \in [StreamIds -> Sessions \cup {None}]
        /\ producer' \in [StreamIds -> Producers \cup {None}]
    BY <1>3, <1>9, <1>10, Zenon
  <2>3. \A d \in Callers : Names(task'[d], Created')
    <3>1. Names(t, Created')
      BY <1>4, <1>8, Zenon DEF Names
    <3>2. \A d \in Callers : Names(task[d], Created')
      BY <1>8 DEF Names, StreamsInv, ServerTypes
    <3>3. QED
      BY <3>1, <3>2, <1>5, Zenon
  <2>4. \A j \in Created' : session'[j] \in Sessions /\ producer'[j] \in Producers
    BY <1>6, <1>8, <1>10, <1>11, Zenon DEF StreamsInv, ServerTypes, Created
  <2>5. \A j \in StreamIds \ Created' : producer'[j] = None
    BY <1>8, <1>11, Zenon DEF StreamsInv, ServerTypes
  <2>6. next_id' \in Nat \ {0} /\ table' \subseteq Created'
    <3>1. next_id \in Nat \ {0} /\ table \subseteq Created
      BY Zenon DEF StreamsInv, ServerTypes
    <3>2. next_id' \in Nat \ {0}
      BY <3>1, <1>3 DEF n
    <3>3. QED
      BY <3>1, <3>2, <1>3, <1>8, Zenon
  <2>7. QED
    BY <2>1, <2>2, <2>3, <2>4, <2>5, <2>6, <1>1, Zenon DEF StreamsInv, ServerTypes
<1>13. ASSUME NEW j \in Created, session[j].lock # None
       PROVE  session[j].lock \in Callers /\ session[j].lock # c
  BY <1>13, <1>1, Zenon DEF StreamsInv, ServerTypes, Sessions, Locks, Pulling
<1>14. Locks'
  <2>1. ASSUME NEW d \in Callers
        PROVE  task'[d].pc = "lookahead" => task'[d].current # None
    <3>1. task[d].pc = "lookahead" => task[d].current # None
      BY Zenon DEF StreamsInv, Locks
    <3>2. QED
      BY <3>1, <1>4, <1>5, Zenon
  <2>2. ASSUME NEW d \in Callers, task'[d].pc \in Pulling
        PROVE  session'[task'[d].id].lock = d
    <3>1. task'[d] = task[d]
      BY <2>2, <1>4, <1>5, Zenon DEF Pulling
    <3>2. task[d].id \in Created /\ session[task[d].id].lock = d
      <4>1. /\ Names(task[d], Created)
            /\ task[d].pc \in Pulling => session[task[d].id].lock = d
        BY Zenon DEF StreamsInv, ServerTypes, Locks
      <4>2. QED
        BY <2>2, <3>1, <4>1, Zenon DEF Names, Pulling, Holding
    <3>3. task[d].id \in StreamIds /\ task[d].id # n
      BY <3>2, <1>6, Zenon DEF Created
    <3>4. session'[task[d].id] = session[task[d].id]
      BY <3>3, <1>11, Zenon
    <3>5. QED
      BY <3>1, <3>2, <3>4, Zenon
  <2>3. ASSUME NEW j \in Created'
        PROVE  /\ session'[j].done => session'[j].lock = None
               /\ session'[j].lock # None => /\ task'[session'[j].lock].pc \in Pulling
                                             /\ task'[session'[j].lock].id = j
    <3>1. CASE j = n
      BY <3>1, <1>6, <1>10, <1>11, Zenon
    <3>2. CASE j # n
      <4>1. j \in Created /\ session'[j] = session[j]
        BY <3>2, <1>8, <1>11, Zenon DEF Created
      <4>2. /\ session[j].done => session[j].lock = None
            /\ session[j].lock # None => /\ task[session[j].lock].pc \in Pulling
                                         /\ task[session[j].lock].id = j
        BY <4>1, Zenon DEF StreamsInv, Locks
      <4>3. session[j].lock # None => task'[session[j].lock] = task[session[j].lock]
        BY <4>1, <1>5, <1>13, Zenon
      <4>4. QED
        BY <4>1, <4>2, <4>3, Zenon
    <3>3. QED
      BY <3>1, <3>2, Zenon
  <2>4. QED
    BY <2>1, <2>2, <2>3, Zenon DEF Locks
<1>15. Streams'
  <2> SUFFICES ASSUME NEW j \in StreamIds
               PROVE  IF j \in Created'
                      THEN StreamOK(session'[j], producer'[j], handed[j], j \in ended,
                                    Hand(session'[j], task'), scenario.units)
                      ELSE handed[j] = <<>> /\ j \notin ended
    BY <1>1 DEF Streams
  <2>1. CASE j = n
    <3>1. handed[j] = <<>> /\ (j \in ended) = FALSE /\ j \in Created'
      <4>1. j \in Created' /\ j \notin Created
        BY <2>1, <1>6, <1>8, Zenon
      <4>2. handed[j] = <<>> /\ j \notin ended
        BY <4>1, Zenon DEF StreamsInv, Streams
      <4>3. (j \in ended) = FALSE
        BY <4>2, NotIn, Zenon
      <4>4. QED
        BY <4>1, <4>2, <4>3, Zenon
    <3>2. session'[j] = FreshSession /\ producer'[j] = FreshProducer
      BY <2>1, <1>11, Zenon
    <3>3. QED
      BY <3>1, <3>2, <1>10, Zenon
  <2>2. CASE j # n
    <3>1. session'[j] = session[j] /\ producer'[j] = producer[j] /\ (j \in Created' <=> j \in Created)
      BY <2>2, <1>8, <1>11, Zenon
    <3>2. j \in Created => Hand(session[j], task') = Hand(session[j], task)
      <4>1. CASE session[j].lock = None
        BY <4>1, Zenon DEF Hand
      <4>2. CASE j \in Created /\ session[j].lock # None
        BY <4>2, <1>5, <1>13, Zenon DEF Hand
      <4>3. QED
        BY <4>1, <4>2, Zenon
    <3>3. QED
      BY <3>1, <3>2, Zenon DEF StreamsInv, Streams
  <2>3. QED
    BY <2>1, <2>2, Zenon
<1>16. OneRequest'
  <2>1. Created \subseteq Created' /\ t.pc # "open" /\ task[c].pc # "idle"
    BY <1>4, <1>8, <1>1, Zenon
  <2>2. QED
    BY <2>1, <1>3, <1>7, <1>1, ServesOne, Zenon
<1>17. QED
  BY <1>12, <1>14, <1>15, <1>16, Zenon DEF StreamsInv

-----------------------------------------------------------------------------
(***************************************************************************)
(* Steps of the pullers, the rival and the network.                        *)
(***************************************************************************)
\* A step that touches neither requests nor streams; CancelHandler::handle
\* lets go of a session, which its stream does not notice.
LEMMA SameKeeps ==
  ASSUME StreamsInv, table' \subseteq table,
         UNCHANGED <<scenario, next_id, session, producer, task, handed, ended, pc, failed>>
  PROVE  Kept
<1>1. QuietStep
  BY DEF QuietStep, StreamsInv, ServerTypes
<1>2. OneRequest' /\ Unopened' = Unopened
  BY DEF StreamsInv, OneRequest, Unopened, Created
<1>3. QED
  BY <1>1, <1>2, QuietStepKeeps, Zenon

\* A puller moves on with at most one request, to no handler that pulls.
ClientMove(p, x, t) ==
    /\ x \in PullPcs /\ t \in Tasks
    /\ pc' = [pc EXCEPT ![p] = x] /\ task' = [task EXCEPT ![p] = t]
    /\ \/ t = task[p]
       \/ task[p].pc \notin Pulling /\ t.pc \notin Pulling /\ Names(t, Created)
    /\ x = "start" => pc[p] = "start" /\ t.pc = "idle"
    /\ t.pc = "open" => pc[p] = "start" \/ task[p].pc = "open"
    /\ x = "reading" /\ p \notin failed' => t.pc = "idle" /\ t.id \in Created
    /\ failed \subseteq failed'
    /\ UNCHANGED <<scenario, next_id, table, session, producer, handed, ended>>

LEMMA ClientMoveKeeps ==
  ASSUME StreamsInv, NEW p \in Pullers, NEW x, NEW t, ClientMove(p, x, t)
  PROVE  Kept
<1>1. /\ task \in [Callers -> Tasks] /\ pc \in [Pullers -> PullPcs] /\ t \in Tasks
      /\ p \in Callers /\ Pullers \subseteq Callers /\ Rival \in Callers /\ Rival # p
  BY NoneFacts, Zenon DEF StreamsInv, ServerTypes, OneRequest, Callers, ClientMove
<1>2. /\ \A d \in Callers : task'[d] = IF d = p THEN t ELSE task[d]
      /\ \A q \in Pullers : pc'[q] = IF q = p THEN x ELSE pc[q]
      /\ pc' \in [Pullers -> PullPcs] /\ task' \in [Callers -> Tasks]
  BY <1>1 DEF ClientMove
<1>3. Created' = Created
  BY DEF Created, ClientMove
<1>4. QuietStep
  BY <1>2, Zenon DEF QuietStep, ClientMove
<1>5. OneRequest'
  <2>1. task'[Rival].pc # "open"
    BY <1>1, <1>2, Zenon DEF StreamsInv, OneRequest
  <2>2. ASSUME NEW q \in Pullers
        PROVE  /\ pc'[q] = "start" => task'[q].pc = "idle"
               /\ pc'[q] = "reading" /\ q \notin failed' =>
                    task'[q].pc = "idle" /\ task'[q].id \in Created
    <3>1. CASE q = p
      BY <3>1, <1>1, <1>2, Zenon DEF ClientMove
    <3>2. CASE q # p
      <4>1. pc'[q] = pc[q] /\ task'[q] = task[q] /\ (q \notin failed' => q \notin failed)
        BY <3>2, <1>1, <1>2, Zenon DEF ClientMove
      <4>2. QED
        BY <4>1, Zenon DEF StreamsInv, OneRequest
    <3>3. QED
      BY <3>1, <3>2, Zenon
  <2>3. QED
    BY <2>1, <2>2, <1>2, <1>3, Zenon DEF OneRequest
<1>6. Unopened' \subseteq Unopened
  <2> SUFFICES ASSUME NEW q \in Pullers, pc'[q] = "start" \/ task'[q].pc = "open"
               PROVE  pc[q] = "start" \/ task[q].pc = "open"
    BY DEF Unopened
  <2>1. CASE q = p
    BY <2>1, <1>1, <1>2, Zenon DEF ClientMove
  <2>2. CASE q # p
    BY <2>2, <1>1, <1>2, Zenon
  <2>3. QED
    BY <2>1, <2>2, Zenon
<1>7. QED
  BY <1>4, <1>5, <1>6, QuietStepKeeps, Zenon

\* The rival asks for a chunk of a stream in the table, and takes its answer.
LEMMA RivalKeeps ==
  ASSUME StreamsInv, RivalActs \/ RivalDone, ServerOnly
  PROVE  Kept
<1>1. /\ task \in [Callers -> Tasks] /\ Rival \in Callers /\ table \subseteq Created
      /\ Pullers \subseteq Callers /\ Rival \notin Pullers
  BY NoneFacts, Zenon DEF StreamsInv, ServerTypes, Callers
<1>2. /\ UNCHANGED <<scenario, pc, failed>>
      /\ UNCHANGED <<next_id, table, session, producer, handed, ended>>
  BY DEF ServerOnly, clientVars, RivalActs, RivalDone
<1>3. CASE task' = task
  BY <1>2, <1>3, SameKeeps, Zenon
<1>4. CASE \E t \in Tasks : /\ task' = [task EXCEPT ![Rival] = t] /\ task[Rival].pc \notin Pulling
                            /\ t.pc \notin Pulling /\ t.pc # "open" /\ Names(t, Created)
  <2>1. PICK t \in Tasks : /\ task' = [task EXCEPT ![Rival] = t] /\ task[Rival].pc \notin Pulling
                           /\ t.pc \notin Pulling /\ t.pc # "open" /\ Names(t, Created)
    BY <1>4, Zenon
  <2>2. \A d \in Callers : task'[d] = IF d = Rival THEN t ELSE task[d]
    BY <2>1, <1>1, Zenon
  <2>3. QuietStep
    BY <2>1, <2>2, <1>1, <1>2, Zenon DEF QuietStep
  <2>4. \A q \in Pullers : task'[q] = task[q]
    BY <2>2, <1>1, Zenon
  <2>5. Created' = Created
    BY <1>2, Zenon DEF Created
  <2>6. OneRequest'
    BY <2>1, <2>2, <2>4, <2>5, <1>1, <1>2, Zenon DEF StreamsInv, OneRequest
  <2>7. Unopened' \subseteq Unopened
    BY <2>4, <1>2, Zenon DEF Unopened
  <2>8. QED
    BY <2>3, <2>6, <2>7, QuietStepKeeps, Zenon
<1>5. CASE RivalDone
  <2>1. /\ task' = [task EXCEPT ![Rival] = Idle] /\ task[Rival].pc \notin Pulling
    BY <1>5 DEF RivalDone, Pulling
  <2>2. Idle \in Tasks /\ Idle.pc = "idle" /\ Idle.id = None
    BY DEF Idle, Tasks
  <2>3. Names(Idle, Created) /\ Idle.pc \notin Pulling
    BY <2>2 DEF Names, Holding, Pulling
  <2>4. QED
    BY <2>1, <2>2, <2>3, <1>4, Zenon
<1>6. CASE RivalActs /\ task' # task
  <2>1. PICK id \in table : task' = [task EXCEPT ![Rival] = Request("next", id)]
    BY <1>6 DEF RivalActs
  <2> DEFINE t == Request("next", id)
  <2>2. t \in Tasks /\ t.pc = "next" /\ t.id = id
    BY <1>1 DEF Request, Tasks, Created
  <2>3. task[Rival].pc \notin Pulling
    BY <1>6 DEF RivalActs, Idle, Pulling
  <2> HIDE DEF t
  <2>4. Names(t, Created) /\ t.pc \notin Pulling /\ t.pc # "open"
    BY <2>2, <1>1, Zenon DEF Names, Holding, Pulling
  <2>5. QED
    BY <2>1, <2>2, <2>3, <2>4, <1>4, Zenon DEF t
<1>7. QED
  BY <1>3, <1>5, <1>6, Zenon

\* The requests a puller makes, and the state it is in when it has its answer.
LEMMA RequestFacts ==
  ASSUME StreamsInv, NEW p \in Pullers
  PROVE  /\ Request("open", None) \in Tasks /\ Request("open", None).pc = "open"
         /\ Request("open", None).id = None
         /\ \A id \in Created : /\ Request("next", id) \in Tasks /\ Request("next", id).pc = "next"
                                /\ Request("next", id).id = id
         /\ Idle \in Tasks /\ Idle.pc = "idle" /\ Idle.id = None
         /\ [Idle EXCEPT !.id = task[p].id] \in Tasks
         /\ [Idle EXCEPT !.id = task[p].id].pc = "idle"
         /\ [Idle EXCEPT !.id = task[p].id].id = task[p].id
<1>1. task[p].id \in StreamIds \cup {None}
  BY TaskFacts, Zenon DEF Callers, Tasks
<1>2. /\ Idle \in Tasks /\ Idle.pc = "idle" /\ Idle.id = None
      /\ Request("open", None) \in Tasks /\ Request("open", None).pc = "open"
      /\ Request("open", None).id = None
  BY DEF Request, Idle, Tasks
<1>3. ASSUME NEW id \in Created
      PROVE  /\ Request("next", id) \in Tasks /\ Request("next", id).pc = "next"
             /\ Request("next", id).id = id
  BY DEF Request, Tasks, Created
<1>4. /\ [Idle EXCEPT !.id = task[p].id] \in Tasks
      /\ [Idle EXCEPT !.id = task[p].id].pc = "idle"
      /\ [Idle EXCEPT !.id = task[p].id].id = task[p].id
  BY <1>1, <1>2, Zenon DEF Tasks
<1>5. QED
  BY <1>2, <1>3, <1>4, Zenon

\* A puller with no answer to take, or none to come, keeps its task.
LEMMA ClientStaysKeeps ==
  ASSUME StreamsInv, NEW p \in Pullers, NEW x \in PullPcs, x \notin {"start", "reading"},
         pc' = [pc EXCEPT ![p] = x], task' = task, failed' = failed,
         pc[p] # "start" \/ task[p].pc = "idle",
         UNCHANGED <<scenario, next_id, table, session, producer, handed, ended>>
  PROVE  Kept
<1>1. task \in [Callers -> Tasks] /\ p \in Callers /\ task[p] \in Tasks
  BY TaskFacts, Zenon DEF Callers
<1>2. task' = [task EXCEPT ![p] = task[p]]
  BY <1>1
<1>3. ClientMove(p, x, task[p])
  BY <1>1, <1>2, Zenon DEF ClientMove
<1>4. QED
  BY <1>3, ClientMoveKeeps

\* Every step of a puller keeps the invariant.
LEMMA ClientKeeps ==
  ASSUME StreamsInv, NEW p \in Pullers, ClientSteps(p)
  PROVE  Kept
<1> DEFINE got_answer == [Idle EXCEPT !.id = task[p].id]
<1>1. /\ task \in [Callers -> Tasks] /\ p \in Callers /\ task[p] \in Tasks
      /\ Names(task[p], Created) /\ pc \in [Pullers -> PullPcs]
  BY TaskFacts, Zenon DEF Callers, StreamsInv, OneRequest
<1>2. /\ got_answer \in Tasks /\ got_answer.pc = "idle" /\ got_answer.id = task[p].id
  BY RequestFacts
<1> HIDE DEF got_answer
<1>3. Names(got_answer, Created) /\ got_answer.pc \notin Pulling /\ got_answer.pc # "open"
  BY <1>1, <1>2, Zenon DEF Names, Holding, Pulling
<1>4. CASE StartOpen(p)
  <2> DEFINE t == Request("open", None)
  <2>1. /\ pc[p] = "start" /\ pc' = [pc EXCEPT ![p] = "opening"] /\ task' = [task EXCEPT ![p] = t]
        /\ UNCHANGED <<scenario, next_id, table, session, producer, handed, ended, failed>>
    BY <1>4 DEF StartOpen, Send
  <2>2. t \in Tasks /\ t.pc = "open" /\ t.id = None
    BY RequestFacts, Zenon
  <2> HIDE DEF t
  <2>3. Names(t, Created) /\ t.pc \notin Pulling
    BY <2>2, Zenon DEF Names, Holding, Pulling
  <2>4. task[p].pc \notin Pulling
    BY <2>1, Zenon DEF StreamsInv, OneRequest, Pulling
  <2>5. ClientMove(p, "opening", t)
    BY <2>1, <2>2, <2>3, <2>4, Zenon DEF ClientMove, PullPcs, Over
  <2>6. QED
    BY <2>5, ClientMoveKeeps, Zenon
<1>5. CASE Opened(p)
  <2>1. /\ task[p].pc \in {"ok", "error"} /\ task' = [task EXCEPT ![p] = got_answer]
        /\ UNCHANGED <<scenario, next_id, table, session, producer, handed, ended, failed>>
    BY <1>5 DEF Opened, Received, got_answer
  <2>2. \/ pc' = [pc EXCEPT ![p] = "done"]
        \/ pc' = [pc EXCEPT ![p] = "reading"] /\ task[p].pc # "error"
    BY <1>5 DEF Opened, Ends
  <2>3. task[p].pc # "error" => task[p].id \in Created
    BY <2>1, <1>1, Zenon DEF Names
  <2>4. ClientMove(p, "done", got_answer) \/ ClientMove(p, "reading", got_answer)
    BY <2>1, <2>2, <2>3, <1>2, <1>3, Zenon DEF ClientMove, Pulling, PullPcs, Over
  <2>5. QED
    BY <2>4, ClientMoveKeeps, Zenon
<1>6. CASE Fetch(p)
  <2> DEFINE t == Request("next", task[p].id)
  <2>1. /\ pc[p] = "reading" /\ p \notin failed
        /\ pc' = [pc EXCEPT ![p] = "fetching"] /\ task' = [task EXCEPT ![p] = t]
        /\ UNCHANGED <<scenario, next_id, table, session, producer, handed, ended, failed>>
    BY <1>6, Zenon DEF Fetch, Send, Stream
  <2>2. task[p].pc = "idle" /\ task[p].id \in Created
    BY <2>1 DEF StreamsInv, OneRequest
  <2>3. t \in Tasks /\ t.pc = "next" /\ t.id = task[p].id
    BY <2>2, RequestFacts, Zenon
  <2> HIDE DEF t
  <2>4. Names(t, Created) /\ t.pc \notin Pulling
    BY <2>2, <2>3, Zenon DEF Names, Holding, Pulling
  <2>5. ClientMove(p, "fetching", t)
    BY <2>1, <2>2, <2>3, <2>4, Zenon DEF ClientMove, Pulling, PullPcs, Over
  <2>6. QED
    BY <2>5, ClientMoveKeeps, Zenon
<1>7. CASE Fetched(p)
  <2>1. /\ task[p].pc = "ok" /\ task' = [task EXCEPT ![p] = got_answer]
        /\ pc' = [pc EXCEPT ![p] = "reading"]
        /\ UNCHANGED <<scenario, next_id, table, session, producer, handed, ended, failed>>
    BY <1>7, Zenon DEF Fetched, Received, got_answer
  <2>2. task[p].id \in Created
    BY <2>1, <1>1, Zenon DEF Names
  <2>3. ClientMove(p, "reading", got_answer)
    BY <2>1, <2>2, <1>2, <1>3, Zenon DEF ClientMove, Pulling, PullPcs, Over
  <2>4. QED
    BY <2>3, ClientMoveKeeps, Zenon
<1>8. CASE CallFails(p)
  <2>1. UNCHANGED <<scenario, next_id, table, session, producer, handed, ended>>
    BY <1>8, Zenon DEF CallFails
  <2>2. \/ pc' = [pc EXCEPT ![p] = "done"] /\ failed' = failed
        \/ pc' = [pc EXCEPT ![p] = "reading"] /\ failed' = failed \cup {p}
    BY <1>8, Zenon DEF CallFails, Ends
  <2>3. CASE p \in conn
    <3>1. task[p].pc = "error" /\ task' = [task EXCEPT ![p] = got_answer]
      BY <2>3, <1>8, Zenon DEF CallFails, Received, got_answer
    <3>2. ClientMove(p, "done", got_answer) \/ ClientMove(p, "reading", got_answer)
      BY <2>1, <2>2, <3>1, <1>2, <1>3, Zenon DEF ClientMove, Pulling, PullPcs, Over
    <3>3. QED
      BY <3>2, ClientMoveKeeps
  <2>4. CASE p \notin conn
    <3>1. task' = [task EXCEPT ![p] = task[p]]
      BY <2>4, <1>8, <1>1, Zenon DEF CallFails
    <3>2. ClientMove(p, "done", task[p]) \/ ClientMove(p, "reading", task[p])
      BY <2>1, <2>2, <3>1, <1>1, Zenon DEF ClientMove, PullPcs, Over
    <3>3. QED
      BY <3>2, ClientMoveKeeps, Zenon
  <2>5. QED
    BY <2>3, <2>4, Zenon
<1>9. CASE Finishes(p) \/ Commits(p)
  <2>1. /\ pc[p] # "start"
        /\ UNCHANGED <<scenario, next_id, table, session, producer, task, handed, ended, failed>>
    BY <1>9, Zenon DEF Finishes, Commits, serverVars
  <2>2. pc' = [pc EXCEPT ![p] = "done"] \/ pc' = [pc EXCEPT ![p] = "commit"]
    BY <1>9 DEF Finishes, Commits, Ends
  <2>3. QED
    BY <2>1, <2>2, ClientStaysKeeps, Zenon DEF PullPcs, Over
<1>10. QED
  BY <1>4, <1>5, <1>6, <1>7, <1>8, <1>9, Zenon DEF ClientSteps

\* Nor does what happens to a puller from outside break it.
LEMMA FaultKeeps ==
  ASSUME StreamsInv, NEW p \in Pullers, DropFuture(p) \/ LoseConnection(p) \/ Crash(p)
  PROVE  Kept
<1>1. /\ task \in [Callers -> Tasks] /\ p \in Callers /\ task[p] \in Tasks
      /\ pc \in [Pullers -> PullPcs] /\ (pc[p] = "start" => task[p].pc = "idle")
  BY TaskFacts, Zenon DEF Callers, StreamsInv, OneRequest
<1>2. CASE DropFuture(p) \/ Crash(p)
  <2>1. /\ UNCHANGED <<scenario, next_id, table, session, producer, task, handed, ended, failed>>
        /\ pc' = [pc EXCEPT ![p] = "dropped"] \/ pc' = [pc EXCEPT ![p] = "crashed"]
    BY <1>2, Zenon DEF DropFuture, Crash, serverVars
  <2>2. QED
    BY <2>1, <1>1, ClientStaysKeeps, ZenonT(30) DEF PullPcs, Over
<1>3. CASE LoseConnection(p) /\ task' = task
  <2>1. UNCHANGED <<scenario, next_id, table, session, producer, handed, ended, pc, failed>>
    BY <1>3, Zenon DEF LoseConnection
  <2>2. QED
    BY <2>1, <1>3, SameKeeps, Zenon
<1>4. CASE LoseConnection(p) /\ task' # task
  <2>1. /\ UNCHANGED <<scenario, next_id, table, session, producer, handed, ended, failed>>
        /\ task[p].pc \in {"open", "next"} /\ task' = [task EXCEPT ![p] = Idle]
        /\ pc' = [pc EXCEPT ![p] = pc[p]]
    BY <1>4, <1>1, Zenon DEF LoseConnection
  <2>2. Idle \in Tasks /\ Idle.pc = "idle" /\ Idle.id = None
    BY RequestFacts, Zenon
  <2>3. Names(Idle, Created) /\ Idle.pc \notin Pulling
    BY <2>2, Zenon DEF Names, Holding, Pulling
  <2>4. ~(pc[p] = "reading" /\ p \notin failed)
    BY <2>1, Zenon DEF StreamsInv, OneRequest
  <2>5. ClientMove(p, pc[p], Idle)
    BY <2>1, <2>2, <2>3, <2>4, <1>1, Zenon DEF ClientMove, Pulling, PullPcs, Over
  <2>6. QED
    BY <2>5, ClientMoveKeeps
<1>5. QED
  BY <1>2, <1>3, <1>4, Zenon

-----------------------------------------------------------------------------
(***************************************************************************)
(* The theorems.                                                           *)
(***************************************************************************)
\* Each puller opens one stream at most, so the table never runs out of ids.
Opens == next_id + Cardinality(Unopened) <= Cardinality(Pullers) + 1

\* The inductive invariant.
PullInv == StreamsInv /\ Opens

\* The count of streams is kept when no puller has one more to open.
LEMMA OpensKept ==
  ASSUME PullInv, next_id' = next_id, Unopened' \subseteq Unopened
  PROVE  Opens'
<1>1. IsFiniteSet(Unopened)
  BY NoneFacts, FS_Subset, Zenon DEF Unopened
<1>2. IsFiniteSet(Unopened') /\ Cardinality(Unopened') <= Cardinality(Unopened)
  BY <1>1, FS_Subset, Zenon
<1>3. Cardinality(Unopened) \in Nat /\ Cardinality(Unopened') \in Nat /\ Cardinality(Pullers) \in Nat
  BY <1>1, <1>2, NoneFacts, FS_CardinalityType, Zenon
<1>4. next_id \in Nat /\ next_id + Cardinality(Unopened) <= Cardinality(Pullers) + 1
  BY DEF PullInv, StreamsInv, ServerTypes, Opens
<1>5. next_id + Cardinality(Unopened') <= Cardinality(Pullers) + 1
  BY <1>2, <1>3, <1>4
<1>6. QED
  BY <1>5, Zenon DEF Opens

\* A step that opens no stream.
LEMMA KeptKeeps ==
  ASSUME PullInv, Kept
  PROVE  PullInv'
<1>1. Opens'
  BY OpensKept DEF Kept
<1>2. QED
  BY <1>1 DEF PullInv, Kept

\* The pullers that have not opened yet bound the ids, so that there is one to
\* spare for a stream that is opened.
LEMMA OpenCounts ==
  ASSUME PullInv, NEW c \in Unopened, next_id' = next_id + 1, Unopened' = Unopened \ {c}
  PROVE  next_id \in StreamIds /\ Opens'
<1>1. IsFiniteSet(Unopened)
  BY NoneFacts, FS_Subset DEF Unopened
<1>2. /\ Cardinality(Unopened \ {c}) = Cardinality(Unopened) - 1
      /\ Cardinality(Unopened) \in Nat /\ Cardinality(Unopened \ {c}) \in Nat
      /\ Cardinality(Pullers) \in Nat
  BY <1>1, NoneFacts, FS_RemoveElement, FS_CardinalityType, Zenon
<1>3. next_id \in Nat \ {0} /\ next_id + Cardinality(Unopened) <= Cardinality(Pullers) + 1
  BY DEF PullInv, StreamsInv, ServerTypes, Opens
<1>4. next_id \in StreamIds /\ next_id + 1 + Cardinality(Unopened \ {c}) <= Cardinality(Pullers) + 1
  BY <1>2, <1>3 DEF StreamIds
<1>5. QED
  BY <1>4, Zenon DEF Opens

\* OpenHandler::handle keeps the invariant.
LEMMA OpenKeeps ==
  ASSUME PullInv, NEW c \in Callers, ServerOnly, Open(c)
  PROVE  PullInv'
<1>1. StreamsInv
  BY DEF PullInv
<1>2. CASE ~scenario.known
  BY <1>1, <1>2, OpenRefused, KeptKeeps, Zenon
<1>3. CASE scenario.known
  <2>1. next_id' = next_id + 1 /\ c \in Unopened /\ Unopened' = Unopened \ {c}
    BY <1>1, <1>3, OpenFacts, Zenon
  <2>2. next_id \in StreamIds /\ Opens'
    BY <2>1, OpenCounts, Zenon
  <2>3. StreamsInv'
    BY <1>1, <1>3, <2>2, OpenStreams, Zenon
  <2>4. QED
    BY <2>2, <2>3 DEF PullInv
<1>4. QED
  BY <1>2, <1>3

LEMMA InitKeeps == Init => PullInv
<1> SUFFICES ASSUME Init PROVE PullInv
  BY Zenon
<1>1. /\ scenario \in Scenarios /\ next_id = 1 /\ table = {} /\ ended = {}
      /\ session = [id \in StreamIds |-> None] /\ producer = [id \in StreamIds |-> None]
      /\ task = [c \in Callers |-> Idle] /\ handed = [id \in StreamIds |-> <<>>]
      /\ pc = [p \in Pullers |-> IF p \in scenario.pulls THEN "start" ELSE "done"]
  BY DEF Init, ServerInit
<1>2. Idle \in Tasks /\ Idle.pc = "idle" /\ Idle.id = None
  BY DEF Idle, Tasks
<1>3. Created = {}
  BY <1>1 DEF Created, StreamIds
<1>4. Names(Idle, Created) /\ \A c \in Callers : task[c] = Idle
  BY <1>1, <1>2, Zenon DEF Names, Holding
<1>5. ServerTypes
  <2>1. next_id \in Nat \ {0} /\ <<>> \in Seq(Nat)
    BY <1>1
  <2>2. /\ session \in [StreamIds -> Sessions \cup {None}]
        /\ producer \in [StreamIds -> Producers \cup {None}]
        /\ \A id \in StreamIds : producer[id] = None
    BY <1>1, Zenon
  <2>3. handed \in [StreamIds -> Seq(Nat)] /\ task \in [Callers -> Tasks]
    BY <1>1, <1>2, <2>1, Zenon
  <2>4. QED
    BY <1>1, <1>3, <1>4, <2>1, <2>2, <2>3, Zenon DEF ServerTypes
<1>6. Locks
  BY <1>2, <1>3, <1>4, Zenon DEF Locks, Pulling
<1>7. Streams
  BY <1>1, <1>3, Zenon DEF Streams
<1>8. OneRequest
  <2>1. Pullers \subseteq Callers /\ Rival \in Callers
    BY DEF Callers
  <2>2. pc \in [Pullers -> PullPcs] /\ \A p \in Pullers : pc[p] # "reading"
    BY <1>1 DEF PullPcs, Over
  <2>3. QED
    BY <2>1, <2>2, <1>2, <1>4, Zenon DEF OneRequest
<1>9. Opens
  <2>1. Unopened \subseteq Pullers
    BY DEF Unopened
  <2>2. /\ Cardinality(Unopened) <= Cardinality(Pullers)
        /\ Cardinality(Unopened) \in Nat /\ Cardinality(Pullers) \in Nat
    BY <2>1, NoneFacts, FS_Subset, FS_CardinalityType, Zenon
  <2>3. QED
    BY <2>2, <1>1 DEF Opens
<1>10. QED
  BY <1>5, <1>6, <1>7, <1>8, <1>9, Zenon DEF PullInv, StreamsInv

LEMMA NextKeeps == PullInv /\ [Next]_vars => PullInv'
<1> SUFFICES ASSUME PullInv, [Next]_vars PROVE PullInv'
  OBVIOUS
<1>1. StreamsInv
  BY Zenon DEF PullInv
<1>2. ASSUME NEW c \in Callers, Serve(c), ServerOnly PROVE Kept \/ PullInv'
  <2>1. CASE Open(c)
    BY <1>2, <2>1, OpenKeeps, Zenon
  <2>2. CASE NextLooksUp(c) \/ NextSettles(c) \/ (NextLocks(c) /\ session[task[c].id].done)
    BY <1>1, <1>2, <2>2, NextQuiet, Zenon
  <2>3. CASE NextLocks(c) /\ ~session[task[c].id].done
    BY <1>1, <1>2, <2>3, NextLocksKeeps, Zenon
  <2>4. CASE Pull(c)
    BY <1>1, <1>2, <2>4, PullKeeps, Zenon
  <2>5. CASE Lookahead(c)
    BY <1>1, <1>2, <2>5, LookaheadKeeps, ZenonT(30)
  <2>6. QED
    BY <1>2, <2>1, <2>2, <2>3, <2>4, <2>5, Zenon DEF Serve
<1>3. ASSUME NEW id \in StreamIds, Produce(id) \/ ProduceFails(id), ServerOnly PROVE Kept
  BY <1>1, <1>3, ProduceKeeps, Zenon
<1>4. ASSUME NEW id \in StreamIds, Cancel(id), ServerOnly PROVE Kept
  BY <1>1, <1>4, SameKeeps, Zenon DEF Cancel, ServerOnly, clientVars
<1>5. CASE (RivalActs \/ RivalDone) /\ ServerOnly
  <2>1. Kept
    BY <1>1, <1>5, RivalKeeps, Zenon
  <2>2. QED
    BY <2>1, KeptKeeps, Zenon
<1>6. ASSUME NEW p \in Pullers, ClientSteps(p) PROVE Kept
  BY <1>1, <1>6, ClientKeeps, Zenon
<1>7. ASSUME NEW p \in Pullers, ConsumerSteps(p) \/ ConsumerFails(p) PROVE Kept
  <2>1. UNCHANGED <<scenario, serverVars, pc, failed>>
    BY <1>7, Zenon DEF ConsumerSteps, ConsumerStarts, Consume, Returns, Detached, ConsumerFails, clientVars
  <2>2. QED
    BY <1>1, <2>1, SameKeeps, Zenon DEF serverVars
<1>8. ASSUME NEW p \in Pullers, DropFuture(p) \/ LoseConnection(p) \/ Crash(p) PROVE Kept
  BY <1>1, <1>8, FaultKeeps, Zenon
<1>9. CASE UNCHANGED vars
  <2>1. Kept
    BY <1>1, <1>9, SameKeeps, Zenon DEF vars, serverVars, clientVars
  <2>2. QED
    BY <2>1, KeptKeeps
<1>10. QED
  BY <1>2, <1>3, <1>4, <1>5, <1>6, <1>7, <1>8, <1>9, KeptKeeps, Zenon DEF Next, ServerSteps

\* The invariant is inductive.
THEOREM PullInvariant == Spec => []PullInv
<1>1. QED
  BY InitKeeps, NextKeeps, PTL DEF Spec

\* What the invariant says of the chunks handed out.
LEMMA PullInvOrders == PullInv => ChunksInOrder
<1> SUFFICES ASSUME PullInv, NEW id \in StreamIds
             PROVE  /\ \E n \in 0..scenario.units : handed[id] = SubSeq(Body, 1, n)
                    /\ id \in ended => handed[id] = Body
  BY DEF ChunksInOrder
<1> DEFINE h == handed[id]
           u == scenario.units
<1>1. u \in Nat /\ h \in Seq(Nat)
  BY NoneFacts DEF PullInv, StreamsInv, ServerTypes
<1>2. Run(h, 0) /\ Len(h) <= u /\ (id \in ended => Len(h) = u)
  <2>1. CASE id \in Created
    <3>1. StreamOK(session[id], producer[id], h, id \in ended, Hand(session[id], task), u)
      BY <2>1, Zenon DEF PullInv, StreamsInv, Streams
    <3>2. QED
      BY <3>1, Zenon DEF StreamOK, InOrder
  <2>2. CASE id \notin Created
    <3>1. h = <<>> /\ id \notin ended
      BY <2>2, Zenon DEF PullInv, StreamsInv, Streams
    <3>2. QED
      BY <3>1, <1>1, RunEmpty
  <2>3. QED
    BY <2>1, <2>2, Zenon
<1> HIDE DEF h
<1>3. Body = [i \in 1..u |-> i]
  BY DEF Body
<1> HIDE DEF u
<1>4. \A i \in 1..Len(h) : h[i] = i
  BY <1>1, <1>2 DEF Run
<1>5. Len(h) \in 0..u /\ h = SubSeq(Body, 1, Len(h))
  <2>1. Len(h) \in 0..u
    BY <1>1, <1>2
  <2>2. SubSeq(Body, 1, Len(h)) = [i \in 1..Len(h) |-> i]
    BY <2>1, <1>1, <1>3
  <2>3. h = [i \in 1..Len(h) |-> i]
    BY <1>1, <1>4
  <2>4. QED
    BY <2>1, <2>2, <2>3, Zenon
<1>6. id \in ended => h = Body
  <2>1. h = [i \in 1..Len(h) |-> i]
    BY <1>1, <1>4
  <2>2. QED
    BY <2>1, <1>2, <1>3, Zenon
<1>7. QED
  BY <1>5, <1>6 DEF h, u

\* Whoever pulls and whatever fails, the chunks of a stream are handed out once
\* and in order, and a chunk marked last completes the body: Session::pull
\* answers last only once it has received the End that follows the whole body,
\* so a production that failed never passes for a short one.
THEOREM PullsInOrder == Spec => []ChunksInOrder
<1>1. QED
  BY PullInvariant, PullInvOrders, PTL

=============================================================================
