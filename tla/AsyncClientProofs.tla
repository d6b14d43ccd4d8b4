-------------------------- MODULE AsyncClientProofs --------------------------
(***************************************************************************)
(* Proofs about AsyncClient, for every set of calls of every kind and      *)
(* every choice of forwarded ids: entries never outlive their calls and no *)
(* call waits with nobody left to answer it.  When no request brings its   *)
(* own id, calls return their own answers and no sender is dropped.        *)
(***************************************************************************)
EXTENDS AsyncClient, TLAPS

Started(c) == pc[c] # "start"

\* A started call has an id, only started calls have sent a request, and a
\* notify never registers and never waits.
Placed ==
    \A c \in Calls : /\ Started(c) => id[c] \in Ids
                     /\ c \in requests => Started(c)
                     /\ c \in Notifies => pc[c] \notin {"register", "wait"}

\* A sender is in one place: a call with an entry is no notify, its channel is
\* empty and the loop does not hold its sender; before it registers it has none.
Once ==
    /\ \A i \in Ids : pending[i] # None =>
          /\ pending[i] \notin Notifies \cup waiters /\ pending[i] # matched
          /\ chan[pending[i]] = None
    /\ \A c \in Calls : pc[c] \in {"start", "register"} =>
          chan[c] = None /\ matched # c /\ c \notin waiters

\* The writer's mutex is held by the one call that is writing.
Locked == \A c \in Calls : pc[c] \in {"write", "flush"} <=> writer = c

\* The loop holds a sender exactly between the two halves of a dispatch, and
\* drained ones only while it fails them.
Dispatching ==
    /\ loop = "matched" <=> matched # None
    /\ loop = "matched" => answer \in Calls
    /\ loop # "fail_send" => waiters = {}

\* The sender of a registered call with an empty channel is in the table, in
\* the loop's hands or among the drained ones.
Owned ==
    \A c \in Calls \ Notifies : pc[c] \in Registered /\ chan[c] = None =>
        matched = c \/ c \in waiters \/ pending[id[c]] = c

\* Once the loop fails nothing is written any more, so that after the drain
\* only drained calls can be waiting; a dropped client has no calls.
Closing ==
    /\ ~handle => \A c \in Calls : pc[c] \in {"start", "done"}
    /\ loop \in {"fail_drain", "fail_send"} => shut
    /\ loop = "stopped" /\ handle => shut
    /\ shut => \A c \in Calls : pc[c] # "flush"
    /\ loop \in {"fail_send", "stopped"} =>
          \A c \in Calls : pc[c] = "wait" /\ chan[c] = None => c \in waiters

ClientInv ==
    /\ TypeOK /\ NoLeakedEntry
    /\ Placed /\ Once /\ Locked /\ Dispatching /\ Owned /\ Closing
-----------------------------------------------------------------------------
\* The values the variables are compared with are distinct.
LEMMA ConstantFacts ==
  /\ \A c \in Calls : c # None /\ c # "closed" /\ c # "failed"
  /\ None # "closed" /\ None # "failed"
  /\ MaxId \in Nat /\ ForwardIds \subseteq Ids
  BY ClientAssumption, Zenon DEF Errors

\* The initial state satisfies the invariant (connect).
LEMMA ClientInit == Init => ClientInv
<1> SUFFICES ASSUME Init PROVE ClientInv
  OBVIOUS
<1>1. TypeOK
  <2>1. next_id \in 1..(MaxId + 1)
    BY ConstantFacts DEF Init
  <2>2. handle \in BOOLEAN /\ shut \in BOOLEAN /\ torn \in BOOLEAN
    BY Zenon DEF Init
  <2>3. QED
    BY <2>1, <2>2 DEF Init, TypeOK
<1>2. NoLeakedEntry /\ Placed /\ Once /\ Locked /\ Dispatching /\ Owned /\ Closing
  BY ConstantFacts DEF Init, NoLeakedEntry, Placed, Once, Started, Locked, Dispatching,
     Owned, Closing, Registered
<1>3. QED
  BY <1>1, <1>2 DEF ClientInv

\* What a dropped guard leaves of the table and of the channels
\* (PendingRequestGuard::drop).
LEMMA GuardDropFacts ==
  ASSUME ClientInv, NEW c \in Calls, Started(c), GuardDrop(c)
  PROVE  /\ pending' \in [Ids -> Calls \cup {None}]
         /\ chan' \in [Calls -> Calls \cup {None, "closed", "failed"}]
         /\ \A i \in Ids : pending'[i] # None => pending'[i] = pending[i]
         /\ c \notin Notifies => pending'[id[c]] = None
         /\ \A i \in Ids : pending'[i] = pending[i] \/ i = id[c]
         /\ \A d \in Calls : chan'[d] # chan[d] =>
               /\ chan'[d] = "closed" /\ d # c
               /\ pending[id[c]] = d /\ pending'[id[c]] = None
         /\ \A d \in Calls \ {c} : chan'[d] = None =>
               chan[d] = None /\ \A i \in Ids : pending[i] = d => pending'[i] = d
<1>1. /\ pending \in [Ids -> Calls \cup {None}]
      /\ chan \in [Calls -> Calls \cup {None, "closed", "failed"}]
      /\ id[c] \in Ids
  BY DEF ClientInv, TypeOK, Placed, Started
<1>2. CASE c \in Notifies
  <2>1. pending' = pending /\ chan' = chan
    BY <1>2 DEF GuardDrop
  <2>2. /\ pending' \in [Ids -> Calls \cup {None}]
        /\ chan' \in [Calls -> Calls \cup {None, "closed", "failed"}]
    BY <1>1, <2>1
  <2>3. QED
    BY <1>2, <2>1, <2>2
<1>3. CASE c \notin Notifies
  <2>1. pending' = [pending EXCEPT ![id[c]] = None]
    BY <1>3 DEF GuardDrop
  <2>2. CASE pending[id[c]] \in Calls \ {c}
    <3>1. chan' = [chan EXCEPT ![pending[id[c]]] = "closed"]
      BY <1>3, <2>2 DEF GuardDrop
    <3>2. /\ pending' \in [Ids -> Calls \cup {None}]
          /\ chan' \in [Calls -> Calls \cup {None, "closed", "failed"}]
      BY <1>1, <2>1, <3>1, Zenon
    <3>3. /\ \A i \in Ids : pending'[i] = IF i = id[c] THEN None ELSE pending[i]
          /\ \A d \in Calls :
                chan'[d] = IF d = pending[id[c]] THEN "closed" ELSE chan[d]
      BY <1>1, <2>1, <3>1
    <3>4. QED
      BY <1>1, <2>2, <3>2, <3>3, ConstantFacts
  <2>3. CASE pending[id[c]] \notin Calls \ {c}
    <3>1. chan' = chan
      BY <1>3, <2>3 DEF GuardDrop
    <3>2. pending' \in [Ids -> Calls \cup {None}]
      BY <1>1, <2>1
    <3>3. \A i \in Ids : pending'[i] = IF i = id[c] THEN None ELSE pending[i]
      BY <1>1, <2>1
    <3>4. QED
      BY <1>1, <2>3, <3>1, <3>2, <3>3, ConstantFacts
  <2>4. QED
    BY <2>2, <2>3
<1>4. QED
  BY <1>2, <1>3

\* Every variable keeps its type through every step.
LEMMA TypeStep == ClientInv /\ [Next]_vars => TypeOK'
<1> SUFFICES ASSUME ClientInv, [Next]_vars PROVE TypeOK'
  OBVIOUS
<1> USE DEF TypeOK, Registered, Errors, callVars, loopVars
<1>1. ASSUME NEW c \in Calls, TakeId(c) PROVE TypeOK'
  <2>1. next_id \in Ids /\ next_id' \in 1..(MaxId + 1)
    <3>1. next_id \in 1..(MaxId + 1) /\ next_id <= MaxId /\ next_id' = next_id + 1
      BY <1>1, Zenon DEF ClientInv, TakeId
    <3>2. QED
      BY <3>1, ConstantFacts DEF Ids
  <2>2. QED
    BY <1>1, <2>1, Zenon DEF ClientInv, TakeId
<1>2. ASSUME NEW c \in Calls, Forward(c) PROVE TypeOK'
  <2>1. PICK i \in Ids : id' = [id EXCEPT ![c] = i]
    BY <1>2, ConstantFacts, Zenon DEF Forward
  <2>2. QED
    BY <1>2, <2>1, Zenon DEF ClientInv, Forward
<1>3. ASSUME NEW c \in Calls, Register(c) PROVE TypeOK'
  <2>1. CASE pending[id[c]] = None
    <3>1. /\ pending' = [pending EXCEPT ![id[c]] = c]
          /\ pc' = [pc EXCEPT ![c] = "lock"]
          /\ UNCHANGED <<id, out>>
      BY <1>3, <2>1 DEF Register
    <3>2. pending' \in [Ids -> Calls \cup {None}]
      BY <3>1, Zenon DEF ClientInv
    <3>3. QED
      BY <1>3, <3>1, <3>2, Zenon DEF ClientInv, Register
  <2>2. CASE pending[id[c]] # None
    BY <1>3, <2>2, ZenonT(60) DEF ClientInv, Register, Finish
  <2>3. QED
    BY <2>1, <2>2, Zenon
<1>4. ASSUME NEW c \in Calls, LockWriter(c) \/ Transmit(c) \/ Flushed(c) PROVE TypeOK'
  BY <1>4, ZenonT(30) DEF ClientInv, LockWriter, Transmit, Flushed, Finish
<1>5. ASSUME NEW c \in Calls, WriteFails(c) \/ Timeout(c) \/ Cancel(c) PROVE TypeOK'
  <2>1. Started(c) /\ GuardDrop(c)
    BY <1>5, Zenon DEF WriteFails, Timeout, Cancel, Started
  <2>2. /\ pending' \in [Ids -> Calls \cup {None}]
        /\ chan' \in [Calls -> Calls \cup {None, "closed", "failed"}]
    BY <2>1, GuardDropFacts
  <2>3. QED
    BY <1>5, <2>2, ZenonT(60) DEF ClientInv, WriteFails, Timeout, Cancel, Finish
<1>6. ASSUME NEW c \in Calls, Receive(c) PROVE TypeOK'
  <2>1. CASE chan[c] \in Calls
    BY <1>6, <2>1, ZenonT(60) DEF ClientInv, Receive, Finish
  <2>2. CASE chan[c] \notin Calls
    <3>1. Started(c) /\ GuardDrop(c)
      BY <1>6, <2>2, Zenon DEF Receive, Started
    <3>2. /\ pending' \in [Ids -> Calls \cup {None}]
          /\ chan' \in [Calls -> Calls \cup {None, "closed", "failed"}]
      BY <3>1, GuardDropFacts
    <3>3. Finish(c, chan[c]) /\ chan[c] \in {"closed", "failed"}
      BY <1>6, <2>2, Zenon DEF ClientInv, Receive
    <3>4. QED
      BY <1>6, <3>2, <3>3, ZenonT(60) DEF ClientInv, Receive, Finish
  <2>3. QED
    BY <2>1, <2>2, Zenon
<1>7. CASE ReadMessage
  <2>1. PICK d \in requests :
           \/ UNCHANGED <<pending, loop, matched, answer>>
           \/ /\ pending[id[d]] # None
              /\ pending' = [pending EXCEPT ![id[d]] = None]
              /\ loop' = "matched" /\ matched' = pending[id[d]] /\ answer' = d
    BY <1>7 DEF ReadMessage
  <2>2. requests' \subseteq requests
    BY <1>7 DEF ReadMessage
  <2>3. /\ pending' \in [Ids -> Calls \cup {None}]
        /\ matched' \in Calls \cup {None} /\ answer' \in Calls \cup {None}
    BY <2>1, ConstantFacts, ZenonT(60) DEF ClientInv, Placed
  <2>4. QED
    BY <1>7, <2>1, <2>2, <2>3, Zenon DEF ClientInv, ReadMessage
<1>8. CASE SendMatched
  BY <1>8, Zenon DEF ClientInv, SendMatched, Dispatching
<1>9. CASE ReadFails \/ ShutdownWriter \/ DropClient \/ LoopShutdown
  BY <1>9, Zenon DEF ClientInv, ReadFails, ShutdownWriter, DropClient, LoopShutdown
<1>10. CASE DrainPending
  <2>1. pending' \in [Ids -> Calls \cup {None}]
    BY <1>10 DEF DrainPending
  <2>2. waiters' \subseteq Calls
    <3>1. \A i \in Ids : pending[i] \in Calls \cup {None}
      BY Zenon DEF ClientInv
    <3>2. QED
      BY <1>10, <3>1 DEF DrainPending
  <2>3. QED
    BY <1>10, <2>1, <2>2, Zenon DEF ClientInv, DrainPending
<1>11. CASE SendError
  BY <1>11, Zenon DEF ClientInv, SendError
<1>12. CASE UNCHANGED vars
  BY <1>12, Zenon DEF ClientInv, vars
<1>13. QED
  BY <1>1, <1>2, <1>3, <1>4, <1>5, <1>6, <1>7, <1>8, <1>9, <1>10, <1>11, <1>12
    , Zenon DEF Next, CallStep, LoopStep

\* Every step of a call keeps the rest of the invariant.
LEMMA CallKeeps ==
  ASSUME ClientInv, NEW c \in Calls, CallStep(c)
  PROVE  (NoLeakedEntry /\ Placed /\ Once /\ Locked /\ Dispatching /\ Owned /\ Closing)'
<1> USE ConstantFacts DEF ClientInv, TypeOK, NoLeakedEntry, Placed, Once, Started, Locked,
       Dispatching, Owned, Closing, Registered, callVars, loopVars
<1>1. CASE TakeId(c)
  <2>1. next_id \in Ids
    BY <1>1 DEF TakeId, Ids
  <2>2. QED
    BY <1>1, <2>1 DEF TakeId
<1>2. CASE Forward(c)
  BY <1>2 DEF Forward
<1>3. CASE Register(c)
  <2>1. CASE pending[id[c]] = None
    BY <1>3, <2>1 DEF Register
  <2>2. CASE pending[id[c]] # None
    <3>1. /\ pc' = [pc EXCEPT ![c] = "done"] /\ UNCHANGED <<id, pending, chan, handle>>
          /\ UNCHANGED <<writer, shut, requests, loop, matched, answer, waiters>>
          /\ pc[c] = "register"
      BY <1>3, <2>2, Zenon DEF Register, Finish
    <3>2. NoLeakedEntry' /\ Once' /\ Owned'
      BY <3>1
    <3>3. Placed' /\ Locked' /\ Dispatching' /\ Closing'
      BY <3>1
    <3>4. QED
      BY <3>2, <3>3
  <2>3. QED
    BY <2>1, <2>2
<1>4. CASE LockWriter(c)
  BY <1>4 DEF LockWriter
<1>5. CASE Transmit(c)
  BY <1>5 DEF Transmit
<1>6. CASE Flushed(c)
  BY <1>6 DEF Flushed, Finish
<1>7. CASE Receive(c) /\ chan[c] \in Calls
  <2>1. /\ pc' = [pc EXCEPT ![c] = "done"] /\ UNCHANGED <<id, pending, chan, handle>>
        /\ UNCHANGED <<writer, shut, requests, loop, matched, answer, waiters>>
        /\ pc[c] = "wait" /\ chan[c] # None
    BY <1>7, Zenon DEF Receive, Finish
  <2>2. NoLeakedEntry' /\ Once' /\ Owned'
    BY <2>1
  <2>3. Placed' /\ Locked' /\ Dispatching' /\ Closing'
    BY <2>1
  <2>4. QED
    BY <2>2, <2>3
<1>8. CASE \/ WriteFails(c) \/ Timeout(c) \/ Cancel(c)
           \/ Receive(c) /\ chan[c] \notin Calls
  <2>1. Started(c) /\ GuardDrop(c)
    BY <1>8, Zenon DEF WriteFails, Timeout, Cancel, Receive
  <2>2. pc' = [pc EXCEPT ![c] = "done"] /\ UNCHANGED <<id, handle, shut, loopVars>>
    BY <1>8, Zenon DEF WriteFails, Timeout, Cancel, Receive, Finish
  <2>3. writer' = IF writer = c THEN None ELSE writer
    BY <1>8, Zenon DEF WriteFails, Timeout, Cancel, Receive
  <2>4. requests' \subseteq requests \cup {c}
    <3>1. requests' = requests \/ requests' = requests \cup {c}
      BY <1>8, Zenon DEF WriteFails, Timeout, Cancel, Receive
    <3>2. QED
      BY <3>1
  <2>5. NoLeakedEntry' /\ Once'
    BY <2>1, <2>2, GuardDropFacts, SMTT(60)
  <2>6. Owned' /\ Closing'
    BY <2>1, <2>2, GuardDropFacts, SMTT(60)
  <2>7. Placed' /\ Locked' /\ Dispatching'
    BY <2>1, <2>2, <2>3, <2>4, SMTT(60)
  <2>8. QED
    BY <2>5, <2>6, <2>7
<1>9. QED
  BY <1>1, <1>2, <1>3, <1>4, <1>5, <1>6, <1>7, <1>8, Zenon DEF CallStep

\* Every step of the response loop, and dropping the client, keep it too.
LEMMA LoopKeeps ==
  ASSUME ClientInv, LoopStep \/ DropClient
  PROVE  (NoLeakedEntry /\ Placed /\ Once /\ Locked /\ Dispatching /\ Owned /\ Closing)'
<1> USE ConstantFacts DEF ClientInv, TypeOK, NoLeakedEntry, Placed, Once, Started, Locked,
       Dispatching, Owned, Closing, Registered, callVars, loopVars
<1>1. CASE ReadMessage
  BY <1>1 DEF ReadMessage
<1>2. CASE SendMatched
  BY <1>2 DEF SendMatched
<1>3. CASE ReadFails \/ LoopShutdown \/ DropClient
  BY <1>3, SMTT(60) DEF ReadFails, LoopShutdown, DropClient
<1>4. CASE ShutdownWriter
  BY <1>4 DEF ShutdownWriter
<1>5. CASE DrainPending
  <2>1. \A i \in Ids : pending[i] # None => pending[i] \in waiters'
    BY <1>5 DEF DrainPending
  <2>2. \A c \in waiters' : \E i \in Ids : pending[i] = c
    BY <1>5 DEF DrainPending
  <2>3. pending' = [i \in Ids |-> None]
    BY <1>5 DEF DrainPending
  <2>4. QED
    BY <1>5, <2>1, <2>2, <2>3 DEF DrainPending
<1>6. CASE SendError
  BY <1>6, SMTT(60) DEF SendError
<1>7. QED
  BY <1>1, <1>2, <1>3, <1>4, <1>5, <1>6, Zenon DEF LoopStep

\* The invariant is inductive.
LEMMA ClientStep == ClientInv /\ [Next]_vars => ClientInv'
<1> SUFFICES ASSUME ClientInv, [Next]_vars PROVE ClientInv'
  OBVIOUS
<1>1. TypeOK'
  BY TypeStep
<1>2. (NoLeakedEntry /\ Placed /\ Once /\ Locked /\ Dispatching /\ Owned /\ Closing)'
  <2>1. CASE \E c \in Calls : CallStep(c)
    BY <2>1, CallKeeps
  <2>2. CASE LoopStep \/ DropClient
    BY <2>2, LoopKeeps, Zenon
  <2>3. CASE UNCHANGED vars
    BY <2>3 DEF vars, ClientInv, NoLeakedEntry, Placed, Once, Started, Locked, Dispatching,
       Owned, Closing
  <2>4. QED
    BY <2>1, <2>2, <2>3 DEF Next
<1>3. QED
  BY <1>1, <1>2 DEF ClientInv

\* The invariant holds in every reachable state.
THEOREM ClientInvariance == Spec => []ClientInv
  BY ClientInit, ClientStep, PTL DEF Spec

\* No entry of the pending table outlives its call, whatever mix of calls,
\* notifies, forwarded requests, timeouts and dropped futures there is.
THEOREM EntriesDoNotLeak == Spec => []NoLeakedEntry
<1>1. ClientInv => NoLeakedEntry
  BY DEF ClientInv
<1>2. QED
  BY <1>1, ClientInvariance, PTL

\* No call waits for a response with its sender out of the loop's reach,
\* however a failing loop races with calls that register and write.
THEOREM WaitersAreServed == Spec => []WaiterIsServed
<1>1. ClientInv => WaiterIsServed
  BY DEF ClientInv, TypeOK, Placed, Owned, Closing, Dispatching, WaiterIsServed, Registered
<1>2. QED
  BY <1>1, ClientInvariance, PTL
-----------------------------------------------------------------------------
(***************************************************************************)
(* Without forwarded requests every id comes from next_id.                 *)
(***************************************************************************)
\* Ids are below the counter and never shared, so an entry, a matched sender
\* and a delivered response all belong to the request's own call.
OwnInv ==
    /\ \A c \in Calls : Started(c) => id[c] < next_id
    /\ \A c, d \in Calls : Started(c) /\ Started(d) /\ id[c] = id[d] => c = d
    /\ matched # None => answer = matched
    /\ \A c \in Calls : chan[c] \in Calls => chan[c] = c
    /\ SenderNeverDropped /\ AnswerIsOwn

\* No two calls share an id, so a dropped guard finds its own entry or none.
LEMMA OwnGuardDrop ==
  ASSUME ClientInv, OwnInv, NEW c \in Calls, Started(c), GuardDrop(c)
  PROVE  chan' = chan
<1>1. id[c] \in Ids
  BY DEF ClientInv, Placed
<1>2. pending[id[c]] \in Calls => pending[id[c]] = c
  BY <1>1, ConstantFacts, SMTT(60) DEF ClientInv, NoLeakedEntry, Registered, OwnInv, Started
<1>3. QED
  BY <1>2 DEF GuardDrop

\* Every step of a call keeps ids unshared and channels right.
LEMMA OwnCallStep ==
  ASSUME Forwarded = {}, ClientInv, OwnInv, NEW c \in Calls, CallStep(c)
  PROVE  OwnInv'
<1> USE ConstantFacts DEF ClientInv, OwnInv, SenderNeverDropped, AnswerIsOwn, Started, TypeOK,
       callVars, loopVars
<1>1. CASE TakeId(c)
  <2>1. next_id \in Nat /\ next_id' = next_id + 1
    BY <1>1 DEF TakeId
  <2>2. \A d \in Calls : id[d] \in Nat
    BY DEF Ids
  <2>3. /\ pc' = [pc EXCEPT ![c] = IF c \in Notifies THEN "lock" ELSE "register"]
        /\ id' = [id EXCEPT ![c] = next_id] /\ pc[c] = "start"
        /\ UNCHANGED <<chan, out, matched, answer>>
    BY <1>1 DEF TakeId
  <2>4. QED
    BY <2>1, <2>2, <2>3
<1>2. CASE Forward(c)
  BY <1>2 DEF Forward
<1>3. CASE Register(c) \/ LockWriter(c) \/ Transmit(c) \/ Flushed(c)
  <2>1. Started(c) /\ UNCHANGED <<next_id, id, chan, matched, answer>>
    BY <1>3, Zenon DEF Register, LockWriter, Transmit, Flushed, Finish
  <2>2. PICK p \in {"lock", "write", "flush", "wait", "done"} : pc' = [pc EXCEPT ![c] = p]
    BY <1>3, Zenon DEF Register, LockWriter, Transmit, Flushed, Finish
  <2>3. \/ out' = out \/ out' = [out EXCEPT ![c] = "duplicate id"]
        \/ out' = [out EXCEPT ![c] = "sent"]
    BY <1>3, Zenon DEF Register, LockWriter, Transmit, Flushed, Finish
  <2>4. "duplicate id" \notin Calls /\ "sent" \notin Calls
    BY ClientAssumption, Zenon DEF Errors
  <2>5. \A d \in Calls : pc'[d] # "start" <=> pc[d] # "start"
    BY <2>1, <2>2
  <2>6. AnswerIsOwn'
    <3>1. \A d \in Calls : out'[d] = out[d] \/ out'[d] = "duplicate id" \/ out'[d] = "sent"
      <4>1. CASE out' = out
        BY <4>1
      <4>2. CASE out' = [out EXCEPT ![c] = "duplicate id"]
        BY <4>2, Zenon
      <4>3. CASE out' = [out EXCEPT ![c] = "sent"]
        BY <4>3
      <4>4. QED
        BY <2>3, <4>1, <4>2, <4>3, Zenon
    <3>2. QED
      BY <2>4, <3>1, ZenonT(30)
  <2>7. QED
    BY <2>1, <2>5, <2>6, Zenon
<1>4. CASE Receive(c) /\ chan[c] \in Calls
  <2>1. Started(c) /\ UNCHANGED <<next_id, id, chan, matched, answer>>
    BY <1>4, Zenon DEF Receive, Finish
  <2>2. pc' = [pc EXCEPT ![c] = "done"] /\ out' = [out EXCEPT ![c] = c]
    BY <1>4, Zenon DEF Receive, Finish
  <2>3. QED
    BY <2>1, <2>2
<1>5. CASE \/ WriteFails(c) \/ Timeout(c) \/ Cancel(c)
           \/ Receive(c) /\ chan[c] \notin Calls
  <2>1. Started(c) /\ GuardDrop(c)
    BY <1>5, Zenon DEF WriteFails, Timeout, Cancel, Receive, Registered
  <2>2. chan' = chan
    BY <2>1, OwnGuardDrop, Zenon
  <2>3. PICK r \in Errors : Finish(c, r)
    BY <1>5, Zenon DEF WriteFails, Timeout, Cancel, Receive, Errors
  <2>4. r \notin Calls
    BY ClientAssumption, Zenon
  <2>5. UNCHANGED <<next_id, matched, answer>>
    BY <1>5, Zenon DEF WriteFails, Timeout, Cancel, Receive
  <2>6. QED
    BY <2>1, <2>2, <2>3, <2>4, <2>5 DEF Finish
<1>6. QED
  BY <1>1, <1>2, <1>3, <1>4, <1>5 DEF CallStep

\* The response loop hands a response to the call that asked for it.
LEMMA OwnLoopStep ==
  ASSUME ClientInv, OwnInv, LoopStep \/ DropClient
  PROVE  OwnInv'
<1> USE ConstantFacts DEF ClientInv, OwnInv, SenderNeverDropped, AnswerIsOwn, Started, TypeOK,
       callVars, loopVars
<1>1. CASE ReadMessage
  <2>1. \A d \in requests : pending[id[d]] # None => pending[id[d]] = d
    BY DEF Placed, NoLeakedEntry, Registered
  <2>2. matched' # None => answer' = matched'
    BY <1>1, <2>1 DEF ReadMessage
  <2>3. QED
    BY <1>1, <2>2 DEF ReadMessage
<1>2. CASE SendMatched
  BY <1>2 DEF SendMatched, Dispatching
<1>3. CASE SendError
  BY <1>3 DEF SendError
<1>4. CASE ReadFails \/ ShutdownWriter \/ DrainPending \/ LoopShutdown \/ DropClient
  BY <1>4, SMTT(60) DEF ReadFails, ShutdownWriter, DrainPending, LoopShutdown, DropClient
<1>5. QED
  BY <1>1, <1>2, <1>3, <1>4, Zenon DEF LoopStep

\* When every id comes from next_id, a call returns its own response or an
\* error, and never finds its channel closed.
THEOREM OwnAnswers ==
  ASSUME Forwarded = {}
  PROVE  Spec => [](AnswerIsOwn /\ SenderNeverDropped)
<1>1. Init => OwnInv
  BY ConstantFacts DEF Init, OwnInv, SenderNeverDropped, AnswerIsOwn, Started
<1>2. ClientInv /\ OwnInv /\ [Next]_vars => OwnInv'
  <2> SUFFICES ASSUME ClientInv, OwnInv, [Next]_vars PROVE OwnInv'
    OBVIOUS
  <2>1. CASE \E c \in Calls : CallStep(c)
    BY <2>1, OwnCallStep
  <2>2. CASE LoopStep \/ DropClient
    BY <2>2, OwnLoopStep
  <2>3. CASE UNCHANGED vars
    BY <2>3 DEF vars, OwnInv, SenderNeverDropped, AnswerIsOwn, Started
  <2>4. QED
    BY <2>1, <2>2, <2>3 DEF Next
<1>3. OwnInv => AnswerIsOwn /\ SenderNeverDropped
  BY DEF OwnInv
<1>4. QED
  BY <1>1, <1>2, <1>3, ClientInvariance, PTL DEF Spec
=============================================================================
