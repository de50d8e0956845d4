---------------------------- MODULE WorkerProofs ----------------------------
(***************************************************************************)
(* Proofs about the queue consumers.                                       *)
(*                                                                         *)
(* Delivery, the worker every consumer runs on, for every stream,          *)
(* concurrency, delivery limit and number of faults: the types, that the   *)
(* worker implements Disposition, that its health flag never accuses a     *)
(* worker whose loops all run, and that a message is settled unhandled     *)
(* only after its deliveries are used up.                                  *)
(*                                                                         *)
(* Identify, what the identify, upsert and alias workers make of a batch,  *)
(* for every batch, number of messages, rows and failures: the fold that   *)
(* cuts the batch into messages keeps its order, and the two stores keep   *)
(* it in whatever order, and however often, the messages are handled.      *)
(***************************************************************************)
EXTENDS Delivery, Identify, FiniteSetTheorems, WellFoundedInduction, TLAPS

(* A loop that handles a delivery has its message.                         *)
Busy == \A l \in Loops : Handling(l) => loop[l].msg \in Messages

LEMMA AtTypeOK == \A step \in LoopSteps : At(step) \in Loop
<1>1. 0 \in 0..(MaxErrs - 1) /\ 0 \in 0..MaxDeliver
  BY DeliveryAssumption
<1>. QED
  BY <1>1 DEF At, Loop

LEMMA InitTypeOK == Init => TypeOK /\ Busy
<1>. SUFFICES ASSUME Init PROVE TypeOK /\ Busy
  OBVIOUS
<1>1. loop \in [Loops -> Loop] /\ Busy
  BY AtTypeOK DEF Init, LoopSteps, Busy, Handling, At
<1>2. buf \in [Loops -> Seq(Delivered)]
  BY DEF Init
<1>3. deliveries \in [Messages -> 0..MaxDeliver] /\ faults \in 0..MaxFaults
  BY DeliveryAssumption DEF Init
<1>4. settled \in [Messages -> {"open", "acked", "termed"}]
  BY DEF Init
<1>. QED
  BY <1>1, <1>2, <1>3, <1>4 DEF Init, TypeOK

LEMMA LoopMoves ==
    ASSUME loop \in [Loops -> Loop], NEW l \in Loops
    PROVE  \A step \in LoopSteps :
             /\ Goto(l, step) => loop' \in [Loops -> Loop]
             /\ Reset(l, step) => loop' \in [Loops -> Loop]
<1>1. \A step \in LoopSteps : Goto(l, step) => loop' \in [Loops -> Loop]
  BY DEF Goto, Loop
<1>2. \A step \in LoopSteps : Reset(l, step) => loop' \in [Loops -> Loop]
  BY AtTypeOK DEF Reset
<1>. QED
  BY <1>1, <1>2

LEMMA StopIteratorTypeOK ==
    ASSUME TypeOK, NEW l \in Loops, StopIterator(l)
    PROVE  buf' \in [Loops -> Seq(Delivered)] /\ lost' \subseteq Messages
BY DEF TypeOK, StopIterator, LastBuffered

LEMMA EndsTypeOK == ASSUME TypeOK, Ends, faults' \in 0..MaxFaults PROVE TypeOK'
<1>1. loop' \in [Loops -> Loop]
  BY AtTypeOK DEF Ends, LoopSteps
<1>2. buf' \in [Loops -> Seq(Delivered)]
  BY DEF Ends
<1>3. lost' \subseteq Messages
  BY DEF Ends, TypeOK, LastBuffered, LastHandled
<1>. QED
  BY <1>1, <1>2, <1>3 DEF Ends, TypeOK, server, outcome

LEMMA FaultyTypeOK == faults \in 0..MaxFaults /\ Faulty => faults' \in 0..MaxFaults
BY DeliveryAssumption DEF Faulty

(* Every reachable state of the worker and of the stream is well-formed.   *)
THEOREM DeliveryTypes == Spec => [](TypeOK /\ Busy)
<1>1. TypeOK /\ Busy /\ [Next]_vars => TypeOK'
  <2>. SUFFICES ASSUME TypeOK, Busy, [Next]_vars PROVE TypeOK'
    OBVIOUS
  <2>. USE FaultyTypeOK DEF server, outcome
  <2>1. CASE Start
    BY <2>1, AtTypeOK DEF TypeOK, Start, LoopSteps
  <2>2. CASE Shutdown
    BY <2>2 DEF TypeOK, Shutdown
  <2>3. CASE Exit
    BY <2>3, EndsTypeOK DEF TypeOK, Exit
  <2>4. CASE Crash
    BY <2>4, EndsTypeOK DEF TypeOK, Crash
  <2>5. ASSUME NEW l \in Loops, Consume(l) \/ NextFails(l) PROVE TypeOK'
    <3>1. CASE Subscribe(l)
      BY <3>1, LoopMoves DEF TypeOK, Subscribe, LoopSteps
    <3>2. CASE Take(l)
      <4>1. Head(buf[l]) \in Delivered /\ Tail(buf[l]) \in Seq(Delivered)
        BY <3>2 DEF Take, TypeOK
      <4>2. loop' \in [Loops -> Loop]
        BY <3>2, <4>1, DeliveryAssumption DEF Take, TypeOK, Loop, LoopSteps, Delivered
      <4>3. buf' \in [Loops -> Seq(Delivered)]
        BY <3>2, <4>1 DEF Take, TypeOK
      <4>. QED
        BY <3>2, <4>2, <4>3 DEF Take, TypeOK
    <3>3. CASE Restart(l)
      BY <3>3, LoopMoves DEF TypeOK, Restart, LoopSteps
    <3>4. CASE Closed(l)
      BY <3>4, LoopMoves, StopIteratorTypeOK DEF TypeOK, Closed, LoopSteps
    <3>5. CASE Succeed(l)
      BY <3>5, LoopMoves DEF TypeOK, Succeed, LoopSteps, Busy, Handling
    <3>6. CASE Reject(l)
      BY <3>6, LoopMoves DEF TypeOK, Reject, LoopSteps
    <3>7. CASE Fail(l)
      BY <3>7, LoopMoves DEF TypeOK, Fail, LoopSteps, Busy, Handling
    <3>8. CASE publishToDLQ(l)
      BY <3>8, LoopMoves DEF TypeOK, publishToDLQ, LoopSteps, Busy, Handling
    <3>9. CASE Term(l) \/ Ack(l)
      BY <3>9, LoopMoves DEF TypeOK, Term, Ack, Answer, LastHandled, LoopSteps
    <3>10. CASE Nak(l)
      BY <3>10, LoopMoves DEF TypeOK, Nak, LoopSteps
    <3>11. CASE NextFails(l)
      <4>1. ASSUME loop[l].errs + 1 < MaxErrs, loop' = [loop EXCEPT ![l].errs = @ + 1]
            PROVE  loop' \in [Loops -> Loop]
        <5>1. loop[l] \in Loop /\ loop[l].errs + 1 \in 0..(MaxErrs - 1)
          BY <4>1, DeliveryAssumption DEF TypeOK, Loop
        <5>. QED
          BY <4>1, <5>1 DEF TypeOK, Loop
      <4>3. ASSUME Reset(l, "backoff") PROVE loop' \in [Loops -> Loop]
        BY <4>3, LoopMoves DEF TypeOK, LoopSteps
      <4>2. buf' \in [Loops -> Seq(Delivered)] /\ lost' \subseteq Messages
        BY <3>11, StopIteratorTypeOK DEF TypeOK, NextFails
      <4>. QED
        BY <3>11, <4>1, <4>2, <4>3 DEF TypeOK, NextFails
    <3>. QED
      BY <2>5, <3>1, <3>2, <3>3, <3>4, <3>5, <3>6, <3>7, <3>8, <3>9, <3>10, <3>11
         DEF Consume, Handle
  <2>6. ASSUME NEW l \in Loops, NEW m \in Messages, Fetch(l, m) PROVE TypeOK'
    <3>1. [msg |-> m, n |-> deliveries[m] + 1] \in Delivered
      BY <2>6, DeliveryAssumption DEF Fetch, TypeOK, Delivered
    <3>2. buf' \in [Loops -> Seq(Delivered)]
      BY <2>6, <3>1 DEF Fetch, TypeOK
    <3>. QED
      BY <2>6, <3>2, DeliveryAssumption DEF Fetch, TypeOK
  <2>7. CASE UNCHANGED vars
    BY <2>7 DEF TypeOK, vars
  <2>. QED
    BY <2>1, <2>2, <2>3, <2>4, <2>5, <2>6, <2>7 DEF Next
<1>2. TypeOK /\ Busy /\ [Next]_vars => Busy'
  <2>. SUFFICES ASSUME TypeOK, Busy, [Next]_vars PROVE Busy'
    OBVIOUS
  <2>. USE DEF TypeOK, Busy, Handling
  <2>1. CASE Start \/ Shutdown \/ Exit \/ Crash
    BY <2>1 DEF Start, Shutdown, Exit, Crash, Ends, At
  <2>2. ASSUME NEW l \in Loops, Take(l) PROVE Busy'
    <3>1. Head(buf[l]) \in Delivered
      BY <2>2 DEF Take
    <3>. QED
      BY <2>2, <3>1 DEF Take, Delivered
  <2>3. ASSUME NEW l \in Loops, Consume(l) \/ NextFails(l), ~Take(l) PROVE Busy'
    <3>1. \A k \in Loops \ {l} : loop'[k] = loop[k]
      BY <2>3 DEF Consume, NextFails, Subscribe, Restart, Closed, Handle, Succeed, Reject, Fail,
         publishToDLQ, Term, Ack, Nak, Answer, Goto, Reset
    <3>2. \/ loop'[l].at \in {"next", "backoff", "subscribe", "exited"}
          \/ Handling(l) /\ loop'[l].msg = loop[l].msg
      BY <2>3 DEF Consume, NextFails, Subscribe, Restart, Closed, Handle, Succeed, Reject, Fail,
         publishToDLQ, Term, Ack, Nak, Answer, Goto, Reset, At, Loop
    <3>. QED
      BY <3>1, <3>2
  <2>4. ASSUME NEW l \in Loops, NEW m \in Messages, Fetch(l, m) PROVE Busy'
    BY <2>4 DEF Fetch
  <2>5. CASE UNCHANGED vars
    BY <2>5 DEF vars
  <2>. QED
    BY <2>1, <2>2, <2>3, <2>4, <2>5 DEF Next
<1>. QED
  BY <1>1, <1>2, InitTypeOK, PTL DEF Spec

-----------------------------------------------------------------------------
(* A loop about to answer the server has earned the answer.                *)
Earned ==
    \A l \in Loops :
        /\ loop[l].at = "ack" => loop[l].msg \in handled
        /\ loop[l].at = "term" => loop[l].msg \in dlq \cup dropped

LEMMA InitEarned == Init => Earned
BY DEF Init, Earned, At, Handling

LEMMA EarnedStep == ASSUME TypeOK, Earned, [Next]_vars PROVE Earned'
<1>. USE DEF Earned, server, outcome, TypeOK
<1>1. CASE Start \/ Shutdown \/ Exit \/ Crash
  BY <1>1 DEF Start, Shutdown, Exit, Crash, Ends, At
<1>2. ASSUME NEW l \in Loops, Consume(l) \/ NextFails(l) PROVE Earned'
  <2>1. \A k \in Loops \ {l} : loop'[k] = loop[k]
    BY <1>2 DEF Consume, NextFails, Subscribe, Take, Restart, Closed, Handle, Succeed, Reject,
       Fail, publishToDLQ, Term, Ack, Nak, Answer, Goto, Reset
  <2>2. handled \subseteq handled' /\ dlq \subseteq dlq' /\ dropped \subseteq dropped'
    BY <1>2 DEF Consume, NextFails, Subscribe, Take, Restart, Closed, Handle, Succeed, Reject,
       Fail, publishToDLQ, Term, Ack, Nak, Answer
  <2>3. \/ Succeed(l) \/ publishToDLQ(l)
        \/ loop'[l].at \notin {"ack", "term"}
    <3>1. CASE Subscribe(l) \/ Restart(l) \/ Take(l) \/ Reject(l) \/ Fail(l)
      BY <3>1 DEF Subscribe, Restart, Take, Reject, Fail, Goto, Loop
    <3>2. CASE Closed(l) \/ Term(l) \/ Ack(l) \/ Nak(l)
      BY <3>2 DEF Closed, Term, Ack, Nak, Answer, Reset, At
    <3>3. CASE NextFails(l)
      <4>1. loop[l].at = "next"
        BY <3>3 DEF NextFails
      <4>2. loop'[l].at \in {"next", "backoff"}
        BY <3>3, <4>1 DEF NextFails, Reset, At, Loop
      <4>. QED
        BY <4>2
    <3>. QED
      BY <1>2, <3>1, <3>2, <3>3 DEF Consume, Handle
  <2>4. CASE Succeed(l)
    <3>1. loop'[l].at = "ack" /\ loop'[l].msg = loop[l].msg /\ loop[l].msg \in handled'
      BY <2>4 DEF Succeed, Goto, Loop
    <3>. QED
      BY <2>1, <2>2, <3>1
  <2>5. CASE publishToDLQ(l)
    <3>1. loop'[l].at = "term" /\ loop'[l].msg = loop[l].msg /\ loop[l].msg \in dlq' \cup dropped'
      BY <2>5 DEF publishToDLQ, Goto, Loop
    <3>. QED
      BY <2>1, <2>2, <3>1
  <2>. QED
    BY <2>1, <2>2, <2>3, <2>4, <2>5
<1>3. ASSUME NEW l \in Loops, NEW m \in Messages, Fetch(l, m) PROVE Earned'
  BY <1>3 DEF Fetch
<1>4. CASE UNCHANGED vars
  BY <1>4 DEF vars
<1>. QED
  BY <1>1, <1>2, <1>3, <1>4 DEF Next

LEMMA InitImplements == Init => Promise!Init
BY DEF Init, Promise!Init

LEMMA StepImplements ==
    ASSUME TypeOK, Busy, Earned, [Next]_vars
    PROVE  [Promise!Next]_<<handled, dlq \cup dropped, settled>>
<1>. USE DEF server, outcome
<1>1. CASE UNCHANGED <<outcome, settled>>
  BY <1>1
<1>2. ASSUME NEW l \in Loops, Succeed(l) \/ Fail(l)
      PROVE  [Promise!Next]_<<handled, dlq \cup dropped, settled>>
  <2>1. loop[l].msg \in Messages
    BY <1>2 DEF Busy, Handling, Succeed, Fail
  <2>2. handled' \in {handled, handled \cup {loop[l].msg}} /\ UNCHANGED <<dlq, dropped, settled>>
    BY <1>2 DEF Succeed, Fail
  <2>. QED
    BY <2>1, <2>2 DEF Promise!Next, Promise!Handle
<1>3. ASSUME NEW l \in Loops, publishToDLQ(l)
      PROVE  [Promise!Next]_<<handled, dlq \cup dropped, settled>>
  <2>1. loop[l].msg \in Messages
    BY <1>3 DEF Busy, Handling, publishToDLQ
  <2>2. (dlq \cup dropped)' = (dlq \cup dropped) \cup {loop[l].msg}
        /\ UNCHANGED <<handled, settled>>
    BY <1>3 DEF publishToDLQ
  <2>. QED
    BY <2>1, <2>2 DEF Promise!Next, Promise!Bury
<1>4. ASSUME NEW l \in Loops, Term(l) \/ Ack(l)
      PROVE  [Promise!Next]_<<handled, dlq \cup dropped, settled>>
  <2>1. loop[l].msg \in Messages
    BY <1>4 DEF Busy, Handling, Term, Ack
  <2>2. UNCHANGED outcome
    BY <1>4 DEF Term, Ack, Answer
  <2>3. \/ UNCHANGED settled
        \/ /\ settled[loop[l].msg] = "open"
           /\ \/ loop[l].at = "ack" /\ settled' = [settled EXCEPT ![loop[l].msg] = "acked"]
              \/ loop[l].at = "term" /\ settled' = [settled EXCEPT ![loop[l].msg] = "termed"]
    BY <1>4 DEF Term, Ack, Answer
  <2>. QED
    BY <2>1, <2>2, <2>3 DEF Earned, Promise!Next, Promise!Settle
<1>5. \/ UNCHANGED <<outcome, settled>>
      \/ \E l \in Loops : Succeed(l) \/ Fail(l) \/ publishToDLQ(l) \/ Term(l) \/ Ack(l)
  BY DEF Next, vars, Start, Shutdown, Exit, Crash, Ends, Consume, Subscribe, Take, NextFails,
     Restart, Closed, Handle, Reject, Nak, Fetch
<1>. QED
  BY <1>1, <1>2, <1>3, <1>4, <1>5

(* For every stream, number of loops and faults the worker implements      *)
(* Disposition: a message is acked only after it was handled, Term'd only  *)
(* after its dead letter or its loss was recorded, and settled once.       *)
THEOREM DeliveryImplementsDisposition == Spec => PromiseKept
<1>1. Spec => [](TypeOK /\ Busy /\ Earned)
  <2>1. TypeOK /\ Earned /\ [Next]_vars => Earned'
    BY EarnedStep
  <2>. QED
    BY <2>1, InitEarned, DeliveryTypes, PTL DEF Spec
<1>2. TypeOK /\ Busy /\ Earned /\ [Next]_vars => [Promise!Next]_(Promise!dvars)
  BY StepImplements DEF Promise!dvars
<1>. QED
  BY <1>1, <1>2, InitImplements, PTL DEF Spec, PromiseKept, Promise!Spec

-----------------------------------------------------------------------------
(* A false flag was stored by a loop that is still down: each loop that    *)
(* comes back stores true.                                                 *)
Blamed == proc = "up" => healthy \/ \E l \in Loops : loop[l].at \in {"backoff", "subscribe"}

(* For any number of loops the flag behind /healthz is false only while a  *)
(* loop of the running worker is down (runMessageLoop's stores).           *)
THEOREM HealthNeverAccuses == Spec => []UnhealthyIsReal
<1>1. Init => Blamed
  BY DEF Init, Blamed
<1>2. TypeOK /\ Blamed /\ [Next]_vars => Blamed'
  <2>. SUFFICES ASSUME TypeOK, Blamed, [Next]_vars PROVE Blamed'
    OBVIOUS
  <2>. USE DEF Blamed
  <2>1. CASE Start \/ Shutdown \/ Exit \/ Crash
    BY <2>1 DEF Start, Shutdown, Exit, Crash, Ends
  <2>2. ASSUME NEW l \in Loops, Subscribe(l) \/ Restart(l) PROVE Blamed'
    BY <2>2 DEF Subscribe, Restart, Goto, TypeOK, Loop
  <2>3. ASSUME NEW l \in Loops, NextFails(l) PROVE Blamed'
    <3>1. CASE Reset(l, "backoff")
      BY <2>3, <3>1 DEF NextFails, Reset, At, TypeOK
    <3>2. CASE healthy' = healthy /\ loop' = [loop EXCEPT ![l].errs = @ + 1]
      <4>1. \A k \in Loops : loop'[k].at = loop[k].at
        BY <3>2 DEF TypeOK, Loop
      <4>. QED
        BY <2>3, <3>2, <4>1 DEF NextFails
    <3>. QED
      BY <2>3, <3>1, <3>2 DEF NextFails
  <2>4. ASSUME NEW l \in Loops, Take(l) \/ Closed(l) \/ Handle(l) PROVE Blamed'
    <3>1. UNCHANGED <<proc, healthy>> /\ loop[l].at \notin {"backoff", "subscribe"}
      BY <2>4 DEF Take, Closed, Handle, Succeed, Reject, Fail, publishToDLQ, Term, Ack, Nak, Answer
    <3>2. \A k \in Loops \ {l} : loop'[k] = loop[k]
      BY <2>4 DEF Take, Closed, Handle, Succeed, Reject, Fail, publishToDLQ, Term, Ack, Nak,
         Answer, Goto, Reset, TypeOK
    <3>. QED
      BY <3>1, <3>2
  <2>5. ASSUME NEW l \in Loops, NEW m \in Messages, Fetch(l, m) PROVE Blamed'
    BY <2>5 DEF Fetch
  <2>6. CASE UNCHANGED vars
    BY <2>6 DEF vars
  <2>. QED
    BY <2>1, <2>2, <2>3, <2>4, <2>5, <2>6 DEF Next, Consume
<1>3. Blamed => UnhealthyIsReal
  BY DEF Blamed, UnhealthyIsReal, Running, Handling
<1>. QED
  BY <1>1, <1>2, <1>3, DeliveryTypes, PTL DEF Spec
-----------------------------------------------------------------------------
(* What a loop knows of its delivery: the number it has, and the numbers in *)
(* its iterator, are ones the server has handed out.                       *)
Counted ==
    \A l \in Loops :
        /\ Handling(l) => loop[l].n <= deliveries[loop[l].msg]
        /\ \A i \in 1..Len(buf[l]) : buf[l][i].n <= deliveries[buf[l][i].msg]

(* A loop that buries a message that is not poison had its last delivery,  *)
(* or could not read which it was; one that naks knows it was not the last.*)
LastIsKnown ==
    \A l \in Loops :
        /\ loop[l].at = "dlq" =>
             loop[l].msg \in Poison \/ ~loop[l].meta \/ loop[l].n = MaxDeliver
        /\ loop[l].at = "nak" => loop[l].n < MaxDeliver

Attempts == TypeOK /\ Busy /\ Counted /\ LastIsKnown

(* What a loop does, it does to its own delivery and its own iterator.     *)
LEMMA OthersRest ==
    ASSUME TypeOK, NEW l \in Loops, Consume(l) \/ NextFails(l)
    PROVE  /\ deliveries' = deliveries
           /\ \A k \in Loops \ {l} : loop'[k] = loop[k] /\ buf'[k] = buf[k]
           /\ buf' = buf \/ Take(l) \/ StopIterator(l)
<1>. USE DEF TypeOK, server, outcome
<1>1. CASE Handle(l)
  BY <1>1 DEF Handle, Succeed, Reject, Fail, publishToDLQ, Term, Ack, Nak, Answer, Goto, Reset
<1>2. CASE Subscribe(l) \/ Restart(l)
  BY <1>2 DEF Subscribe, Restart, Goto
<1>3. CASE Take(l)
  BY <1>3 DEF Take
<1>4. CASE Closed(l) \/ NextFails(l)
  BY <1>4 DEF Closed, NextFails, StopIterator, Reset
<1>. QED
  BY <1>1, <1>2, <1>3, <1>4 DEF Consume

(* A loop keeps its delivery while it handles it, and gets a new one from  *)
(* the head of its iterator only.                                          *)
LEMMA DeliveryStays ==
    ASSUME TypeOK, NEW l \in Loops, Consume(l) \/ NextFails(l), ~Take(l), Handling(l)'
    PROVE  /\ Handling(l)
           /\ loop'[l].msg = loop[l].msg /\ loop'[l].n = loop[l].n /\ loop'[l].meta = loop[l].meta
<1>. USE DEF TypeOK, Handling, Loop
<1>1. CASE Succeed(l) \/ Reject(l) \/ Fail(l) \/ publishToDLQ(l)
  BY <1>1 DEF Succeed, Reject, Fail, publishToDLQ, Goto
<1>2. CASE Term(l) \/ Ack(l) \/ Nak(l) \/ Closed(l)
  BY <1>2 DEF Term, Ack, Nak, Answer, Closed, Reset, At
<1>3. CASE Subscribe(l) \/ Restart(l)
  BY <1>3 DEF Subscribe, Restart, Goto
<1>4. CASE NextFails(l)
  <2>1. loop[l].at = "next"
    BY <1>4 DEF NextFails
  <2>2. loop'[l].at \in {"next", "backoff"}
    BY <1>4, <2>1 DEF NextFails, Reset, At
  <2>. QED
    BY <2>2
<1>. QED
  BY <1>1, <1>2, <1>3, <1>4 DEF Consume, Handle

LEMMA TailItems ==
    ASSUME NEW s \in Seq(Delivered), s # <<>>
    PROVE  /\ Head(s) = s[1] /\ Tail(s) \in Seq(Delivered) /\ Len(Tail(s)) = Len(s) - 1
           /\ \A i \in 1..Len(Tail(s)) : Tail(s)[i] = s[i + 1] /\ i + 1 \in 1..Len(s)
           /\ \A i \in 1..Len(s) : i = 1 \/ (i - 1 \in 1..Len(Tail(s)) /\ s[i] = Tail(s)[i - 1])
           /\ 1 \in 1..Len(s)
OBVIOUS

LEMMA AppendItems ==
    ASSUME NEW s \in Seq(Delivered), NEW e \in Delivered
    PROVE  /\ Len(Append(s, e)) = Len(s) + 1
           /\ \A i \in 1..Len(s) : Append(s, e)[i] = s[i] /\ i \in 1..(Len(s) + 1)
           /\ Append(s, e)[Len(s) + 1] = e /\ Len(s) + 1 \in 1..(Len(s) + 1)
           /\ \A i \in 1..(Len(s) + 1) : i \in 1..Len(s) \/ i = Len(s) + 1
OBVIOUS

(* A stopped iterator, a shutdown and a restart leave fewer deliveries.    *)
LEMMA CountedStep == ASSUME Attempts, [Next]_vars PROVE Counted'
<1>. USE DEF Attempts
<1>1. CASE Start \/ Shutdown \/ Exit \/ Crash
  BY <1>1 DEF Start, Shutdown, Exit, Crash, Ends, At, Counted, Handling, TypeOK, server
<1>2. ASSUME NEW l \in Loops, Consume(l) \/ NextFails(l) PROVE Counted'
  <2>1. deliveries' = deliveries
        /\ \A k \in Loops \ {l} : loop'[k] = loop[k] /\ buf'[k] = buf[k]
    BY <1>2, OthersRest
  <2>2. \A k \in Loops \ {l} : Handling(k)' <=> Handling(k)
    BY <2>1 DEF Handling
  <2>3. Handling(l)' => loop'[l].n <= deliveries[loop'[l].msg]
    <3>1. CASE Take(l)
      <4>1. buf[l] \in Seq(Delivered) /\ buf[l] # <<>>
        BY <3>1 DEF Take, TypeOK
      <4>2. loop'[l].msg = buf[l][1].msg /\ loop'[l].n = buf[l][1].n
        BY <3>1, <4>1, TailItems DEF Take, TypeOK
      <4>3. 1 \in 1..Len(buf[l])
        BY <4>1, TailItems
      <4>. QED
        BY <4>2, <4>3 DEF Counted
    <3>2. CASE ~Take(l)
      BY <3>2, <1>2, DeliveryStays DEF Counted
    <3>. QED
      BY <3>1, <3>2
  <2>4. \A i \in 1..Len(buf'[l]) : buf'[l][i].n <= deliveries[buf'[l][i].msg]
    <3>1. CASE Take(l)
      <4>1. buf[l] \in Seq(Delivered) /\ buf[l] # <<>> /\ buf'[l] = Tail(buf[l])
        BY <3>1 DEF Take, TypeOK
      <4>2. \A i \in 1..Len(buf'[l]) : buf'[l][i] = buf[l][i + 1] /\ i + 1 \in 1..Len(buf[l])
        BY <4>1, TailItems
      <4>. QED
        BY <4>2 DEF Counted
    <3>2. CASE StopIterator(l)
      BY <3>2 DEF StopIterator, TypeOK
    <3>3. CASE buf' = buf
      BY <3>3 DEF Counted
    <3>. QED
      BY <1>2, <3>1, <3>2, <3>3, OthersRest
  <2>. QED
    BY <2>1, <2>2, <2>3, <2>4 DEF Counted
<1>3. ASSUME NEW l \in Loops, NEW m \in Messages, Fetch(l, m) PROVE Counted'
  <2> DEFINE e == [msg |-> m, n |-> deliveries[m] + 1]
  <2>1. e \in Delivered /\ buf[l] \in Seq(Delivered)
    <3>1. e \in Delivered
      BY <1>3, DeliveryAssumption DEF Fetch, TypeOK, Delivered
    <3>. QED
      BY <3>1 DEF TypeOK
  <2>2. buf'[l] = Append(buf[l], e) /\ (\A k \in Loops \ {l} : buf'[k] = buf[k]) /\ loop' = loop
    BY <1>3 DEF Fetch, TypeOK
  <2>3. \A o \in Messages : deliveries[o] <= deliveries'[o]
    BY <1>3 DEF Fetch, TypeOK
  <2>4. deliveries'[m] = deliveries[m] + 1
    BY <1>3 DEF Fetch, TypeOK
  <2>5. deliveries' \in [Messages -> Nat] /\ deliveries \in [Messages -> Nat]
    BY <1>3 DEF Fetch, TypeOK
  <2>6. \A k \in Loops : \A i \in 1..Len(buf[k]) :
          /\ buf[k][i].msg \in Messages /\ buf[k][i].n \in Nat
          /\ buf[k][i].n <= deliveries'[buf[k][i].msg]
    <3>1. \A k \in Loops : \A i \in 1..Len(buf[k]) : buf[k][i] \in Delivered
      BY DEF TypeOK
    <3>2. \A k \in Loops : \A i \in 1..Len(buf[k]) :
            buf[k][i].msg \in Messages /\ buf[k][i].n \in Nat
      BY <3>1 DEF Delivered
    <3>. QED
      BY <2>3, <2>5, <3>2 DEF Counted
  <2>7. \A i \in 1..Len(buf'[l]) : buf'[l][i].n <= deliveries'[buf'[l][i].msg]
    <3>. SUFFICES ASSUME NEW i \in 1..Len(buf'[l])
                  PROVE  buf'[l][i].n <= deliveries'[buf'[l][i].msg]
      OBVIOUS
    <3>1. CASE i \in 1..Len(buf[l])
      <4>1. buf'[l][i] = buf[l][i]
        BY <2>1, <2>2, <3>1, AppendItems
      <4>. QED
        BY <2>6, <3>1, <4>1
    <3>2. CASE i = Len(buf[l]) + 1
      <4>1. buf'[l][i] = e
        BY <2>1, <2>2, <3>2, AppendItems
      <4>. QED
        BY <2>4, <2>5, <4>1
    <3>. QED
      BY <2>1, <2>2, <3>1, <3>2, AppendItems
  <2>8. \A k \in Loops : Handling(k)' => loop'[k].n <= deliveries'[loop'[k].msg]
    <3>1. \A k \in Loops : loop[k].n \in Nat
      BY DEF TypeOK, Loop
    <3>. QED
      BY <2>2, <2>3, <2>5, <3>1 DEF Counted, Busy, Handling
  <2>. HIDE DEF e
  <2>. QED
    BY <2>2, <2>6, <2>7, <2>8 DEF Counted
<1>4. CASE UNCHANGED vars
  BY <1>4 DEF vars, Counted, Handling, server
<1>. QED
  BY <1>1, <1>2, <1>3, <1>4 DEF Next

LEMMA LastIsKnownStep == ASSUME Attempts, [Next]_vars PROVE LastIsKnown'
<1>. USE DEF Attempts, LastIsKnown
<1>1. CASE Start \/ Shutdown \/ Exit \/ Crash
  BY <1>1 DEF Start, Shutdown, Exit, Crash, Ends, At, TypeOK
<1>2. ASSUME NEW l \in Loops, Consume(l) \/ NextFails(l) PROVE LastIsKnown'
  <2>1. \A k \in Loops \ {l} : loop'[k] = loop[k]
    BY <1>2, OthersRest
  <2>2. CASE Reject(l)
    BY <2>1, <2>2 DEF Reject, Goto, TypeOK, Loop
  <2>3. CASE Fail(l)
    <3>1. loop[l].n \in 0..MaxDeliver /\ MaxDeliver \in Nat
      BY DeliveryAssumption DEF TypeOK, Loop
    <3>2. /\ loop'[l].meta = loop[l].meta /\ loop'[l].n = loop[l].n /\ loop'[l].msg = loop[l].msg
          /\ loop'[l].at = IF isLastDelivery(l) THEN "dlq" ELSE "nak"
      BY <2>3 DEF Fail, Goto, TypeOK, Loop
    <3>. QED
      BY <2>1, <3>1, <3>2 DEF isLastDelivery
  <2>4. CASE ~Reject(l) /\ ~Fail(l)
    <3>1. loop'[l].at \notin {"dlq", "nak"}
      <4>1. CASE Take(l) \/ Subscribe(l) \/ Restart(l) \/ Succeed(l) \/ publishToDLQ(l)
        BY <4>1 DEF Take, Subscribe, Restart, Succeed, publishToDLQ, Goto, TypeOK, Loop
      <4>2. CASE Term(l) \/ Ack(l) \/ Nak(l) \/ Closed(l)
        BY <4>2 DEF Term, Ack, Nak, Answer, Closed, Reset, At, TypeOK
      <4>3. CASE NextFails(l)
        <5>1. loop[l].at = "next"
          BY <4>3 DEF NextFails
        <5>2. loop'[l].at \in {"next", "backoff"}
          BY <4>3, <5>1 DEF NextFails, Reset, At, TypeOK, Loop
        <5>. QED
          BY <5>2
      <4>. QED
        BY <1>2, <2>4, <4>1, <4>2, <4>3 DEF Consume, Handle
    <3>. QED
      BY <2>1, <3>1
  <2>. QED
    BY <2>2, <2>3, <2>4
<1>3. ASSUME NEW l \in Loops, NEW m \in Messages, Fetch(l, m) PROVE LastIsKnown'
  BY <1>3 DEF Fetch
<1>4. CASE UNCHANGED vars
  BY <1>4 DEF vars
<1>. QED
  BY <1>1, <1>2, <1>3, <1>4 DEF Next

LEMMA AttemptsKept == Spec => []Attempts
<1>1. Init => Counted /\ LastIsKnown
  BY DEF Init, At, Counted, LastIsKnown, Handling
<1>2. Attempts /\ [Next]_vars => Counted' /\ LastIsKnown'
  BY CountedStep, LastIsKnownStep
<1>. QED
  BY <1>1, <1>2, DeliveryTypes, PTL DEF Spec, Attempts

(* For every delivery limit and any faults, a message is dead-lettered     *)
(* early only when it is poison or its delivery count could not be read    *)
(* (handleMessage's isLastDelivery).                                       *)
THEOREM DeliveryUsesRetries == Spec => RetriesAreUsed
<1> DEFINE A == \A m \in (dlq' \cup dropped') \ (dlq \cup dropped) :
                  \/ m \in Poison \/ deliveries[m] = MaxDeliver
                  \/ \E l \in Loops : loop[l].msg = m /\ ~loop[l].meta
<1>1. Attempts /\ [Next]_vars => [A]_vars
  <2>. SUFFICES ASSUME Attempts, Next, NEW m \in (dlq' \cup dropped') \ (dlq \cup dropped)
                PROVE  \/ m \in Poison \/ deliveries[m] = MaxDeliver
                       \/ \E l \in Loops : loop[l].msg = m /\ ~loop[l].meta
    OBVIOUS
  <2>1. PICK l \in Loops : publishToDLQ(l) /\ loop[l].msg = m
    <3>1. \E l \in Loops : publishToDLQ(l)
      BY DEF Next, Start, Shutdown, Exit, Crash, Ends, Consume, Subscribe, Take, NextFails,
         Restart, Closed, Handle, Succeed, Reject, Fail, Term, Ack, Answer, Nak, Fetch, outcome
    <3>. QED
      BY <3>1 DEF publishToDLQ
  <2>2. loop[l].at = "dlq" /\ m \in Messages
    BY <2>1 DEF publishToDLQ, Attempts, Busy, Handling
  <2>3. CASE loop[l].n = MaxDeliver
    <3>1. MaxDeliver <= deliveries[m]
      BY <2>1, <2>2, <2>3 DEF Attempts, Counted, Handling
    <3>. QED
      BY <2>2, <3>1, DeliveryAssumption DEF Attempts, TypeOK
  <2>. QED
    BY <2>1, <2>2, <2>3 DEF Attempts, LastIsKnown
<1>. QED
  BY <1>1, AttemptsKept, PTL DEF Spec, RetriesAreUsed
-----------------------------------------------------------------------------
(* The last delivery of a message is somewhere, until it is lost or the    *)
(* message is settled.                                                     *)
LastAround ==
    \A m \in Messages :
        settled[m] = "open" /\ deliveries[m] = MaxDeliver /\ m \notin lost =>
            \E l \in Loops : LastIn(l, m) \/ m \in LastHandled(l)

DownIsIdle == proc = "down" => \A l \in Loops : loop[l].at = "exited"

LEMMA DownIsIdleStep == ASSUME TypeOK, DownIsIdle, [Next]_vars PROVE DownIsIdle'
<1>1. CASE Start \/ Shutdown \/ Exit \/ Crash
  BY <1>1 DEF DownIsIdle, Start, Shutdown, Exit, Crash, Ends, At
<1>2. ASSUME NEW l \in Loops, Consume(l) \/ NextFails(l) PROVE DownIsIdle'
  <2>1. proc' = proc /\ loop[l].at # "exited"
    BY <1>2 DEF Consume, Handle, Subscribe, Take, Restart, Closed, NextFails, Succeed, Reject, Fail,
       publishToDLQ, Term, Ack, Nak, Answer
  <2>. QED
    BY <2>1 DEF DownIsIdle
<1>3. ASSUME NEW l \in Loops, NEW m \in Messages, Fetch(l, m) PROVE DownIsIdle'
  BY <1>3 DEF DownIsIdle, Fetch
<1>4. CASE UNCHANGED vars
  BY <1>4 DEF DownIsIdle, vars
<1>. QED
  BY <1>1, <1>2, <1>3, <1>4 DEF Next

(* A delivery leaves the iterator for its loop only, and the loop keeps it *)
(* until it answers; what is stopped or ended goes to lost.                *)
LEMMA LastAroundStep == ASSUME Attempts, DownIsIdle, LastAround, [Next]_vars PROVE LastAround'
<1>. SUFFICES ASSUME NEW m \in Messages, m \notin lost',
                     settled'[m] = "open", deliveries'[m] = MaxDeliver
              PROVE  \E l \in Loops : LastIn(l, m)' \/ m \in LastHandled(l)'
  BY DEF LastAround
<1>. USE DEF Attempts
<1>1. CASE Exit \/ Crash
  <2>1. settled[m] = "open" /\ deliveries[m] = MaxDeliver /\ m \notin lost
    BY <1>1 DEF Exit, Crash, Ends, server
  <2>2. PICK l \in Loops : LastIn(l, m) \/ m \in LastHandled(l)
    BY <2>1 DEF LastAround
  <2>3. m \in LastBuffered(l) \cup LastHandled(l)
    BY <2>2 DEF LastBuffered
  <2>. QED
    BY <1>1, <2>3 DEF Exit, Crash, Ends
<1>2. CASE Start
  <2>1. \A l \in Loops : m \notin LastHandled(l)
    BY <1>2 DEF Start, DownIsIdle, LastHandled, Handling
  <2>2. PICK l \in Loops : LastIn(l, m)
    BY <1>2, <2>1 DEF Start, LastAround, server
  <2>. QED
    BY <1>2, <2>2 DEF Start, LastIn
<1>3. CASE Shutdown \/ UNCHANGED vars
  <2>1. PICK l \in Loops : LastIn(l, m) \/ m \in LastHandled(l)
    BY <1>3 DEF Shutdown, vars, server, LastAround
  <2>. QED
    BY <1>3, <2>1 DEF Shutdown, vars, server, LastIn, LastHandled, Handling
<1>4. ASSUME NEW l \in Loops, NEW k \in Messages, Fetch(l, k)
      PROVE  \E j \in Loops : LastIn(j, m)' \/ m \in LastHandled(j)'
  <2> DEFINE e == [msg |-> k, n |-> deliveries[k] + 1]
  <2>1. e \in Delivered
    BY <1>4, DeliveryAssumption DEF Fetch, TypeOK, Delivered
  <2>2. buf[l] \in Seq(Delivered) /\ buf'[l] = Append(buf[l], e)
    BY <1>4 DEF Fetch, TypeOK
  <2>3. CASE k = m
    <3>1. deliveries[m] + 1 = MaxDeliver
      BY <1>4, <2>3 DEF Fetch, TypeOK
    <3>2. e = [msg |-> m, n |-> MaxDeliver]
      BY <2>3, <3>1
    <3>. HIDE DEF e
    <3>3. Len(buf[l]) + 1 \in 1..Len(buf'[l]) /\ buf'[l][Len(buf[l]) + 1] = e
      BY <2>1, <2>2, AppendItems
    <3>. QED
      BY <3>2, <3>3 DEF LastIn
  <2>4. CASE k # m
    <3>1. deliveries[m] = MaxDeliver /\ settled[m] = "open" /\ m \notin lost
      BY <1>4, <2>4 DEF Fetch, TypeOK
    <3>2. PICK j \in Loops : LastIn(j, m) \/ m \in LastHandled(j)
      BY <3>1 DEF LastAround
    <3>3. m \in LastHandled(j) => m \in LastHandled(j)'
      BY <1>4 DEF Fetch, LastHandled, Handling
    <3>4. ASSUME LastIn(j, m) PROVE LastIn(j, m)'
      <4>1. PICK i \in 1..Len(buf[j]) : buf[j][i] = [msg |-> m, n |-> MaxDeliver]
        BY <3>4 DEF LastIn
      <4>. HIDE DEF e
      <4>2. i \in 1..Len(buf'[j]) /\ buf'[j][i] = buf[j][i]
        <5>1. CASE j = l
          BY <2>1, <2>2, <4>1, <5>1, AppendItems
        <5>2. CASE j # l
          BY <1>4, <4>1, <5>2 DEF Fetch, TypeOK
        <5>. QED
          BY <5>1, <5>2
      <4>. QED
        BY <4>1, <4>2 DEF LastIn
    <3>. QED
      BY <3>2, <3>3, <3>4
  <2>. QED
    BY <2>3, <2>4
<1>5. ASSUME NEW l \in Loops, Consume(l) \/ NextFails(l)
      PROVE  \E j \in Loops : LastIn(j, m)' \/ m \in LastHandled(j)'
  <2>1. settled[m] = "open" /\ deliveries[m] = MaxDeliver /\ m \notin lost
    <3>1. settled[m] = "open" /\ m \notin lost
      <4>1. CASE Term(l) \/ Ack(l)
        BY <4>1, <1>5 DEF Term, Ack, Answer, TypeOK
      <4>2. CASE Closed(l) \/ NextFails(l)
        BY <4>2 DEF Closed, NextFails, StopIterator, server
      <4>3. CASE ~(Term(l) \/ Ack(l) \/ Closed(l) \/ NextFails(l))
        BY <4>3, <1>5 DEF Consume, Handle, Subscribe, Take, Restart, Succeed, Reject, Fail,
           publishToDLQ, Nak, server
      <4>. QED
        BY <4>1, <4>2, <4>3
    <3>. QED
      BY <3>1, <1>5, OthersRest
  <2>2. PICK j \in Loops : LastIn(j, m) \/ m \in LastHandled(j)
    BY <2>1 DEF LastAround
  <2>3. \A k \in Loops \ {l} : loop'[k] = loop[k] /\ buf'[k] = buf[k]
    BY <1>5, OthersRest
  <2>4. CASE j # l
    BY <2>2, <2>3, <2>4 DEF LastIn, LastHandled, Handling
  <2>5. CASE j = l /\ LastIn(l, m)
    <3>1. PICK i \in 1..Len(buf[l]) : buf[l][i] = [msg |-> m, n |-> MaxDeliver]
      BY <2>5 DEF LastIn
    <3>2. CASE Take(l)
      <4>1. buf[l] \in Seq(Delivered) /\ buf[l] # <<>> /\ buf'[l] = Tail(buf[l])
        BY <3>2 DEF Take, TypeOK
      <4>2. CASE i = 1
        <5>1. Head(buf[l]) = [msg |-> m, n |-> MaxDeliver]
          BY <3>1, <4>1, <4>2, TailItems
        <5>2. loop'[l].at = "process" /\ loop'[l].msg = m /\ loop'[l].n = MaxDeliver
          BY <3>2, <5>1 DEF Take, TypeOK
        <5>. QED
          BY <5>2 DEF LastHandled, Handling
      <4>3. CASE i # 1
        <5>1. i - 1 \in 1..Len(buf'[l]) /\ buf'[l][i - 1] = buf[l][i]
          BY <3>1, <4>1, <4>3, TailItems
        <5>. QED
          BY <3>1, <5>1 DEF LastIn
      <4>. QED
        BY <4>2, <4>3
    <3>3. CASE StopIterator(l)
      BY <2>5, <3>3 DEF StopIterator, LastBuffered
    <3>4. CASE buf' = buf
      BY <2>5, <3>4 DEF LastIn
    <3>. QED
      BY <1>5, <3>2, <3>3, <3>4, OthersRest
  <2>6. CASE j = l /\ m \in LastHandled(l)
    <3>1. Handling(l) /\ loop[l].msg = m /\ loop[l].n = MaxDeliver
      BY <2>6 DEF LastHandled
    <3>2. CASE Succeed(l) \/ Reject(l) \/ Fail(l) \/ publishToDLQ(l)
      <4>1. Handling(l)' /\ loop'[l].msg = m /\ loop'[l].n = MaxDeliver
        BY <3>1, <3>2 DEF Succeed, Reject, Fail, publishToDLQ, Goto, Handling, TypeOK, Loop
      <4>. QED
        BY <4>1 DEF LastHandled
    <3>3. CASE Term(l) \/ Ack(l)
      <4>1. m \in lost' \/ settled'[m] # "open"
        BY <2>1, <2>6, <3>1, <3>3 DEF Term, Ack, Answer, TypeOK
      <4>. QED
        BY <4>1
    <3>4. CASE Nak(l)
      BY <3>1, <3>4, DeliveryAssumption DEF Nak, LastIsKnown
    <3>5. CASE Subscribe(l) \/ Take(l) \/ Restart(l) \/ Closed(l) \/ NextFails(l)
      BY <3>1, <3>5 DEF Subscribe, Take, Restart, Closed, NextFails, Handling
    <3>. QED
      BY <1>5, <3>2, <3>3, <3>4, <3>5 DEF Consume, Handle
  <2>. QED
    BY <2>2, <2>4, <2>5, <2>6
<1>. QED
  BY <1>1, <1>2, <1>3, <1>4, <1>5 DEF Next

(* However often loops, iterators and processes end, a message that will   *)
(* not come again and is not settled is one whose last delivery they took: *)
(* no path through handleMessage leaves one behind.                        *)
THEOREM DeliveryStrandsOnlyByLoss == Spec => []StrandedOnlyByLoss
<1>1. Init => DownIsIdle /\ LastAround
  <2>1. ASSUME Init PROVE DownIsIdle
    BY <2>1 DEF Init, DownIsIdle, At
  <2>2. ASSUME Init PROVE LastAround
    BY <2>2, DeliveryAssumption DEF Init, LastAround
  <2>. QED
    BY <2>1, <2>2
<1>2. Attempts /\ DownIsIdle /\ LastAround /\ [Next]_vars => (DownIsIdle /\ LastAround)'
  BY DownIsIdleStep, LastAroundStep DEF Attempts
<1>3. LastAround => StrandedOnlyByLoss
  <2>. SUFFICES ASSUME LastAround, NEW m \in Messages, m \notin lost,
                       settled[m] = "open", deliveries[m] = MaxDeliver
                PROVE  InFlight(m)
    BY DEF StrandedOnlyByLoss
  <2>1. PICK l \in Loops : LastIn(l, m) \/ m \in LastHandled(l)
    BY DEF LastAround
  <2>2. CASE LastIn(l, m)
    <3>1. PICK i \in 1..Len(buf[l]) : buf[l][i] = [msg |-> m, n |-> MaxDeliver]
      BY <2>2 DEF LastIn
    <3>2. buf[l][i].msg = m
      BY <3>1
    <3>. QED
      BY <3>2 DEF InFlight
  <2>3. CASE m \in LastHandled(l)
    BY <2>3 DEF LastHandled, InFlight
  <2>. QED
    BY <2>1, <2>2, <2>3
<1>. QED
  BY <1>1, <1>2, <1>3, AttemptsKept, PTL DEF Spec
-----------------------------------------------------------------------------
(* Identify: the parts of its inductive invariant. *)

Message == [user : Users, anon : Anons \cup {None}, device : {Device, None},
            traits : [Keys -> 0 .. Len(batch)], nul : BOOLEAN]
Started == {"link", "merge", "join", "commit", "rejoin", "publish",
             "upsert", "tombstone", "claim", "settled"}
Merging == {"merge", "join", "commit", "rejoin", "upsert", "tombstone", "claim"}
Work == [msg : Message, pc : Started \cup {"queued", "dead"}, row : Rows \cup {None},
         traits : [Keys -> Values], sees : BOOLEAN]

(* What the handler made of a batch: its order is kept, and who can be folded into
   one message was.                                                              *)
Sets(u, traits) == \A k \in Keys : inOrder(u, k) # 0 => traits[k] = inOrder(u, k)
Coalesced ==
  /\ batch \in Seq(Item) /\ messages \in Seq(Message)
  /\ CoalesceKeepsOrder
  /\ \A i \in DOMAIN messages :
       messages[i].user \in Foldable /\ ~messages[i].nul => Sets(messages[i].user, messages[i].traits)

(* A handler's message is one of the batch's, and its row is of the message's user. *)
HandlesMessage(m) == \E i \in DOMAIN messages : msg(m) = messages[i]
HasRow(m) ==
  /\ work[m].pc \in Started => row(m) # None
  /\ row(m) # None => row(m)[1] = msg(m).user /\ rows[row(m)].state # "none" /\ ~msg(m).nul
  /\ work[m].pc \in Merging => msg(m).anon # None

(* Everything written of a user whose items fold into one message is that message's. *)
Whole ==
  /\ \A r \in Rows : r[1] \in Foldable =>
       /\ rows[r].state # "none" => Sets(r[1], rows[r].traits)
       /\ ch[r].state # "none" => Sets(r[1], ch[r].traits)
       /\ \A u \in upserts : u.id = r => Sets(r[1], u.doc.traits)
  /\ \A m \in DOMAIN work : row(m) # None /\ msg(m).user \in Foldable => Sets(msg(m).user, work[m].traits)

(* A live row has been told to ClickHouse, or some message will. *)
Told(r) == ch[r].state # "none" \/ \E u \in upserts : u.id = r
Unfinished(m) == work[m].pc \notin {"settled", "dead"}
RowsTold ==
  /\ \A u \in upserts : u.doc.state # "none"
  /\ \A m \in DOMAIN work : work[m].pc \in {"tombstone", "claim", "settled"} => Told(row(m))
  /\ \A r \in Rows : rows[r].state = "live" =>
       Told(r) \/ \E m \in DOMAIN work : row(m) = r /\ Unfinished(m)

(* An anonymous profile that is claimed is no longer one, and what it had is kept. *)
Merged(a) == anons[a].state # "live" /\ device # a
Keeps(traits) == \A k \in Keys : traits[k] # 0
InMerge(m) ==
  /\ work[m].pc \in {"upsert", "tombstone", "claim"} => Merged(msg(m).anon)
  /\ work[m].pc = "join" /\ work[m].sees => Keeps(anons[msg(m).anon].traits)
  /\ work[m].pc = "join" /\ ~work[m].sees => anons[msg(m).anon].state # "live"
  /\ work[m].pc = "rejoin" => anons[msg(m).anon].state # "live"
  /\ work[m].pc = "commit" => Keeps(work[m].traits)
AnonKept(a) ==
  /\ aliases[a] # None \/ anons[a].state = "deleted" => Merged(a)
  /\ anons[a].state # "none" => Keeps(anons[a].traits)
  /\ anons[a].state = "deleted" => \E r \in Rows : Keeps(rows[r].traits)
AnonsMerged ==
  /\ \A a \in Anons : AnonKept(a)
  /\ \A c \in claims : Merged(c[1])
  /\ \A m \in DOMAIN work : InMerge(m)

(* A merge that has committed is told, or its message is still to be handled. *)
Claimed(a) == aliases[a] # None \/ \E c \in claims : c[1] = a
Tombed(a) == ch[a].state = "deleted" \/ \E u \in upserts : u.id = a
Tells(m, a) ==
  /\ msg(m).anon = a /\ ~msg(m).nul /\ Unfinished(m) /\ work[m].pc # "publish"
  /\ work[m].pc = "claim" => Tombed(a)
SomeDeleted == \E r \in Rows : rows[r].state = "deleted"
MergesTold ==
  /\ \A u \in upserts : u.id \in Anons => u.doc = Deleted
  /\ \A a \in Anons : anons[a].state = "deleted" =>
       \/ Claimed(a) /\ Tombed(a)
       \/ \E m \in DOMAIN work : Tells(m, a)
       \/ SomeDeleted

Typed == IdentifyTypeOK /\ work \in Seq(Work) /\ Coalesced
Handled == \A m \in DOMAIN work : HandlesMessage(m) /\ HasRow(m)
IInv == Typed /\ Handled /\ Whole /\ RowsTold /\ AnonsMerged /\ MergesTold
-----------------------------------------------------------------------------
(* The handler's fold.  Numbers have a least, and finitely many a greatest. *)
LEMMA Least ==
  ASSUME NEW T, T \subseteq Nat, T # {}
  PROVE  \E n \in T : \A m \in T : n <= m
<1>1. PICK n \in T : \A m \in T : <<m, n>> \notin OpToRel(<, Nat)
  BY NatLessThanWellFounded, WFMin
<1>2. \A m \in T : ~(m < n)
  BY <1>1 DEF OpToRel
<1>. QED  BY <1>2

LEMMA MaxOf ==
  ASSUME NEW S \in SUBSET Int, \E m \in S : \A y \in S : m >= y
  PROVE  Max(S) \in S /\ \A y \in S : Max(S) >= y
BY DEF Max

LEMMA MaxIs ==
  ASSUME NEW S \in SUBSET Int, NEW x \in S, \A y \in S : x >= y
  PROVE  Max(S) = x
<1>1. Max(S) \in S /\ Max(S) >= x /\ x >= Max(S)
  BY MaxOf
<1>2. Max(S) \in Int /\ x \in Int
  BY <1>1
<1>. QED  BY <1>1, <1>2

LEMMA MaxUpto ==
  ASSUME NEW n \in Nat, NEW S \in SUBSET (0 .. n), S # {}
  PROVE  Max(S) \in S /\ \A y \in S : Max(S) >= y
<1>. DEFINE Room == {n - y : y \in S}
<1>1. \A y \in S : y \in Nat /\ n - y \in Nat
  <2>1. \A y \in 0 .. n : y \in Nat /\ n - y \in Nat
    OBVIOUS
  <2>. QED  BY <2>1
<1>2. Room \subseteq Nat /\ Room # {}
  BY <1>1
<1>3. PICK l \in Room : \A m \in Room : l <= m
  <2>. HIDE DEF Room
  <2>. QED  BY <1>2, Least
<1>4. PICK x \in S : l = n - x
  BY <1>3
<1>5. ASSUME NEW y \in S PROVE x >= y
  BY <1>1, <1>3, <1>4
<1>6. S \in SUBSET Int
  BY <1>1
<1>. QED  BY <1>5, <1>6, MaxOf

(* The fold starts from nothing and takes the item of the highest index last. *)
start == [messages |-> <<>>, last |-> [u \in Users |-> 0], size |-> [u \in Users |-> 0]]
indices == [i \in DOMAIN batch |-> i]
takes(g, s) == IF s = {} THEN start ELSE fold(batch, g[s \ {Max(s)}], indices[Max(s)])
Follows(g, C) == g = [s \in C |-> takes(g, s)]

LEMMA CoalesceIs ==
  coalesce(batch) = (CHOOSE g : Follows(g, SUBSET DOMAIN indices))[DOMAIN indices].messages
BY DEF coalesce, FoldLeftDomain, FoldLeft, MapThenFoldSet, Follows, takes, start, indices

(* There is such a fold of any batch. *)
LEMMA FollowsExists ==
  ASSUME NEW n \in Nat
  PROVE  \E g : Follows(g, SUBSET (1 .. n))
<1>. DEFINE Upto(k) == {s \in SUBSET (1 .. n) : Cardinality(s) <= k}
            Bad == {k \in Nat : ~ \E g : Follows(g, Upto(k))}
<1>1. \A s \in SUBSET (1 .. n) :
        /\ Cardinality(s) \in Nat /\ Cardinality(s) <= n /\ (Cardinality(s) = 0 <=> s = {})
        /\ s # {} => Cardinality(s \ {Max(s)}) = Cardinality(s) - 1
  <2>. SUFFICES ASSUME NEW s \in SUBSET (1 .. n)
                PROVE  /\ Cardinality(s) \in Nat /\ Cardinality(s) <= n /\ (Cardinality(s) = 0 <=> s = {})
                       /\ s # {} => Cardinality(s \ {Max(s)}) = Cardinality(s) - 1
    OBVIOUS
  <2>1. IsFiniteSet(s) /\ Cardinality(s) \in Nat /\ Cardinality(s) <= n
    <3>1. IsFiniteSet(1 .. n) /\ Cardinality(1 .. n) = n
      BY FS_Interval
    <3>. QED  BY <3>1, FS_Subset, FS_CardinalityType
  <2>2. s # {} => Max(s) \in s
    <3>1. s \in SUBSET (0 .. n)
      OBVIOUS
    <3>. QED  BY <3>1, MaxUpto
  <2>. QED  BY <2>1, <2>2, FS_EmptySet, FS_RemoveElement
<1>2. \E g : Follows(g, Upto(0))
  <2>. DEFINE g == [s \in Upto(0) |-> start]
  <2>1. \A s \in Upto(0) : s = {}
    <3>. SUFFICES ASSUME NEW s \in SUBSET (1 .. n), Cardinality(s) <= 0 PROVE s = {}
      OBVIOUS
    <3>1. Cardinality(s) \in Nat /\ (Cardinality(s) = 0 <=> s = {})
      BY <1>1
    <3>. QED  BY <3>1
  <2>2. Follows(g, Upto(0))
    BY <2>1 DEF Follows, takes
  <2>. QED  BY <2>2
<1>3. ASSUME NEW k \in Nat, NEW g, Follows(g, Upto(k))
      PROVE  \E h : Follows(h, Upto(k + 1))
  <2>. DEFINE h == [s \in Upto(k + 1) |-> takes(g, s)]
  <2>1. Upto(k) \subseteq Upto(k + 1)
    <3>. SUFFICES ASSUME NEW s \in SUBSET (1 .. n), Cardinality(s) <= k PROVE Cardinality(s) <= k + 1
      OBVIOUS
    <3>1. Cardinality(s) \in Nat
      BY <1>1
    <3>. QED  BY <3>1
  <2>2. \A s \in Upto(k) : g[s] = takes(g, s)
    BY <1>3 DEF Follows
  <2>3. \A s \in Upto(k) : h[s] = g[s]
    BY <2>1, <2>2
  <2>4. \A s \in Upto(k + 1) : s # {} => s \ {Max(s)} \in Upto(k)
    <3>. SUFFICES ASSUME NEW s \in SUBSET (1 .. n), Cardinality(s) <= k + 1, s # {}
                  PROVE  s \ {Max(s)} \in SUBSET (1 .. n) /\ Cardinality(s \ {Max(s)}) <= k
      OBVIOUS
    <3>1. Cardinality(s) \in Nat /\ Cardinality(s \ {Max(s)}) = Cardinality(s) - 1
      BY <1>1
    <3>2. Cardinality(s \ {Max(s)}) <= k
      BY <3>1
    <3>3. s \ {Max(s)} \in SUBSET (1 .. n)
      OBVIOUS
    <3>. QED  BY <3>2, <3>3
  <2>5. \A s \in Upto(k + 1) : takes(h, s) = takes(g, s)
    <3>. HIDE DEF h, Upto
    <3>. QED  BY <2>3, <2>4 DEF takes
  <2>6. h = [s \in Upto(k + 1) |-> takes(h, s)]
    <3>. HIDE DEF Upto
    <3>1. h = [s \in Upto(k + 1) |-> takes(g, s)]
      OBVIOUS
    <3>. HIDE DEF h
    <3>. QED  BY <2>5, <3>1
  <2>. QED  BY <2>6 DEF Follows
<1>4. Bad = {}
  <2>1. SUFFICES ASSUME Bad # {} PROVE FALSE
    OBVIOUS
  <2>2. Bad \subseteq Nat
    OBVIOUS
  <2>. HIDE DEF Bad
  <2>3. PICK k \in Bad : \A m \in Bad : k <= m
    BY <2>1, <2>2, Least
  <2>. USE DEF Bad
  <2>. HIDE DEF Upto
  <2>4. k # 0
    BY <1>2
  <2>5. k - 1 \in Nat /\ k - 1 \notin Bad /\ (k - 1) + 1 = k
    BY <2>2, <2>3, <2>4
  <2>6. \E h : Follows(h, Upto((k - 1) + 1))
    BY <1>3, <2>5
  <2>. QED  BY <2>3, <2>5, <2>6
<1>5. Upto(n) = SUBSET (1 .. n)
  BY <1>1
<1>. HIDE DEF Upto
<1>6. \E g : Follows(g, Upto(n))
  BY <1>4
<1>. QED  BY <1>5, <1>6

(* So the handler takes one item after another. *)
LEMMA CoalesceFolds ==
  ASSUME batch \in Seq(Item)
  PROVE  \E f : /\ f[0] = start
                /\ \A i \in 1 .. Len(batch) : f[i] = fold(batch, f[i - 1], i)
                /\ coalesce(batch) = f[Len(batch)].messages
<1>. DEFINE n == Len(batch)
            g == CHOOSE h : Follows(h, SUBSET (1 .. n))
            f == [i \in 0 .. n |-> g[1 .. i]]
<1>1. DOMAIN indices = 1 .. n /\ n \in Nat /\ \A i \in 1 .. n : indices[i] = i
  BY DEF indices
<1>2. Follows(g, SUBSET (1 .. n)) /\ coalesce(batch) = g[1 .. n].messages
  BY <1>1, CoalesceIs, FollowsExists
<1>. HIDE DEF g, n
<1>3. \A s \in SUBSET (1 .. n) : g[s] = takes(g, s)
  BY <1>2 DEF Follows
<1>4. g[{}] = start
  BY <1>3 DEF takes
<1>5. ASSUME NEW i \in 1 .. n PROVE g[1 .. i] = fold(batch, g[1 .. (i - 1)], i)
  <2>1. Max(1 .. i) = i
    <3>1. 1 .. i \in SUBSET Int /\ i \in 1 .. i /\ \A y \in 1 .. i : i >= y
      BY <1>1
    <3>. QED  BY <3>1, MaxIs
  <2>2. i \in Nat /\ i \in 1 .. i /\ 1 .. i \subseteq 1 .. n
    BY <1>1
  <2>3. (1 .. i) \ {i} = 1 .. (i - 1)
    <3>1. \A y : y \in (1 .. i) \ {i} <=> y \in 1 .. (i - 1)
      BY <2>2
    <3>. QED  BY <3>1
  <2>. QED  BY <1>1, <1>3, <2>1, <2>2, <2>3 DEF takes
<1>6. /\ 1 .. 0 = {} /\ f[0] = g[1 .. 0] /\ f[n] = g[1 .. n]
      /\ \A i \in 1 .. n : f[i] = g[1 .. i] /\ f[i - 1] = g[1 .. (i - 1)]
  <2>1. \A i \in 0 .. n : f[i] = g[1 .. i]
    OBVIOUS
  <2>2. 0 \in 0 .. n /\ n \in 0 .. n /\ \A i \in 1 .. n : i \in 0 .. n /\ i - 1 \in 0 .. n
    <3>1. n \in Nat
      BY <1>1
    <3>. QED  BY <3>1
  <2>3. 1 .. 0 = {}
    OBVIOUS
  <2>. HIDE DEF f
  <2>. QED  BY <2>1, <2>2, <2>3
<1>. HIDE DEF f
<1>7. f[0] = start /\ (\A i \in 1 .. n : f[i] = fold(batch, f[i - 1], i)) /\ coalesce(batch) = f[n].messages
  BY <1>2, <1>4, <1>5, <1>6
<1>. QED  BY <1>7 DEF n

(* What the fold has made of the first n items: each user's messages, and the one
   that takes the next item.                                                      *)
Acc == [messages : Seq(Message), last : [Users -> Nat], size : [Users -> Nat]]
madeFor(acc, u) == {i \in DOMAIN acc.messages : acc.messages[i].user = u /\ ~acc.messages[i].nul}
set(acc, i, k) == acc.messages[i].traits[k]

LastIsLast(n, acc, u) ==
  /\ acc.last[u] = 0 <=> \A v \in itemsOf(u) : v > n
  /\ acc.last[u] # 0 => acc.last[u] \in madeFor(acc, u)
  /\ \A i \in madeFor(acc, u) : i <= acc.last[u]
SetsItems(n, acc, u) == \A i \in madeFor(acc, u), k \in Keys : set(acc, i, k) # 0 =>
  set(acc, i, k) \in itemsOf(u) /\ set(acc, i, k) <= n /\ k \in batch[set(acc, i, k)].keys
SetsAll(n, acc, u) == \A v \in itemsOf(u), k \in Keys : v <= n /\ k \in batch[v].keys =>
  \E i \in madeFor(acc, u) : v <= set(acc, i, k)
Ascends(acc, u) == \A i, j \in madeFor(acc, u), k \in Keys :
  i < j /\ set(acc, j, k) # 0 => set(acc, i, k) < set(acc, j, k)
MadeOne(n, acc, u) ==
  u \in Foldable => madeFor(acc, u) \subseteq {acc.last[u]} /\ acc.size[u] = Cardinality(traitsOf(u, n))

FoldedFor(n, acc, u) ==
  LastIsLast(n, acc, u) /\ SetsItems(n, acc, u) /\ SetsAll(n, acc, u) /\ Ascends(acc, u) /\ MadeOne(n, acc, u)
Folded(n, acc) == acc \in Acc /\ \A u \in Users : FoldedFor(n, acc, u)

(* The traits a user's first items set are finitely many, and grow by the next item's. *)
LEMMA TraitsGrow ==
  ASSUME batch \in Seq(Item), NEW u \in Users, NEW i \in 1 .. Len(batch)
  PROVE  /\ i \notin itemsOf(u) => traitsOf(u, i) = traitsOf(u, i - 1)
         /\ i \in itemsOf(u) =>
              Cardinality(traitsOf(u, i)) = Cardinality(traitsOf(u, i - 1)) + size(batch[i])
         /\ Cardinality(traitsOf(u, i)) \in Nat /\ Cardinality(traitsOf(u, i - 1)) \in Nat
         /\ size(batch[i]) \in Nat
         /\ Cardinality(traitsOf(u, i)) <= Cardinality(traitsOf(u, Len(batch)))
<1>. DEFINE new == {i} \X batch[i].keys
<1>1. \A n \in 0 .. Len(batch) : IsFiniteSet(traitsOf(u, n)) /\ Cardinality(traitsOf(u, n)) \in Nat
  <2>. SUFFICES ASSUME NEW n \in 0 .. Len(batch)
                PROVE  IsFiniteSet(traitsOf(u, n)) /\ Cardinality(traitsOf(u, n)) \in Nat
    OBVIOUS
  <2>1. IsFiniteSet(1 .. n) /\ IsFiniteSet(Keys)
    BY FS_Interval, IdentifyAssumption
  <2>2. IsFiniteSet((1 .. n) \X Keys)
    BY <2>1, FS_Product
  <2>3. traitsOf(u, n) \subseteq (1 .. n) \X Keys
    BY DEF traitsOf
  <2>. QED  BY <2>2, <2>3, FS_Subset, FS_CardinalityType
<1>2. batch[i].keys \subseteq Keys
  <2>1. batch[i] \in Item
    OBVIOUS
  <2>. QED  BY <2>1 DEF Item
<1>3. i \in Nat /\ i - 1 \in 0 .. Len(batch) /\ i \in 0 .. Len(batch) /\ Len(batch) \in 0 .. Len(batch)
  OBVIOUS
<1>4. size(batch[i]) = Cardinality(batch[i].keys) /\ size(batch[i]) \in Nat /\ IsFiniteSet(batch[i].keys)
  BY <1>2, IdentifyAssumption, FS_Subset, FS_CardinalityType DEF size
<1>5. IsFiniteSet(new) /\ Cardinality(new) = size(batch[i])
  <2>1. IsFiniteSet({i}) /\ Cardinality({i}) = 1
    BY FS_Singleton
  <2>2. IsFiniteSet(new) /\ Cardinality(new) = 1 * Cardinality(batch[i].keys)
    BY <1>4, <2>1, FS_Product
  <2>. QED  BY <1>4, <2>2
<1>6. \A n \in 1 .. Len(batch) : n \in 1 .. i <=> n \in 1 .. (i - 1) \/ n = i
  BY <1>3
<1>7. i \notin itemsOf(u) => traitsOf(u, i) = traitsOf(u, i - 1)
  <2>1. 1 .. i = (1 .. (i - 1)) \cup {i}
    BY <1>3
  <2>. QED  BY <2>1 DEF traitsOf
<1>8. i \in itemsOf(u) =>
        traitsOf(u, i) = traitsOf(u, i - 1) \cup new /\ traitsOf(u, i - 1) \cap new = {}
  <2>1. 1 .. i = (1 .. (i - 1)) \cup {i} /\ i \notin 1 .. (i - 1)
    BY <1>3
  <2>. HIDE DEF itemsOf
  <2>. QED  BY <1>2, <2>1 DEF traitsOf
<1>9. i \in itemsOf(u) => Cardinality(traitsOf(u, i)) = Cardinality(traitsOf(u, i - 1)) + size(batch[i])
  <2>. HIDE DEF new
  <2>. SUFFICES ASSUME i \in itemsOf(u)
                PROVE  Cardinality(traitsOf(u, i)) = Cardinality(traitsOf(u, i - 1)) + size(batch[i])
    OBVIOUS
  <2>1. Cardinality(traitsOf(u, i - 1) \cup new)
          = Cardinality(traitsOf(u, i - 1)) + Cardinality(new) - Cardinality(traitsOf(u, i - 1) \cap new)
    BY <1>1, <1>3, <1>5, FS_Union
  <2>2. Cardinality(traitsOf(u, i - 1) \cap new) = 0
    BY <1>8, FS_EmptySet
  <2>3. Cardinality(traitsOf(u, i - 1)) \in Nat /\ Cardinality(new) = size(batch[i])
    BY <1>1, <1>3, <1>5
  <2>4. Cardinality(traitsOf(u, i)) = Cardinality(traitsOf(u, i - 1) \cup new)
    BY <1>8
  <2>. QED  BY <1>4, <2>1, <2>2, <2>3, <2>4
<1>10. Cardinality(traitsOf(u, i)) <= Cardinality(traitsOf(u, Len(batch)))
  <2>1. traitsOf(u, i) \subseteq traitsOf(u, Len(batch))
    BY DEF traitsOf
  <2>. QED  BY <1>1, <1>3, <2>1, FS_Subset
<1>. QED  BY <1>1, <1>3, <1>4, <1>7, <1>9, <1>10

(* An item does nothing to the messages of other users. *)
LEMMA OthersKeep ==
  ASSUME batch \in Seq(Item), NEW u \in Users, NEW i \in 1 .. Len(batch), i \notin itemsOf(u),
         NEW acc \in Acc, NEW new \in Acc, FoldedFor(i - 1, acc, u),
         madeFor(new, u) = madeFor(acc, u),
         \A j \in madeFor(acc, u) : new.messages[j].traits = acc.messages[j].traits,
         new.last[u] = acc.last[u], new.size[u] = acc.size[u]
  PROVE  FoldedFor(i, new, u)
<1>1. \A v \in itemsOf(u) : v \in Nat /\ (v > i <=> v > i - 1) /\ (v <= i <=> v <= i - 1)
  BY DEF itemsOf
<1>2. LastIsLast(i, new, u)
  BY <1>1 DEF FoldedFor, LastIsLast
<1>3. SetsItems(i, new, u) /\ SetsAll(i, new, u) /\ Ascends(new, u)
  <2>1. \A j \in madeFor(acc, u), k \in Keys : set(new, j, k) = set(acc, j, k)
    BY DEF set
  <2>2. SetsItems(i, new, u)
    BY <1>1, <2>1 DEF FoldedFor, SetsItems
  <2>3. SetsAll(i, new, u)
    BY <1>1, <2>1 DEF FoldedFor, SetsAll
  <2>4. Ascends(new, u)
    BY <2>1 DEF FoldedFor, Ascends
  <2>. QED  BY <2>2, <2>3, <2>4
<1>4. MadeOne(i, new, u)
  BY TraitsGrow DEF FoldedFor, MadeOne
<1>. QED  BY <1>2, <1>3, <1>4 DEF FoldedFor

(* The message an item makes. *)
LEMMA MessageMade ==
  ASSUME batch \in Seq(Item), NEW i \in 1 .. Len(batch)
  PROVE  /\ batch[i] \in Item /\ asMessage(i, batch[i]) \in Message
         /\ asMessage(i, batch[i]).user = batch[i].user /\ asMessage(i, batch[i]).nul = batch[i].nul
         /\ \A k \in Keys : asMessage(i, batch[i]).traits[k] = IF k \in batch[i].keys THEN i ELSE 0
<1>1. batch[i] \in Item
  OBVIOUS
<1>2. [k \in Keys |-> IF k \in batch[i].keys THEN i ELSE 0] \in [Keys -> 0 .. Len(batch)]
  OBVIOUS
<1>. QED  BY <1>1, <1>2 DEF asMessage, Item, Message

(* An item with a NUL is a message of its own, which is never handled. *)
LEMMA NulStep ==
  ASSUME batch \in Seq(Item), NEW i \in 1 .. Len(batch), NEW acc, Folded(i - 1, acc), batch[i].nul
  PROVE  Folded(i, fold(batch, acc, i))
<1>. DEFINE m == asMessage(i, batch[i])
            new == fold(batch, acc, i)
<1>1. acc \in Acc /\ m \in Message /\ m.nul
  BY MessageMade DEF Folded
<1>2. new = [acc EXCEPT !.messages = Append(@, m)]
  BY DEF fold
<1>. HIDE DEF m, new
<1>3. /\ new \in Acc /\ new.last = acc.last /\ new.size = acc.size
      /\ new.messages = Append(acc.messages, m)
  <2>1. Append(acc.messages, m) \in Seq(Message)
    BY <1>1 DEF Acc
  <2>. HIDE DEF Message
  <2>. QED  BY <1>1, <1>2, <2>1 DEF Acc
<1>4. /\ DOMAIN new.messages = DOMAIN acc.messages \cup {Len(acc.messages) + 1}
      /\ new.messages[Len(acc.messages) + 1] = m
      /\ \A j \in DOMAIN acc.messages : new.messages[j] = acc.messages[j]
  BY <1>1, <1>3 DEF Acc
<1>5. ASSUME NEW u \in Users PROVE FoldedFor(i, new, u)
  <2>1. i \notin itemsOf(u)
    BY DEF itemsOf
  <2>2. madeFor(new, u) = madeFor(acc, u)
    BY <1>1, <1>4 DEF madeFor
  <2>3. \A j \in madeFor(acc, u) : new.messages[j].traits = acc.messages[j].traits
    BY <1>4 DEF madeFor
  <2>4. FoldedFor(i - 1, acc, u)
    BY DEF Folded
  <2>. QED  BY <1>1, <1>3, <2>1, <2>2, <2>3, <2>4, OthersKeep
<1>. QED  BY <1>3, <1>5 DEF Folded, new

(* What is so of any item that is not a NUL: the values before it are lower. *)
LEMMA ItemIsNext ==
  ASSUME batch \in Seq(Item), NEW i \in 1 .. Len(batch), NEW acc, Folded(i - 1, acc), ~batch[i].nul
  PROVE  /\ batch[i].user \in Users /\ i \in itemsOf(batch[i].user)
         /\ \A u \in Users : u # batch[i].user => i \notin itemsOf(u)
         /\ \A v \in itemsOf(batch[i].user) : v \in Nat /\ (v <= i <=> v <= i - 1 \/ v = i) /\ (v > i - 1 <=> v > i \/ v = i)
         /\ \A j \in madeFor(acc, batch[i].user), k \in Keys :
              set(acc, j, k) \in 0 .. Len(batch) /\ set(acc, j, k) < i
         /\ \A u \in Users : acc.last[u] \in Nat /\ acc.size[u] \in Nat
         /\ \A u \in Users : \A j \in madeFor(acc, u) : j \in Nat /\ 1 <= j
<1>. DEFINE w == batch[i].user
<1>1. batch[i] \in Item /\ w \in Users /\ i \in Nat /\ 1 <= i
  BY MessageMade DEF Item
<1>2. i \in itemsOf(w) /\ \A u \in Users : u # w => i \notin itemsOf(u)
  BY DEF itemsOf
<1>3. \A v \in itemsOf(w) : v \in Nat /\ (v <= i <=> v <= i - 1 \/ v = i) /\ (v > i - 1 <=> v > i \/ v = i)
  BY <1>1 DEF itemsOf
<1>4. \A u \in Users : \A j \in madeFor(acc, u) :
        j \in Nat /\ 1 <= j /\ \A k \in Keys : set(acc, j, k) \in 0 .. Len(batch)
  <2>1. acc.messages \in Seq(Message)
    BY DEF Folded, Acc
  <2>2. ASSUME NEW u \in Users, NEW j \in madeFor(acc, u)
        PROVE  j \in Nat /\ 1 <= j /\ acc.messages[j] \in Message
    BY <2>1 DEF madeFor
  <2>. QED  BY <2>2 DEF set, Message
<1>5. ASSUME NEW j \in madeFor(acc, w), NEW k \in Keys PROVE set(acc, j, k) < i
  <2>1. set(acc, j, k) # 0 => set(acc, j, k) <= i - 1
    BY <1>1 DEF Folded, FoldedFor, SetsItems
  <2>. QED  BY <1>1, <1>4, <2>1
<1>6. \A u \in Users : acc.last[u] \in Nat /\ acc.size[u] \in Nat
  BY DEF Folded, Acc
<1>. QED  BY <1>1, <1>2, <1>3, <1>4, <1>5, <1>6

(* An item that only sets traits joins its user's latest message while they fit. *)
Joins(acc, i) ==
  /\ acc.last[batch[i].user] # 0 /\ onlySetsTraits(batch[i])
  /\ acc.size[batch[i].user] + size(batch[i]) <= MaxBytes

LEMMA JoinStep ==
  ASSUME batch \in Seq(Item), NEW i \in 1 .. Len(batch), NEW acc, Folded(i - 1, acc), ~batch[i].nul,
         Joins(acc, i)
  PROVE  Folded(i, fold(batch, acc, i))
<1>. DEFINE w == batch[i].user
            L == acc.last[w]
            m == asMessage(i, batch[i])
            joined == over(m.traits, acc.messages[L].traits)
            new == fold(batch, acc, i)
<1>1. acc \in Acc /\ w \in Users /\ L \in madeFor(acc, w) /\ L \in DOMAIN acc.messages
  BY ItemIsNext DEF Folded, FoldedFor, LastIsLast, Joins, madeFor
<1>2. new = [acc EXCEPT !.messages[L].traits = joined, !.size[w] = @ + size(batch[i])]
  BY DEF fold, Joins
<1>3. /\ joined \in [Keys -> 0 .. Len(batch)]
      /\ \A k \in Keys : joined[k] = IF k \in batch[i].keys THEN i ELSE set(acc, L, k)
  <2>1. acc.messages[L] \in Message /\ m \in Message
    BY <1>1, MessageMade DEF Acc
  <2>2. acc.messages[L].traits \in [Keys -> 0 .. Len(batch)] /\ m.traits \in [Keys -> 0 .. Len(batch)]
    BY <2>1 DEF Message
  <2>3. \A k \in Keys : m.traits[k] = IF k \in batch[i].keys THEN i ELSE 0
    BY MessageMade
  <2>. DEFINE old == acc.messages[L].traits
  <2>. HIDE DEF m, old
  <2>4. joined \in [Keys -> 0 .. Len(batch)]
    BY <2>2 DEF over, old
  <2>5. \A k \in Keys : joined[k] = IF k \in batch[i].keys THEN i ELSE old[k]
    BY <2>3 DEF over, old
  <2>. QED  BY <2>4, <2>5 DEF set, old
<1>. HIDE DEF new, joined, m
<1>4. size(batch[i]) \in Nat
  BY <1>1, TraitsGrow
<1>5. /\ new.messages = [acc.messages EXCEPT ![L].traits = joined]
      /\ new.last = acc.last /\ new.size = [acc.size EXCEPT ![w] = @ + size(batch[i])]
      /\ new = [messages |-> new.messages, last |-> new.last, size |-> new.size]
  BY <1>1, <1>2 DEF Acc
<1>6. new \in Acc
  <2>1. [acc.messages EXCEPT ![L].traits = joined] \in Seq(Message)
    <3>1. acc.messages \in Seq(Message) /\ acc.messages[L] \in Message
      BY <1>1 DEF Acc
    <3>2. [acc.messages[L] EXCEPT !.traits = joined] \in Message
      BY <1>3, <3>1 DEF Message
    <3>3. [acc.messages EXCEPT ![L].traits = joined]
             = [acc.messages EXCEPT ![L] = [acc.messages[L] EXCEPT !.traits = joined]]
      BY <1>1, <3>1
    <3>. HIDE DEF Message
    <3>. QED  BY <1>1, <3>1, <3>2, <3>3
  <2>2. acc.last \in [Users -> Nat] /\ acc.size \in [Users -> Nat]
    BY <1>1 DEF Acc
  <2>3. [acc.size EXCEPT ![w] = @ + size(batch[i])] \in [Users -> Nat]
    <3>. HIDE DEF w
    <3>. QED  BY <1>1, <1>4, <2>2
  <2>4. new.messages \in Seq(Message) /\ new.last \in [Users -> Nat] /\ new.size \in [Users -> Nat]
    BY <1>5, <2>1, <2>2, <2>3
  <2>. HIDE DEF Message
  <2>. QED  BY <1>5, <2>4 DEF Acc
<1>7. /\ DOMAIN new.messages = DOMAIN acc.messages
      /\ \A j \in DOMAIN acc.messages :
           /\ new.messages[j].user = acc.messages[j].user /\ new.messages[j].nul = acc.messages[j].nul
           /\ new.messages[j].traits = IF j = L THEN joined ELSE acc.messages[j].traits
  <2>1. acc.messages \in Seq(Message) /\ \A j \in DOMAIN acc.messages : acc.messages[j] \in Message
    BY <1>1 DEF Acc
  <2>2. DOMAIN new.messages = DOMAIN acc.messages
    BY <1>5, <2>1
  <2>. HIDE DEF L
  <2>3. \A j \in DOMAIN acc.messages :
          new.messages[j] = IF j = L THEN [acc.messages[L] EXCEPT !.traits = joined] ELSE acc.messages[j]
    BY <1>1, <1>5, <2>1
  <2>. QED  BY <1>1, <2>1, <2>2, <2>3 DEF Message
<1>8. \A u \in Users : madeFor(new, u) = madeFor(acc, u)
  BY <1>7 DEF madeFor
<1>9. ASSUME NEW u \in Users, u # w PROVE FoldedFor(i, new, u)
  <2>1. FoldedFor(i - 1, acc, u) /\ i \notin itemsOf(u)
    BY <1>9, ItemIsNext DEF Folded
  <2>2. new.last[u] = acc.last[u] /\ new.size[u] = acc.size[u]
    BY <1>1, <1>5, <1>9 DEF Acc
  <2>3. L \notin madeFor(acc, u)
    BY <1>1, <1>9 DEF madeFor
  <2>4. \A j \in madeFor(acc, u) : new.messages[j].traits = acc.messages[j].traits
    BY <1>7, <2>3 DEF madeFor
  <2>. QED  BY <1>1, <1>6, <1>8, <2>1, <2>2, <2>4, OthersKeep
<1>10. FoldedFor(i, new, w)
  <2>1. FoldedFor(i - 1, acc, w)
    BY <1>1 DEF Folded
  <2>2. \A j \in madeFor(acc, w), k \in Keys :
          set(new, j, k) = IF j # L THEN set(acc, j, k) ELSE IF k \in batch[i].keys THEN i ELSE set(acc, L, k)
    BY <1>3, <1>7 DEF set, madeFor
  <2>3. /\ i \in itemsOf(w)
        /\ \A v \in itemsOf(w) : v \in Nat /\ (v <= i <=> v <= i - 1 \/ v = i) /\ (v > i - 1 <=> v > i \/ v = i)
        /\ \A j \in madeFor(acc, w), k \in Keys : set(acc, j, k) \in 0 .. Len(batch) /\ set(acc, j, k) < i
        /\ \A j \in madeFor(acc, w) : j \in Nat
    BY <1>1, ItemIsNext
  <2>4. new.last[w] = L /\ new.size[w] = acc.size[w] + size(batch[i]) /\ L # 0
    BY <1>1, <1>5 DEF Acc, Joins
  <2>5. LastIsLast(i, new, w)
    <3>1. \E v \in itemsOf(w) : ~(v > i)
      BY <2>1, <2>3, <2>4 DEF FoldedFor, LastIsLast
    <3>. QED  BY <1>1, <1>8, <2>1, <2>3, <2>4, <3>1 DEF FoldedFor, LastIsLast
  <2>6. SetsItems(i, new, w)
    <3>. SUFFICES ASSUME NEW j \in madeFor(acc, w), NEW k \in Keys, set(new, j, k) # 0
                  PROVE  /\ set(new, j, k) \in itemsOf(w) /\ set(new, j, k) <= i
                         /\ k \in batch[set(new, j, k)].keys
      BY <1>1, <1>8 DEF SetsItems
    <3>1. CASE set(new, j, k) = set(acc, j, k)
      BY <2>1, <2>3, <3>1 DEF FoldedFor, SetsItems
    <3>2. CASE k \in batch[i].keys /\ set(new, j, k) = i
      BY <2>3, <3>2
    <3>. QED  BY <2>2, <3>1, <3>2
  <2>7. SetsAll(i, new, w)
    <3>. SUFFICES ASSUME NEW v \in itemsOf(w), NEW k \in Keys, v <= i, k \in batch[v].keys
                  PROVE  \E j \in madeFor(acc, w) : v <= set(new, j, k)
      BY <1>1, <1>8 DEF SetsAll
    <3>1. CASE v = i
      BY <1>1, <2>2, <2>3, <3>1
    <3>2. CASE v # i
      <4>1. PICK j \in madeFor(acc, w) : v <= set(acc, j, k)
        BY <2>1, <2>3, <3>2 DEF FoldedFor, SetsAll
      <4>. QED  BY <2>2, <2>3, <4>1
    <3>. QED  BY <3>1, <3>2
  <2>8. Ascends(new, w)
    <3>. SUFFICES ASSUME NEW j \in madeFor(acc, w), NEW l \in madeFor(acc, w), NEW k \in Keys,
                         j < l, set(new, l, k) # 0
                  PROVE  set(new, j, k) < set(new, l, k)
      BY <1>1, <1>8 DEF Ascends
    <3>1. l <= L /\ j # L /\ set(new, j, k) = set(acc, j, k)
      BY <1>1, <2>1, <2>2, <2>3 DEF FoldedFor, LastIsLast
    <3>2. CASE set(new, l, k) = set(acc, l, k)
      BY <2>1, <3>1, <3>2 DEF FoldedFor, Ascends
    <3>3. CASE set(new, l, k) = i
      BY <2>3, <3>1, <3>3
    <3>. QED  BY <2>2, <3>2, <3>3
  <2>9. MadeOne(i, new, w)
    BY <1>1, <1>8, <2>1, <2>3, <2>4, TraitsGrow DEF FoldedFor, MadeOne
  <2>. QED  BY <2>5, <2>6, <2>7, <2>8, <2>9 DEF FoldedFor
<1>. QED  BY <1>6, <1>9, <1>10 DEF Folded, new

(* Any other starts a message of its own, from which later ones go on. *)
LEMMA StartStep ==
  ASSUME batch \in Seq(Item), NEW i \in 1 .. Len(batch), NEW acc, Folded(i - 1, acc), ~batch[i].nul,
         ~Joins(acc, i)
  PROVE  Folded(i, fold(batch, acc, i))
<1>. DEFINE w == batch[i].user
            L == Len(acc.messages) + 1
            m == asMessage(i, batch[i])
            new == fold(batch, acc, i)
<1>1. /\ acc \in Acc /\ acc.messages \in Seq(Message) /\ w \in Users
      /\ m \in Message /\ m.user = w /\ ~m.nul /\ \A k \in Keys : m.traits[k] = IF k \in batch[i].keys THEN i ELSE 0
  BY ItemIsNext, MessageMade DEF Folded, Acc
<1>2. new = [acc EXCEPT !.messages = Append(@, m), !.last[w] = L, !.size[w] = size(batch[i])]
  BY DEF fold, Joins
<1>. HIDE DEF new, m
<1>3. size(batch[i]) \in Nat /\ L \in Nat /\ L # 0
  BY <1>1, TraitsGrow
<1>4. /\ new.messages = Append(acc.messages, m)
      /\ new.last = [acc.last EXCEPT ![w] = L] /\ new.size = [acc.size EXCEPT ![w] = size(batch[i])]
      /\ new = [messages |-> new.messages, last |-> new.last, size |-> new.size]
  BY <1>1, <1>2 DEF Acc
<1>5. new \in Acc
  <2>1. Append(acc.messages, m) \in Seq(Message)
    <3>. HIDE DEF Message
    <3>. QED  BY <1>1
  <2>2. acc.last \in [Users -> Nat] /\ acc.size \in [Users -> Nat]
    BY <1>1 DEF Acc
  <2>3. [acc.last EXCEPT ![w] = L] \in [Users -> Nat] /\ [acc.size EXCEPT ![w] = size(batch[i])] \in [Users -> Nat]
    <3>. HIDE DEF w, L
    <3>. QED  BY <1>1, <1>3, <2>2
  <2>4. new.messages \in Seq(Message) /\ new.last \in [Users -> Nat] /\ new.size \in [Users -> Nat]
    BY <1>4, <2>1, <2>3
  <2>. HIDE DEF Message
  <2>. QED  BY <1>4, <2>4 DEF Acc
<1>6. /\ DOMAIN new.messages = DOMAIN acc.messages \cup {L} /\ L \notin DOMAIN acc.messages
      /\ new.messages[L] = m /\ \A j \in DOMAIN acc.messages : new.messages[j] = acc.messages[j]
  BY <1>1, <1>4
<1>7. \A u \in Users : madeFor(new, u) = madeFor(acc, u) \cup (IF u = w THEN {L} ELSE {})
  BY <1>1, <1>6 DEF madeFor
<1>. HIDE DEF L
<1>8. ASSUME NEW u \in Users, u # w PROVE FoldedFor(i, new, u)
  <2>1. FoldedFor(i - 1, acc, u) /\ i \notin itemsOf(u)
    BY <1>8, ItemIsNext DEF Folded
  <2>2. new.last[u] = acc.last[u] /\ new.size[u] = acc.size[u]
    BY <1>1, <1>4, <1>8 DEF Acc
  <2>3. madeFor(new, u) = madeFor(acc, u)
    BY <1>7, <1>8
  <2>4. \A j \in madeFor(acc, u) : new.messages[j].traits = acc.messages[j].traits
    BY <1>6 DEF madeFor
  <2>. QED  BY <1>1, <1>5, <2>1, <2>2, <2>3, <2>4, OthersKeep
<1>9. FoldedFor(i, new, w)
  <2>1. FoldedFor(i - 1, acc, w)
    BY <1>1 DEF Folded
  <2>2. /\ \A j \in madeFor(acc, w), k \in Keys : set(new, j, k) = set(acc, j, k)
        /\ \A k \in Keys : set(new, L, k) = IF k \in batch[i].keys THEN i ELSE 0
    BY <1>1, <1>6 DEF set, madeFor
  <2>3. /\ i \in itemsOf(w)
        /\ \A v \in itemsOf(w) : v \in Nat /\ (v <= i <=> v <= i - 1 \/ v = i) /\ (v > i - 1 <=> v > i \/ v = i)
        /\ \A j \in madeFor(acc, w), k \in Keys : set(acc, j, k) \in 0 .. Len(batch) /\ set(acc, j, k) < i
        /\ \A j \in madeFor(acc, w) : j \in Nat /\ 1 <= j
        /\ acc.last[w] \in Nat /\ acc.size[w] \in Nat
    BY <1>1, ItemIsNext
  <2>4. new.last[w] = L /\ new.size[w] = size(batch[i])
    BY <1>1, <1>4 DEF Acc
  <2>5. madeFor(new, w) = madeFor(acc, w) \cup {L} /\ \A j \in madeFor(acc, w) : j < L
    <3>1. \A j \in DOMAIN acc.messages : j < L
      BY <1>1 DEF L
    <3>. QED  BY <1>1, <1>7, <3>1 DEF madeFor
  <2>6. LastIsLast(i, new, w)
    <3>1. \E v \in itemsOf(w) : ~(v > i)
      BY <2>3
    <3>. QED  BY <1>3, <2>3, <2>4, <2>5, <3>1 DEF LastIsLast
  <2>7. SetsItems(i, new, w)
    <3>. SUFFICES ASSUME NEW j \in madeFor(acc, w) \cup {L}, NEW k \in Keys, set(new, j, k) # 0
                  PROVE  /\ set(new, j, k) \in itemsOf(w) /\ set(new, j, k) <= i
                         /\ k \in batch[set(new, j, k)].keys
      BY <2>5 DEF SetsItems
    <3>1. CASE j \in madeFor(acc, w)
      BY <2>1, <2>2, <2>3, <3>1 DEF FoldedFor, SetsItems
    <3>2. CASE j = L
      BY <2>2, <2>3, <3>2
    <3>. QED  BY <3>1, <3>2
  <2>8. SetsAll(i, new, w)
    <3>. SUFFICES ASSUME NEW v \in itemsOf(w), NEW k \in Keys, v <= i, k \in batch[v].keys
                  PROVE  \E j \in madeFor(new, w) : v <= set(new, j, k)
      BY DEF SetsAll
    <3>1. CASE v = i
      BY <2>2, <2>3, <2>5, <3>1
    <3>2. CASE v # i
      <4>1. PICK j \in madeFor(acc, w) : v <= set(acc, j, k)
        BY <2>1, <2>3, <3>2 DEF FoldedFor, SetsAll
      <4>. QED  BY <2>2, <2>5, <4>1
    <3>. QED  BY <3>1, <3>2
  <2>9. Ascends(new, w)
    <3>. SUFFICES ASSUME NEW j \in madeFor(new, w), NEW l \in madeFor(new, w), NEW k \in Keys,
                         j < l, set(new, l, k) # 0
                  PROVE  set(new, j, k) < set(new, l, k)
      BY DEF Ascends
    <3>1. j \in madeFor(acc, w)
      BY <1>3, <2>3, <2>5
    <3>2. CASE l \in madeFor(acc, w)
      BY <2>1, <2>2, <3>1, <3>2 DEF FoldedFor, Ascends
    <3>3. CASE l = L
      BY <2>2, <2>3, <3>1, <3>3
    <3>. QED  BY <2>5, <3>2, <3>3
  <2>10. MadeOne(i, new, w)
    <3>. SUFFICES ASSUME w \in Foldable
                  PROVE  madeFor(new, w) \subseteq {L} /\ size(batch[i]) = Cardinality(traitsOf(w, i))
      BY <2>4 DEF MadeOne
    <3>1. acc.last[w] = 0
      <4>. SUFFICES ASSUME acc.last[w] # 0 PROVE Joins(acc, i)
        OBVIOUS
      <4>1. PICK v \in itemsOf(w) : ~(v > i - 1)
        BY <2>1 DEF FoldedFor, LastIsLast
      <4>2. v < i
        BY <2>3, <4>1
      <4>3. onlySetsTraits(batch[i])
        BY <2>3, <4>2 DEF Foldable
      <4>4. Cardinality(traitsOf(w, Len(batch))) <= MaxBytes /\ MaxBytes \in Nat
        BY IdentifyAssumption DEF Foldable
      <4>5. acc.size[w] + size(batch[i]) = Cardinality(traitsOf(w, i))
        BY <1>1, <2>1, <2>3, TraitsGrow DEF FoldedFor, MadeOne
      <4>6. /\ Cardinality(traitsOf(w, i)) \in Nat
            /\ Cardinality(traitsOf(w, i)) <= Cardinality(traitsOf(w, Len(batch)))
        BY <1>1, TraitsGrow
      <4>7. Cardinality(traitsOf(w, Len(batch))) \in Nat
        <5>1. Len(batch) \in 1 .. Len(batch)
          OBVIOUS
        <5>. QED  BY <1>1, <5>1, TraitsGrow
      <4>8. acc.size[w] + size(batch[i]) <= MaxBytes
        BY <4>4, <4>5, <4>6, <4>7
      <4>. QED  BY <4>3, <4>8 DEF Joins
    <3>2. madeFor(acc, w) = {}
      BY <2>1, <2>3, <3>1 DEF FoldedFor, LastIsLast
    <3>3. traitsOf(w, i - 1) = {}
      <4>1. \A v \in itemsOf(w) : v \notin 1 .. (i - 1)
        BY <2>1, <2>3, <3>1 DEF FoldedFor, LastIsLast
      <4>. QED  BY <4>1 DEF traitsOf
    <3>4. Cardinality(traitsOf(w, i)) = 0 + size(batch[i])
      BY <1>1, <2>3, <3>3, TraitsGrow, FS_EmptySet
    <3>. QED  BY <1>3, <2>5, <3>2, <3>4
  <2>. QED  BY <2>6, <2>7, <2>8, <2>9, <2>10 DEF FoldedFor
<1>. QED  BY <1>5, <1>8, <1>9 DEF Folded, new

(* Before the first item nothing is made. *)
LEMMA FoldedStart == batch \in Seq(Item) => Folded(0, start)
<1>. SUFFICES ASSUME batch \in Seq(Item) PROVE Folded(0, start)
  OBVIOUS
<1>1. start \in Acc
  <2>1. <<>> \in Seq(Message)
    OBVIOUS
  <2>. QED  BY <2>1 DEF start, Acc
<1>2. start.messages = <<>> /\ \A u \in Users : start.last[u] = 0 /\ start.size[u] = 0
  BY DEF start
<1>3. ASSUME NEW u \in Users PROVE FoldedFor(0, start, u)
  <2>1. madeFor(start, u) = {}
    BY <1>2 DEF madeFor
  <2>2. \A v \in itemsOf(u) : v \in Nat /\ v > 0
    BY DEF itemsOf
  <2>3. traitsOf(u, 0) = {}
    BY DEF traitsOf
  <2>4. Cardinality(traitsOf(u, 0)) = 0
    BY <2>3, FS_EmptySet
  <2>. QED  BY <1>2, <2>1, <2>2, <2>4 DEF FoldedFor, LastIsLast, SetsItems, SetsAll, Ascends, MadeOne
<1>. QED  BY <1>1, <1>3 DEF Folded

(* What it makes of a whole batch. *)
LEMMA CoalesceFolded ==
  ASSUME batch \in Seq(Item)
  PROVE  \E acc : Folded(Len(batch), acc) /\ coalesce(batch) = acc.messages
<1>1. PICK f : /\ f[0] = start
               /\ \A i \in 1 .. Len(batch) : f[i] = fold(batch, f[i - 1], i)
               /\ coalesce(batch) = f[Len(batch)].messages
  BY CoalesceFolds
<1>. DEFINE Bad == {n \in 0 .. Len(batch) : ~Folded(n, f[n])}
<1>2. Bad = {}
  <2>1. SUFFICES ASSUME Bad # {} PROVE FALSE
    OBVIOUS
  <2>2. PICK n \in Bad : \A i \in Bad : n <= i
    <3>1. Bad \subseteq Nat
      OBVIOUS
    <3>. HIDE DEF Bad
    <3>. QED  BY <2>1, <3>1, Least
  <2>3. n \in 1 .. Len(batch)
    <3>1. n # 0
      BY <1>1, <2>2, FoldedStart
    <3>. QED  BY <2>2, <3>1
  <2>4. Folded(n - 1, f[n - 1])
    BY <2>2, <2>3
  <2>5. Folded(n, fold(batch, f[n - 1], n))
    BY <2>3, <2>4, NulStep, JoinStep, StartStep
  <2>. QED  BY <1>1, <2>2, <2>3, <2>5
<1>3. Len(batch) \in 0 .. Len(batch)
  OBVIOUS
<1>. QED  BY <1>1, <1>2, <1>3

(* The last of a user's items to set a trait is the greatest value a message sets. *)
LEMMA InOrderIs ==
  ASSUME batch \in Seq(Item), NEW u \in Users, NEW k \in Keys
  PROVE  /\ inOrder(u, k) \in 0 .. Len(batch)
         /\ inOrder(u, k) # 0 => inOrder(u, k) \in itemsOf(u) /\ k \in batch[inOrder(u, k)].keys
         /\ \A v \in itemsOf(u) : k \in batch[v].keys => v <= inOrder(u, k)
<1>. DEFINE S == {0} \cup {i \in itemsOf(u) : k \in batch[i].keys}
<1>1. S \in SUBSET (0 .. Len(batch)) /\ S # {}
  BY DEF itemsOf
<1>2. inOrder(u, k) = Max(S)
  BY DEF inOrder
<1>3. \A v \in itemsOf(u) : k \in batch[v].keys => v \in S
  OBVIOUS
<1>4. \A v \in S : v = 0 \/ (v \in itemsOf(u) /\ k \in batch[v].keys)
  OBVIOUS
<1>5. \A v \in 0 .. Len(batch) : v \in Nat
  OBVIOUS
<1>. HIDE DEF S
<1>6. Max(S) \in S /\ \A y \in S : Max(S) >= y
  <2>1. Len(batch) \in Nat
    OBVIOUS
  <2>. QED  BY <1>1, <2>1, MaxUpto
<1>. QED  BY <1>1, <1>2, <1>3, <1>4, <1>5, <1>6

(* The order of a batch is kept in its messages. *)
LEMMA OrderIsKept ==
  ASSUME batch \in Seq(Item), messages = coalesce(batch)
  PROVE  Coalesced
<1>1. PICK acc : Folded(Len(batch), acc) /\ messages = acc.messages
  BY CoalesceFolded
<1>2. messages \in Seq(Message)
  BY <1>1 DEF Folded, Acc
<1>3. ASSUME NEW u \in Users, NEW k \in Keys
      PROVE  /\ inOrder(u, k) = Max({0} \cup {messages[i].traits[k] : i \in messagesOf(u)})
             /\ \A i, j \in messagesOf(u) : i < j /\ messages[j].traits[k] # 0 =>
                  messages[i].traits[k] < messages[j].traits[k]
             /\ u \in Foldable => \A i \in messagesOf(u) : inOrder(u, k) # 0 => messages[i].traits[k] = inOrder(u, k)
  <2>1. messagesOf(u) = madeFor(acc, u) /\ FoldedFor(Len(batch), acc, u)
    BY <1>1 DEF messagesOf, madeFor, Folded
  <2>2. \A i \in messagesOf(u) : messages[i].traits[k] = set(acc, i, k) /\ set(acc, i, k) \in 0 .. Len(batch)
    <3>1. \A i \in messagesOf(u) : messages[i] \in Message
      BY <1>2 DEF messagesOf
    <3>. QED  BY <1>1, <3>1 DEF set, Message
  <2>. DEFINE S == {0} \cup {messages[i].traits[k] : i \in messagesOf(u)}
              top == inOrder(u, k)
  <2>3. top \in 0 .. Len(batch) /\ top \in Nat
    BY InOrderIs
  <2>4. \A i \in messagesOf(u) : set(acc, i, k) <= top
    <3>1. \A i \in messagesOf(u) : set(acc, i, k) # 0 => set(acc, i, k) <= top
      BY <2>1, InOrderIs DEF FoldedFor, SetsItems
    <3>. QED  BY <2>2, <2>3, <3>1
  <2>5. top # 0 => \E i \in messagesOf(u) : set(acc, i, k) = top
    <3>1. top # 0 => \E i \in messagesOf(u) : top <= set(acc, i, k)
      BY <2>1, <2>3, InOrderIs DEF FoldedFor, SetsAll
    <3>. HIDE DEF top
    <3>2. ASSUME NEW i \in messagesOf(u), top <= set(acc, i, k) PROVE set(acc, i, k) = top
      BY <2>2, <2>3, <2>4, <3>2
    <3>. QED  BY <3>1, <3>2
  <2>. HIDE DEF top
  <2>6. Max(S) = top
    <3>1. S \in SUBSET Int /\ \A y \in S : top >= y
      BY <2>2, <2>3, <2>4
    <3>2. top \in S
      BY <2>2, <2>5
    <3>. HIDE DEF S
    <3>. QED  BY <3>1, <3>2, MaxIs
  <2>7. \A i, j \in messagesOf(u) : i < j /\ messages[j].traits[k] # 0 =>
          messages[i].traits[k] < messages[j].traits[k]
    BY <2>1, <2>2 DEF FoldedFor, Ascends
  <2>8. u \in Foldable => \A i \in messagesOf(u) : top # 0 => messages[i].traits[k] = top
    BY <2>1, <2>2, <2>5 DEF FoldedFor, MadeOne
  <2>. QED  BY <2>6, <2>7, <2>8 DEF top
<1>4. CoalesceKeepsOrder
  BY <1>3 DEF CoalesceKeepsOrder
<1>5. \A i \in DOMAIN messages :
        messages[i].user \in Foldable /\ ~messages[i].nul => Sets(messages[i].user, messages[i].traits)
  <2>. SUFFICES ASSUME NEW i \in DOMAIN messages, messages[i].user \in Foldable, ~messages[i].nul
                PROVE  Sets(messages[i].user, messages[i].traits)
    OBVIOUS
  <2>1. i \in messagesOf(messages[i].user) /\ messages[i].user \in Users
    BY DEF messagesOf, Foldable
  <2>. QED  BY <1>3, <2>1 DEF Sets
<1>. QED  BY <1>2, <1>4, <1>5 DEF Coalesced
-----------------------------------------------------------------------------
(* The stores and the stream.  Message m's entry changes, no other does. *)
Becomes(m, pc, r, traits, sees) ==
  /\ work' = [work EXCEPT ![m] = work'[m]] /\ DOMAIN work' = DOMAIN work
  /\ \A n \in DOMAIN work : n # m => work'[n] = work[n]
  /\ work'[m] = [msg |-> msg(m), pc |-> pc, row |-> r, traits |-> traits, sees |-> sees]

LEMMA Moves ==
  ASSUME work \in Seq(Work), NEW m \in DOMAIN work
  PROVE  /\ \A pc : Proceed(m, pc) => Becomes(m, pc, row(m), work[m].traits, work[m].sees)
         /\ \A pc, r, traits :
              work' = [work EXCEPT ![m] = [@ EXCEPT !.pc = pc, !.row = r, !.traits = traits]] =>
                Becomes(m, pc, r, traits, work[m].sees)
         /\ \A pc, traits :
              work' = [work EXCEPT ![m] = [@ EXCEPT !.pc = pc, !.traits = traits]] =>
                Becomes(m, pc, row(m), traits, work[m].sees)
         /\ \A pc, sees :
              work' = [work EXCEPT ![m] = [@ EXCEPT !.pc = pc, !.sees = sees]] =>
                Becomes(m, pc, row(m), work[m].traits, sees)
<1>1. work[m] \in Work
  OBVIOUS
<1>2. ASSUME NEW r, work' = [work EXCEPT ![m] = r]
      PROVE  /\ work' = [work EXCEPT ![m] = work'[m]] /\ DOMAIN work' = DOMAIN work /\ work'[m] = r
             /\ \A n \in DOMAIN work : n # m => work'[n] = work[n]
  BY <1>2
<1>3. ASSUME NEW pc, Proceed(m, pc) PROVE Becomes(m, pc, row(m), work[m].traits, work[m].sees)
  <2>1. work' = [work EXCEPT ![m] = [@ EXCEPT !.pc = pc]]
    BY <1>3 DEF Proceed
  <2>2. ASSUME NEW v, v = [work[m] EXCEPT !.pc = pc]
        PROVE  v = [msg |-> msg(m), pc |-> pc, row |-> row(m), traits |-> work[m].traits, sees |-> work[m].sees]
    BY <1>1, <2>2 DEF Work, msg, row
  <2>. QED  BY <1>2, <2>1, <2>2 DEF Becomes
<1>4. ASSUME NEW pc, NEW r, NEW traits,
             work' = [work EXCEPT ![m] = [@ EXCEPT !.pc = pc, !.row = r, !.traits = traits]]
      PROVE  Becomes(m, pc, r, traits, work[m].sees)
  <2>1. ASSUME NEW v, v = [work[m] EXCEPT !.pc = pc, !.row = r, !.traits = traits]
        PROVE  v = [msg |-> msg(m), pc |-> pc, row |-> r, traits |-> traits, sees |-> work[m].sees]
    BY <1>1, <2>1 DEF Work, msg
  <2>. QED  BY <1>2, <1>4, <2>1 DEF Becomes
<1>5. ASSUME NEW pc, NEW traits, work' = [work EXCEPT ![m] = [@ EXCEPT !.pc = pc, !.traits = traits]]
      PROVE  Becomes(m, pc, row(m), traits, work[m].sees)
  <2>1. ASSUME NEW v, v = [work[m] EXCEPT !.pc = pc, !.traits = traits]
        PROVE  v = [msg |-> msg(m), pc |-> pc, row |-> row(m), traits |-> traits, sees |-> work[m].sees]
    BY <1>1, <2>1 DEF Work, msg, row
  <2>. QED  BY <1>2, <1>5, <2>1 DEF Becomes
<1>6. ASSUME NEW pc, NEW sees, work' = [work EXCEPT ![m] = [@ EXCEPT !.pc = pc, !.sees = sees]]
      PROVE  Becomes(m, pc, row(m), work[m].traits, sees)
  <2>1. ASSUME NEW v, v = [work[m] EXCEPT !.pc = pc, !.sees = sees]
        PROVE  v = [msg |-> msg(m), pc |-> pc, row |-> row(m), traits |-> work[m].traits, sees |-> sees]
    BY <1>1, <2>1 DEF Work, msg, row
  <2>. QED  BY <1>2, <1>6, <2>1 DEF Becomes
<1>. QED  BY <1>3, <1>4, <1>5, <1>6

(* What is called is sent on unchanged, so what is said of the batch stays so. *)
LEMMA SameBatch ==
  ASSUME batch' = batch, messages' = messages
  PROVE  /\ Message' = Message /\ Work' = Work /\ Foldable' = Foldable
         /\ \A u \in Users, k \in Keys : inOrder(u, k)' = inOrder(u, k)
         /\ \A traits : \A u \in Users : Sets(u, traits)' <=> Sets(u, traits)
         /\ Coalesced => Coalesced'
<1>1. Message' = Message
  BY DEF Message
<1>2. Work' = Work
  BY <1>1 DEF Work
<1>3. \A u : itemsOf(u)' = itemsOf(u)
  BY DEF itemsOf
<1>4. \A u, n : traitsOf(u, n)' = traitsOf(u, n)
  BY <1>3 DEF traitsOf
<1>5. Foldable' = Foldable
  BY <1>3, <1>4 DEF Foldable
<1>6. \A u, k : inOrder(u, k)' = inOrder(u, k)
  BY <1>3 DEF inOrder
<1>7. \A u, traits : Sets(u, traits)' <=> Sets(u, traits)
  BY <1>6 DEF Sets
<1>8. \A u : messagesOf(u)' = messagesOf(u)
  BY DEF messagesOf
<1>9. CoalesceKeepsOrder => CoalesceKeepsOrder'
  BY <1>6, <1>8 DEF CoalesceKeepsOrder
<1>10. Coalesced => Coalesced'
  BY <1>1, <1>5, <1>7, <1>9 DEF Coalesced
<1>. QED  BY <1>1, <1>2, <1>5, <1>6, <1>7, <1>10

(* Every action but the client's and the stores' is a step of one handler. *)
LEMMA NextCases ==
  ASSUME [IdentifyNext]_identifyVars
  PROVE  \/ Publish \/ SendAgain \/ Insert \/ InsertAlias \/ Delete \/ UNCHANGED identifyVars
         \/ \E m \in DOMAIN work : Step(m) \/ HandlerFails(m)
BY DEF IdentifyNext

LEMMA CallKept == [IdentifyNext]_identifyVars => batch' = batch /\ messages' = messages
BY DEF IdentifyNext, identifyVars, call, Publish, SendAgain, Insert, InsertAlias, Delete, Step, HandlerFails,
       Upsert, DeadLetter, Link, Merge, Join, Commit, PublishUpsert, PublishTombstone, PublishAlias

(* A user's upsert finds the live row, or the first that there never was. *)
LEMMA TargetIs ==
  ASSUME NEW u \in Users, NEW r \in upsertTarget(u)
  PROVE  /\ r \in Rows /\ r[1] = u /\ rows[r].state \in {"live", "none"}
         /\ rows[r].state = "none" => \A s \in Rows : s[1] = u => rows[s].state # "live"
<1>. DEFINE live == {n \in 1 .. MaxRows : rows[<<u, n>>].state = "live"}
            none == {n \in 1 .. MaxRows : rows[<<u, n>>].state = "none"}
<1>1. PICK n \in IF live # {} THEN live ELSE {k \in none : \A l \in none : k <= l} : r = <<u, n>>
  BY DEF upsertTarget
<1>2. n \in 1 .. MaxRows /\ rows[r].state \in {"live", "none"} /\ (rows[r].state = "none" => live = {})
  BY <1>1
<1>3. ASSUME NEW s \in Rows, s[1] = u, rows[s].state = "live" PROVE live # {}
  <2>1. s = <<u, s[2]>> /\ s[2] \in 1 .. MaxRows
    BY <1>3 DEF Rows
  <2>. QED  BY <1>3, <2>1
<1>. QED  BY <1>1, <1>2, <1>3 DEF Rows

(* What a step of one handler does to its entry. *)
LEMMA HandlerMoves ==
  ASSUME work \in Seq(Work), NEW m \in DOMAIN work
  PROVE  /\ Upsert(m) => \E r \in Rows : /\ r \in upsertTarget(msg(m).user) \ locked
                                         /\ rows' = [rows EXCEPT ![r] = Live(over(msg(m).traits, rows[r].traits))]
                                         /\ Becomes(m, "link", r, over(msg(m).traits, rows[r].traits), work[m].sees)
         /\ DeadLetter(m) => Becomes(m, "dead", row(m), work[m].traits, work[m].sees)
         /\ Link(m) => Becomes(m, IF msg(m).anon = None THEN "publish" ELSE "merge", row(m), work[m].traits, work[m].sees)
         /\ Merge(m) => Becomes(m, "join", row(m), work[m].traits, anons[msg(m).anon].state = "live")
         /\ Join(m) =>
              \/ rows[row(m)].state # "live" /\ Becomes(m, "publish", row(m), work[m].traits, work[m].sees)
              \/ ~work[m].sees /\ Becomes(m, "rejoin", row(m), work[m].traits, work[m].sees)
              \/ work[m].sees /\ Becomes(m, "commit", row(m), over(rows[row(m)].traits, anons[msg(m).anon].traits), work[m].sees)
         /\ Commit(m) => Becomes(m, "upsert", row(m), work[m].traits, work[m].sees)
         /\ PublishUpsert(m) =>
              Becomes(m, IF work[m].pc = "upsert" THEN "tombstone" ELSE "settled", row(m), work[m].traits, work[m].sees)
         /\ PublishTombstone(m) => Becomes(m, "claim", row(m), work[m].traits, work[m].sees)
         /\ PublishAlias(m) => Becomes(m, "settled", row(m), work[m].traits, work[m].sees)
         /\ HandlerFails(m) => Becomes(m, "queued", row(m), work[m].traits, work[m].sees)
<1>1. ASSUME Upsert(m)
      PROVE  \E r \in Rows : /\ r \in upsertTarget(msg(m).user) \ locked
                             /\ rows' = [rows EXCEPT ![r] = Live(over(msg(m).traits, rows[r].traits))]
                             /\ Becomes(m, "link", r, over(msg(m).traits, rows[r].traits), work[m].sees)
  <2>1. msg(m).user \in Users
    <3>1. work[m] \in Work
      OBVIOUS
    <3>. QED  BY <3>1 DEF Work, Message, msg
  <2>2. PICK r \in upsertTarget(msg(m).user) \ locked :
          /\ rows' = [rows EXCEPT ![r] = Live(over(msg(m).traits, rows[r].traits))]
          /\ work' = [work EXCEPT ![m] = [@ EXCEPT !.pc = "link", !.row = r,
                                                   !.traits = over(msg(m).traits, rows[r].traits)]]
    BY <1>1 DEF Upsert
  <2>3. r \in Rows
    BY <2>1, <2>2, TargetIs
  <2>. QED  BY <2>2, <2>3, Moves
<1>2. Join(m) =>
        \/ rows[row(m)].state # "live" /\ Becomes(m, "publish", row(m), work[m].traits, work[m].sees)
        \/ ~work[m].sees /\ Becomes(m, "rejoin", row(m), work[m].traits, work[m].sees)
        \/ work[m].sees /\ Becomes(m, "commit", row(m), over(rows[row(m)].traits, anons[msg(m).anon].traits), work[m].sees)
  BY Moves DEF Join
<1>3. Link(m) => Becomes(m, IF msg(m).anon = None THEN "publish" ELSE "merge", row(m), work[m].traits, work[m].sees)
  BY Moves DEF Link
<1>4. Merge(m) => Becomes(m, "join", row(m), work[m].traits, anons[msg(m).anon].state = "live")
  BY Moves DEF Merge
<1>5. PublishUpsert(m) =>
        Becomes(m, IF work[m].pc = "upsert" THEN "tombstone" ELSE "settled", row(m), work[m].traits, work[m].sees)
  BY Moves DEF PublishUpsert, Stands
<1>6. /\ DeadLetter(m) => Becomes(m, "dead", row(m), work[m].traits, work[m].sees)
      /\ Commit(m) => Becomes(m, "upsert", row(m), work[m].traits, work[m].sees)
      /\ PublishTombstone(m) => Becomes(m, "claim", row(m), work[m].traits, work[m].sees)
      /\ PublishAlias(m) => Becomes(m, "settled", row(m), work[m].traits, work[m].sees)
      /\ HandlerFails(m) => Becomes(m, "queued", row(m), work[m].traits, work[m].sees)
  BY Moves DEF DeadLetter, Commit, PublishTombstone, PublishAlias, HandlerFails
<1>. QED  BY <1>1, <1>2, <1>3, <1>4, <1>5, <1>6

(* The traits of a message and of a profile, and what one written over the other has. *)
LEMMA TraitsOK ==
  ASSUME batch \in Batches
  PROVE  /\ Unset \in [Keys -> Values] /\ NoRow \in Profile /\ Deleted \in Profile
         /\ \A m \in Message : m.traits \in [Keys -> Values]
         /\ \A traits \in [Keys -> Values] : Live(traits) \in Profile
         /\ \A p \in Profile : p.traits \in [Keys -> Values]
         /\ [k \in Keys |-> Guest] \in [Keys -> Values]
<1>1. 0 .. Len(batch) \subseteq Values /\ Guest \in Values
  BY DEF Values
<1>2. 0 \in Values
  <2>1. batch \in Seq(Item)
    BY IdentifyAssumption
  <2>2. 0 \in 0 .. Len(batch)
    BY <2>1
  <2>. QED  BY <1>1, <2>2
<1>3. \A m \in Message : m.traits \in [Keys -> Values]
  BY <1>1 DEF Message
<1>. HIDE DEF Values
<1>. QED  BY <1>1, <1>2, <1>3 DEF Unset, NoRow, Deleted, Live, Profile

LEMMA OverIs ==
  ASSUME NEW new \in [Keys -> Values], NEW old \in [Keys -> Values]
  PROVE  /\ over(new, old) \in [Keys -> Values]
         /\ \A k \in Keys : over(new, old)[k] = IF new[k] # 0 THEN new[k] ELSE old[k]
BY DEF over

LEMMA InitOK == IdentifyInit => IInv
<1>. SUFFICES ASSUME IdentifyInit PROVE IInv
  OBVIOUS
<1>1. batch \in Batches /\ messages = coalesce(batch) /\ batch \in Seq(Item)
  BY IdentifyAssumption DEF IdentifyInit
<1>2. Coalesced
  BY <1>1, OrderIsKept
<1>3. /\ work = <<>> /\ DOMAIN work = {} /\ Len(work) = 0 /\ upserts = {} /\ claims = {}
      /\ rows = [r \in Rows |-> NoRow] /\ aliases = [a \in Anons |-> None] /\ failures = 0
      /\ ch = [i \in Ids |-> IF i \in Rows THEN rows[i] ELSE anons[i]] /\ next = 1
  BY DEF IdentifyInit
<1>4. PICK seeded \in SUBSET Anons :
        /\ anons = [a \in Anons |-> IF a \in seeded THEN Live([k \in Keys |-> Guest]) ELSE NoRow]
        /\ device \in seeded \cup {None}
  BY DEF IdentifyInit
<1>5. \A r \in Rows : r \notin Anons /\ None # r
  BY IdentifyAssumption DEF Rows
<1>6. \A r \in Rows : rows[r].state = "none" /\ ch[r].state = "none"
  BY <1>3 DEF NoRow, Ids
<1>7. \A a \in Anons : /\ anons[a].state # "deleted"
                       /\ anons[a].state # "none" => Keeps(anons[a].traits)
  BY <1>4 DEF Live, NoRow, Keeps, Guest
<1>8. IdentifyTypeOK
  <2>1. rows \in [Rows -> Profile] /\ anons \in [Anons -> Profile]
    BY <1>1, <1>3, <1>4, TraitsOK
  <2>2. ch \in [Ids -> Profile]
    BY <1>3, <2>1 DEF Ids
  <2>3. device \in Ids \cup {None} /\ aliases \in [Anons -> Rows \cup {None}]
    BY <1>3, <1>4 DEF Ids
  <2>4. next \in 1 .. Len(messages) + 1
    <3>1. Len(messages) \in Nat
      BY <1>2 DEF Coalesced
    <3>. QED  BY <1>3, <3>1
  <2>5. Len(work) <= MaxMessages /\ failures \in 0 .. MaxFailures
    BY <1>3, IdentifyAssumption
  <2>. QED  BY <1>1, <1>3, <1>6, <2>1, <2>2, <2>3, <2>4, <2>5 DEF IdentifyTypeOK
<1>9. Typed /\ Handled
  <2>1. work \in Seq(Work)
    BY <1>3
  <2>. QED  BY <1>2, <1>3, <1>8, <2>1 DEF Typed, Handled
<1>10. Whole /\ RowsTold
  BY <1>3, <1>6 DEF Whole, RowsTold
<1>11. AnonsMerged /\ MergesTold
  <2>1. \A a \in Anons : aliases[a] = None
    BY <1>3
  <2>. QED  BY <1>3, <1>7, <2>1 DEF AnonsMerged, AnonKept, MergesTold
<1>. QED  BY <1>9, <1>10, <1>11 DEF IInv

(* What the types say of a message in work. *)
LEMMA WorkIs ==
  ASSUME Typed, Handled, NEW m \in DOMAIN work
  PROVE  /\ work[m] \in Work /\ msg(m) \in Message /\ msg(m).user \in Users
         /\ work[m].traits \in [Keys -> Values] /\ msg(m).traits \in [Keys -> Values]
         /\ row(m) \in Rows \cup {None} /\ None \notin Rows /\ None \notin Anons
         /\ work[m].pc \in Started \cup {"queued", "dead"}
         /\ work[m].pc \in Started => row(m) \in Rows
         /\ msg(m).anon \in Anons \cup {None}
         /\ work[m].pc \in Merging => msg(m).anon \in Anons
<1>1. work[m] \in Work
  BY DEF Typed
<1>2. msg(m) \in Message /\ row(m) \in Rows \cup {None} /\ work[m].traits \in [Keys -> Values]
      /\ work[m].pc \in Started \cup {"queued", "dead"}
  BY <1>1 DEF Work, msg, row
<1>3. msg(m).user \in Users /\ msg(m).anon \in Anons \cup {None}
  BY <1>2 DEF Message
<1>4. None \notin Rows /\ None \notin Anons
  BY IdentifyAssumption DEF Rows
<1>5. HasRow(m)
  BY DEF Handled
<1>6. msg(m).traits \in [Keys -> Values]
  BY <1>2, TraitsOK DEF Typed, IdentifyTypeOK
<1>. QED  BY <1>1, <1>2, <1>3, <1>4, <1>5, <1>6 DEF HasRow

(* A moved entry is one still. *)
LEMMA BecomesOK ==
  ASSUME Typed, Handled, NEW m \in DOMAIN work, NEW pc \in Started \cup {"queued", "dead"},
         NEW r \in Rows \cup {None}, NEW traits \in [Keys -> Values], NEW sees \in BOOLEAN,
         Becomes(m, pc, r, traits, sees)
  PROVE  work' \in Seq(Work) /\ Len(work') = Len(work)
<1>1. work \in Seq(Work)
  BY DEF Typed
<1>2. work'[m] \in Work
  BY WorkIs DEF Becomes, Work
<1>. HIDE DEF Work
<1>. QED  BY <1>1, <1>2 DEF Becomes

(* The work a step of a handler leaves is well typed. *)
LEMMA StepWork ==
  ASSUME Typed, Handled, NEW m \in DOMAIN work, Step(m) \/ HandlerFails(m)
  PROVE  work' \in Seq(Work) /\ Len(work') = Len(work)
<1>. USE DEF Started
<1>1. /\ row(m) \in Rows \cup {None} /\ work[m].traits \in [Keys -> Values] /\ work[m].sees \in BOOLEAN
      /\ msg(m).traits \in [Keys -> Values]
  <2>1. work[m] \in Work
    BY WorkIs
  <2>. QED  BY <2>1, WorkIs DEF Work
<1>2. work \in Seq(Work) /\ batch \in Batches /\ rows \in [Rows -> Profile] /\ anons \in [Anons -> Profile]
  BY DEF Typed, IdentifyTypeOK
<1>3. ASSUME NEW pc \in Started \cup {"queued", "dead"}, NEW r \in Rows \cup {None},
             NEW traits \in [Keys -> Values], NEW sees \in BOOLEAN, Becomes(m, pc, r, traits, sees)
      PROVE  work' \in Seq(Work) /\ Len(work') = Len(work)
  BY <1>3, BecomesOK
<1>4. CASE Upsert(m)
  <2>1. PICK r \in Rows : Becomes(m, "link", r, over(msg(m).traits, rows[r].traits), work[m].sees)
    BY <1>2, <1>4, HandlerMoves
  <2>2. over(msg(m).traits, rows[r].traits) \in [Keys -> Values]
    BY <1>1, <1>2, TraitsOK, OverIs
  <2>. QED  BY <1>1, <1>3, <2>1, <2>2
<1>5. CASE Join(m)
  <2>1. CASE Becomes(m, "commit", row(m), over(rows[row(m)].traits, anons[msg(m).anon].traits), work[m].sees)
    <3>1. work[m].pc = "join" /\ row(m) \in Rows /\ msg(m).anon \in Anons
      BY <1>5, WorkIs DEF Join, Stands, Merging
    <3>2. rows[row(m)].traits \in [Keys -> Values] /\ anons[msg(m).anon].traits \in [Keys -> Values]
      BY <1>2, <3>1, TraitsOK
    <3>3. over(rows[row(m)].traits, anons[msg(m).anon].traits) \in [Keys -> Values]
      BY <3>2, OverIs
    <3>. QED  BY <1>1, <1>3, <2>1, <3>3
  <2>2. CASE \E pc \in {"publish", "rejoin"} : Becomes(m, pc, row(m), work[m].traits, work[m].sees)
    BY <1>1, <1>3, <2>2
  <2>. QED  BY <1>2, <1>5, <2>1, <2>2, HandlerMoves
<1>6. CASE Merge(m)
  BY <1>1, <1>2, <1>3, <1>6, HandlerMoves
<1>7. CASE Link(m)
  <2>. DEFINE pc == IF msg(m).anon = None THEN "publish" ELSE "merge"
  <2>1. Becomes(m, pc, row(m), work[m].traits, work[m].sees)
    BY <1>2, <1>7, HandlerMoves
  <2>2. pc \in Started
    OBVIOUS
  <2>. HIDE DEF pc
  <2>. QED  BY <1>1, <1>3, <2>1, <2>2
<1>8. CASE PublishUpsert(m)
  <2>. DEFINE pc == IF work[m].pc = "upsert" THEN "tombstone" ELSE "settled"
  <2>1. Becomes(m, pc, row(m), work[m].traits, work[m].sees)
    BY <1>2, <1>8, HandlerMoves
  <2>2. pc \in Started
    OBVIOUS
  <2>. HIDE DEF pc
  <2>. QED  BY <1>1, <1>3, <2>1, <2>2
<1>9. CASE DeadLetter(m) \/ Commit(m) \/ PublishTombstone(m) \/ PublishAlias(m) \/ HandlerFails(m)
  <2>1. PICK pc \in {"dead", "upsert", "claim", "settled", "queued"} :
          Becomes(m, pc, row(m), work[m].traits, work[m].sees)
    BY <1>2, <1>9, HandlerMoves
  <2>. QED  BY <1>1, <1>3, <2>1
<1>. QED  BY <1>4, <1>5, <1>6, <1>7, <1>8, <1>9 DEF Step

(* A user has one live row. *)
OneLive == \A r, s \in Rows : r[1] = s[1] /\ rows[r].state = "live" /\ rows[s].state = "live" => r = s

(* The stores a step of a handler leaves are well typed. *)
LEMMA StepStores ==
  ASSUME Typed, Handled, NEW m \in DOMAIN work, Step(m) \/ HandlerFails(m)
  PROVE  /\ rows' \in [Rows -> Profile] /\ anons' \in [Anons -> Profile] /\ ch' \in [Ids -> Profile]
         /\ OneLive' /\ device' \in Ids \cup {None} /\ upserts' \subseteq [id : Ids, doc : Profile]
         /\ claims' \subseteq Anons \X Rows /\ aliases' \in [Anons -> Rows \cup {None}]
         /\ failures' \in 0 .. MaxFailures /\ next' = next
<1>1. /\ rows \in [Rows -> Profile] /\ anons \in [Anons -> Profile] /\ ch \in [Ids -> Profile]
      /\ OneLive /\ device \in Ids \cup {None} /\ upserts \subseteq [id : Ids, doc : Profile]
      /\ claims \subseteq Anons \X Rows /\ aliases \in [Anons -> Rows \cup {None}]
      /\ failures \in 0 .. MaxFailures /\ MaxFailures \in Nat /\ batch \in Batches /\ work \in Seq(Work)
  BY IdentifyAssumption DEF Typed, IdentifyTypeOK, OneLive
<1>2. work[m].traits \in [Keys -> Values] /\ msg(m).traits \in [Keys -> Values] /\ msg(m).user \in Users
  BY WorkIs
<1>3. CASE Upsert(m)
  <2>1. PICK r \in upsertTarget(msg(m).user) :
          r \in Rows /\ rows' = [rows EXCEPT ![r] = Live(over(msg(m).traits, rows[r].traits))]
    BY <1>1, <1>3, HandlerMoves
  <2>2. Live(over(msg(m).traits, rows[r].traits)) \in Profile
    BY <1>1, <1>2, <2>1, TraitsOK, OverIs
  <2>3. rows' \in [Rows -> Profile]
    BY <1>1, <2>1, <2>2
  <2>4. \A s \in Rows : s # r => rows'[s] = rows[s]
    BY <1>1, <2>1
  <2>5. ASSUME NEW s \in Rows, s[1] = r[1], rows[s].state = "live" PROVE s = r
    <3>1. r[1] = msg(m).user /\ rows[r].state \in {"live", "none"}
          /\ (rows[r].state = "none" => \A t \in Rows : t[1] = msg(m).user => rows[t].state # "live")
      BY <1>2, <2>1, TargetIs
    <3>. QED  BY <1>1, <2>1, <2>5, <3>1 DEF OneLive
  <2>6. OneLive'
    BY <1>1, <2>4, <2>5, <2>1 DEF OneLive
  <2>. QED  BY <1>1, <1>3, <2>3, <2>6 DEF Upsert, call, mirror
<1>4. CASE DeadLetter(m) \/ Merge(m) \/ Join(m) \/ HandlerFails(m)
  BY <1>1, <1>4 DEF DeadLetter, Merge, Join, HandlerFails, call, postgres, mirror, OneLive
<1>5. CASE Link(m)
  <2>1. device' \in {row(m), device} /\ row(m) \in Rows
    BY <1>5, WorkIs DEF Link, Stands, Started
  <2>. QED  BY <1>1, <1>5, <2>1 DEF Link, call, mirror, OneLive, Ids
<1>6. CASE Commit(m)
  <2>1. row(m) \in Rows /\ msg(m).anon \in Anons
    BY <1>6, WorkIs DEF Commit, Stands, Started, Merging
  <2>2. /\ rows' \in [Rows -> Profile]
        /\ \A s \in Rows : rows'[s].state = rows[s].state
    <3>1. CASE rows' = rows
      BY <1>1, <3>1
    <3>2. CASE rows' = [rows EXCEPT ![row(m)].traits = work[m].traits]
      <4>1. rows[row(m)] \in Profile
        BY <1>1, <2>1
      <4>2. ASSUME NEW p, p = [rows[row(m)] EXCEPT !.traits = work[m].traits]
            PROVE  p \in Profile /\ p.state = rows[row(m)].state
        BY <1>2, <4>1, <4>2 DEF Profile
      <4>. QED  BY <1>1, <2>1, <3>2, <4>2
    <3>. QED  BY <1>6, <3>1, <3>2 DEF Commit
  <2>3. anons' \in [Anons -> Profile]
    BY <1>1, <1>6, <2>1 DEF Commit, Retired, Profile
  <2>4. OneLive'
    BY <1>1, <2>2 DEF OneLive
  <2>. QED  BY <1>1, <1>6, <2>1, <2>2, <2>3, <2>4 DEF Commit, Reassigned, call, mirror, Ids
<1>7. CASE PublishUpsert(m)
  <2>1. row(m) \in Rows /\ row(m) \in Ids
    BY <1>7, WorkIs DEF PublishUpsert, Stands, Started, Ids
  <2>2. snapshot(m) \in [id : Ids, doc : Profile]
    BY <1>1, <1>2, <2>1, TraitsOK DEF snapshot
  <2>. QED  BY <1>1, <1>7, <2>2 DEF PublishUpsert, call, postgres, OneLive
<1>8. CASE PublishTombstone(m)
  <2>1. msg(m).anon \in Ids
    BY <1>8, WorkIs DEF PublishTombstone, Stands, Merging, Ids
  <2>2. [id |-> msg(m).anon, doc |-> Deleted] \in [id : Ids, doc : Profile]
    BY <1>1, <2>1, TraitsOK
  <2>. QED  BY <1>1, <1>8, <2>2 DEF PublishTombstone, call, postgres, OneLive
<1>9. CASE PublishAlias(m)
  <2>1. row(m) \in Rows /\ msg(m).anon \in Anons
    BY <1>9, WorkIs DEF PublishAlias, Stands, Started, Merging
  <2>. QED  BY <1>1, <1>9, <2>1 DEF PublishAlias, call, postgres, OneLive
<1>. QED  BY <1>3, <1>4, <1>5, <1>6, <1>7, <1>8, <1>9 DEF Step

LEMMA TypedKept == IInv /\ [IdentifyNext]_identifyVars => Typed'
<1>. SUFFICES ASSUME IInv, [IdentifyNext]_identifyVars PROVE Typed'
  OBVIOUS
<1>1. Typed /\ Handled
  BY DEF IInv
<1>2. batch' = batch /\ messages' = messages /\ Coalesced' /\ Work' = Work
  BY <1>1, CallKept, SameBatch DEF Typed
<1>3. /\ rows \in [Rows -> Profile] /\ anons \in [Anons -> Profile] /\ ch \in [Ids -> Profile]
      /\ OneLive /\ device \in Ids \cup {None} /\ upserts \subseteq [id : Ids, doc : Profile]
      /\ claims \subseteq Anons \X Rows /\ aliases \in [Anons -> Rows \cup {None}]
      /\ failures \in 0 .. MaxFailures /\ MaxFailures \in Nat /\ batch \in Batches
      /\ work \in Seq(Work) /\ Len(work) <= MaxMessages /\ MaxMessages \in Nat
      /\ next \in 1 .. Len(messages) + 1 /\ messages \in Seq(Message)
  BY <1>1, IdentifyAssumption DEF Typed, IdentifyTypeOK, OneLive, Coalesced
<1>4. ASSUME work' \in Seq(Work), Len(work') <= MaxMessages, next' \in 1 .. Len(messages) + 1,
             rows' \in [Rows -> Profile], anons' \in [Anons -> Profile], ch' \in [Ids -> Profile],
             OneLive', device' \in Ids \cup {None}, upserts' \subseteq [id : Ids, doc : Profile],
             claims' \subseteq Anons \X Rows, aliases' \in [Anons -> Rows \cup {None}],
             failures' \in 0 .. MaxFailures
      PROVE  Typed'
  <2>1. \A m \in DOMAIN work' :
          /\ work'[m].pc \in {"queued", "link", "merge", "join", "commit", "rejoin", "publish",
                              "upsert", "tombstone", "claim", "settled", "dead"}
          /\ work'[m].row \in Rows \cup {None} /\ work'[m].traits \in [Keys -> Values]
    <3>1. \A m \in DOMAIN work' : work'[m] \in Work
      BY <1>4
    <3>. QED  BY <3>1 DEF Work, Started
  <2>2. IdentifyTypeOK'
    BY <1>2, <1>3, <1>4, <2>1 DEF IdentifyTypeOK, OneLive
  <2>. QED  BY <1>2, <1>4, <2>2 DEF Typed
<1>5. ASSUME NEW m \in DOMAIN work, Step(m) \/ HandlerFails(m) PROVE Typed'
  BY <1>1, <1>3, <1>4, <1>5, StepWork, StepStores
<1>6. CASE Publish
  <2>1. messages[next] \in Message
    BY <1>3, <1>6 DEF Publish
  <2>2. [msg |-> messages[next], pc |-> "queued", row |-> None, traits |-> Unset, sees |-> FALSE] \in Work
    BY <1>3, <2>1, TraitsOK DEF Work
  <2>3. work' \in Seq(Work) /\ Len(work') = Len(work) + 1
    <3>. HIDE DEF Work
    <3>. QED  BY <1>3, <1>6, <2>2 DEF Publish
  <2>4. Len(work') <= MaxMessages /\ next' \in 1 .. Len(messages) + 1
    BY <1>3, <1>6, <2>3 DEF Publish
  <2>. QED  BY <1>3, <1>4, <1>6, <2>3, <2>4 DEF Publish, postgres, mirror, OneLive
<1>7. CASE SendAgain
  <2>1. 1 \in 1 .. Len(messages) + 1
    BY <1>3
  <2>. QED  BY <1>3, <1>4, <1>7, <2>1 DEF SendAgain, postgres, mirror, OneLive
<1>8. CASE Insert
  <2>1. PICK u \in upserts : ch' = [ch EXCEPT ![u.id] = u.doc] /\ (upserts' = upserts \ {u} \/ upserts' = upserts)
    BY <1>8 DEF Insert
  <2>2. ch' \in [Ids -> Profile] /\ upserts' \subseteq [id : Ids, doc : Profile]
    BY <1>3, <2>1
  <2>3. failures' \in 0 .. MaxFailures
    BY <1>3, <1>8 DEF Insert
  <2>. QED  BY <1>3, <1>4, <1>8, <2>2, <2>3 DEF Insert, call, postgres, OneLive
<1>9. CASE InsertAlias
  <2>1. PICK c \in claims : aliases' = [aliases EXCEPT ![c[1]] = c[2]] /\ (claims' = claims \ {c} \/ claims' = claims)
    BY <1>9 DEF InsertAlias
  <2>2. aliases' \in [Anons -> Rows \cup {None}] /\ claims' \subseteq Anons \X Rows
    BY <1>3, <2>1
  <2>3. failures' \in 0 .. MaxFailures
    BY <1>3, <1>9 DEF InsertAlias
  <2>. QED  BY <1>3, <1>4, <1>9, <2>2, <2>3 DEF InsertAlias, call, postgres, OneLive
<1>10. CASE Delete
  <2>1. PICK r \in Rows : rows' = [rows EXCEPT ![r].state = "deleted"]
    BY <1>10 DEF Delete
  <2>2. rows' \in [Rows -> Profile] /\ \A s \in Rows : rows'[s].state = "live" => rows[s].state = "live"
    <3>1. rows[r] \in Profile
      BY <1>3
    <3>2. ASSUME NEW p, p = [rows[r] EXCEPT !.state = "deleted"]
          PROVE  p \in Profile /\ p.state = "deleted"
      BY <3>1, <3>2 DEF Profile
    <3>. QED  BY <1>3, <2>1, <3>2
  <2>3. OneLive'
    BY <1>3, <2>2 DEF OneLive
  <2>. QED  BY <1>3, <1>4, <1>10, <2>2, <2>3 DEF Delete, call, mirror
<1>11. CASE UNCHANGED identifyVars
  BY <1>3, <1>4, <1>11 DEF identifyVars, OneLive
<1>. QED  BY <1>5, <1>6, <1>7, <1>8, <1>9, <1>10, <1>11, NextCases

(* What no step takes back. *)
Advances ==
  /\ \A r \in Rows :
       /\ rows[r].state # "none" => rows'[r].state # "none"
       /\ rows[r].state = "deleted" => rows'[r].state = "deleted"
       /\ Keeps(rows[r].traits) => Keeps(rows'[r].traits)
       /\ Told(r) => Told(r)'
  /\ \A a \in Anons :
       /\ anons[a].state # "live" => anons'[a].state # "live"
       /\ anons[a].state # "none" => anons'[a].state # "none"
       /\ anons'[a].traits = anons[a].traits
       /\ device # a => device' # a
       /\ Claimed(a) => Claimed(a)'
       /\ Tombed(a) => Tombed(a)'

LEMMA StepAdvances == IInv /\ [IdentifyNext]_identifyVars => Advances
<1>. SUFFICES ASSUME IInv, [IdentifyNext]_identifyVars PROVE Advances
  OBVIOUS
<1>1. Typed /\ Handled
  BY DEF IInv
<1>2. /\ rows \in [Rows -> Profile] /\ anons \in [Anons -> Profile] /\ ch \in [Ids -> Profile]
      /\ upserts \subseteq [id : Ids, doc : Profile] /\ claims \subseteq Anons \X Rows
      /\ aliases \in [Anons -> Rows \cup {None}] /\ batch \in Batches
  BY <1>1 DEF Typed, IdentifyTypeOK
<1>3. /\ \A u \in upserts : u.doc.state # "none" /\ (u.id \in Anons => u.doc.state = "deleted")
      /\ \A r \in Rows : r \notin Anons /\ r # None /\ r \in Ids
      /\ \A a \in Anons : a \in Ids
  <2>1. \A u \in upserts : u.doc.state # "none" /\ (u.id \in Anons => u.doc.state = "deleted")
    BY DEF IInv, RowsTold, MergesTold, Deleted
  <2>. QED  BY <2>1, IdentifyAssumption DEF Rows, Ids
<1>4. ASSUME rows' = rows, anons' = anons, device' = device, upserts \subseteq upserts', claims \subseteq claims',
             ch' = ch, aliases' = aliases
      PROVE  Advances
  BY <1>4 DEF Advances, Told, Claimed, Tombed
<1>5. ASSUME NEW m \in DOMAIN work, Upsert(m) PROVE Advances
  <2>1. PICK r \in Rows : /\ r \in upsertTarget(msg(m).user)
                          /\ rows' = [rows EXCEPT ![r] = Live(over(msg(m).traits, rows[r].traits))]
    BY <1>1, <1>5, HandlerMoves DEF Typed
  <2>2. msg(m).traits \in [Keys -> Values] /\ rows[r].traits \in [Keys -> Values] /\ msg(m).user \in Users
    BY <1>1, <1>2, WorkIs, TraitsOK
  <2>3. rows[r].state # "deleted"
    BY <2>1, <2>2, TargetIs
  <2>4. /\ rows'[r].state = "live" /\ rows'[r].traits = over(msg(m).traits, rows[r].traits)
        /\ \A s \in Rows : s # r => rows'[s] = rows[s]
    BY <1>2, <2>1 DEF Live
  <2>5. Keeps(rows[r].traits) => Keeps(rows'[r].traits)
    BY <2>2, <2>4, OverIs DEF Keeps
  <2>6. \A s \in Rows : /\ rows[s].state # "none" => rows'[s].state # "none"
                        /\ rows[s].state = "deleted" => rows'[s].state = "deleted"
                        /\ Keeps(rows[s].traits) => Keeps(rows'[s].traits)
    BY <2>3, <2>4, <2>5
  <2>. QED  BY <1>5, <2>6 DEF Advances, Upsert, call, mirror, Told, Claimed, Tombed
<1>6. ASSUME NEW m \in DOMAIN work, DeadLetter(m) \/ Merge(m) \/ Join(m) \/ HandlerFails(m) PROVE Advances
  BY <1>4, <1>6 DEF DeadLetter, Merge, Join, HandlerFails, call, postgres, mirror
<1>7. ASSUME NEW m \in DOMAIN work, Link(m) PROVE Advances
  <2>1. device' \in {row(m), device} /\ row(m) \in Rows
    BY <1>1, <1>7, WorkIs DEF Link, Stands, Started
  <2>2. \A a \in Anons : device # a => device' # a
    BY <1>3, <2>1
  <2>. QED  BY <1>7, <2>2 DEF Link, call, mirror, Advances, Told, Claimed, Tombed
<1>8. ASSUME NEW m \in DOMAIN work, Commit(m) PROVE Advances
  <2>1. row(m) \in Rows /\ msg(m).anon \in Anons /\ work[m].traits \in [Keys -> Values]
    BY <1>1, <1>8, WorkIs DEF Commit, Stands, Started, Merging
  <2>2. \A a \in Anons : device # a => device' # a
    BY <1>3, <1>8, <2>1 DEF Commit, Reassigned
  <2>3. \A s \in Rows : rows'[s].state = rows[s].state /\ (Keeps(rows[s].traits) => Keeps(rows'[s].traits))
    <3>1. CASE rows' = rows
      BY <3>1
    <3>2. CASE Stands(m, "commit") /\ rows' = [rows EXCEPT ![row(m)].traits = work[m].traits]
      <4>1. Keeps(work[m].traits)
        BY <3>2 DEF IInv, AnonsMerged, InMerge, Stands
      <4>2. rows[row(m)] \in Profile
        BY <1>2, <2>1
      <4>3. ASSUME NEW p, p = [rows[row(m)] EXCEPT !.traits = work[m].traits]
            PROVE  p.traits = work[m].traits /\ p.state = rows[row(m)].state
        BY <4>2, <4>3 DEF Profile
      <4>. QED  BY <1>2, <2>1, <3>2, <4>1, <4>3
    <3>. QED  BY <1>8, <3>1, <3>2 DEF Commit
  <2>4. \A a \in Anons : /\ anons[a].state # "live" => anons'[a].state # "live"
                         /\ anons[a].state # "none" => anons'[a].state # "none"
                         /\ anons'[a].traits = anons[a].traits
    BY <1>2, <1>8, <2>1 DEF Commit, Retired, Profile
  <2>. QED  BY <1>8, <2>2, <2>3, <2>4 DEF Commit, call, mirror, Advances, Told, Claimed, Tombed
<1>9. ASSUME NEW m \in DOMAIN work, PublishUpsert(m) \/ PublishTombstone(m) \/ PublishAlias(m) PROVE Advances
  BY <1>4, <1>9 DEF PublishUpsert, PublishTombstone, PublishAlias, call, postgres
<1>10. CASE Publish \/ SendAgain \/ UNCHANGED identifyVars
  BY <1>4, <1>10 DEF Publish, SendAgain, identifyVars, postgres, mirror
<1>11. CASE Insert
  <2>1. PICK u \in upserts : ch' = [ch EXCEPT ![u.id] = u.doc] /\ (upserts' = upserts \ {u} \/ upserts' = upserts)
    BY <1>11 DEF Insert
  <2>2. \A i \in Ids : ch'[i] = IF i = u.id THEN u.doc ELSE ch[i]
    BY <1>2, <2>1
  <2>3. \A r \in Rows : Told(r) => Told(r)'
    BY <1>3, <2>1, <2>2 DEF Told
  <2>4. \A a \in Anons : Tombed(a) => Tombed(a)'
    BY <1>3, <2>1, <2>2 DEF Tombed
  <2>. QED  BY <1>11, <2>3, <2>4 DEF Insert, call, postgres, Advances, Claimed
<1>12. CASE InsertAlias
  <2>1. PICK c \in claims : /\ aliases' = [aliases EXCEPT ![c[1]] = c[2]]
                            /\ claims' = claims \ {c} \/ claims' = claims
    BY <1>12 DEF InsertAlias
  <2>2. c[1] \in Anons /\ c[2] \in Rows
    BY <1>2
  <2>3. \A a \in Anons : aliases'[a] = IF a = c[1] THEN c[2] ELSE aliases[a]
    BY <1>2, <2>1, <2>2
  <2>4. \A a \in Anons : Claimed(a) => Claimed(a)'
    BY <1>3, <2>1, <2>2, <2>3 DEF Claimed
  <2>. QED  BY <1>12, <2>4 DEF InsertAlias, call, postgres, Advances, Told, Tombed
<1>13. CASE Delete
  <2>1. PICK r \in Rows : rows[r].state = "live" /\ rows' = [rows EXCEPT ![r].state = "deleted"]
    BY <1>13 DEF Delete
  <2>2. \A s \in Rows : /\ rows'[s].traits = rows[s].traits
                        /\ rows'[s].state = IF s = r THEN "deleted" ELSE rows[s].state
    <3>1. rows[r] \in Profile
      BY <1>2
    <3>2. ASSUME NEW p, p = [rows[r] EXCEPT !.state = "deleted"]
          PROVE  p.traits = rows[r].traits /\ p.state = "deleted"
      BY <3>1, <3>2 DEF Profile
    <3>. QED  BY <1>2, <2>1, <3>2
  <2>. QED  BY <1>13, <2>1, <2>2 DEF Delete, call, mirror, Advances, Told, Claimed, Tombed
<1>. QED  BY <1>5, <1>6, <1>7, <1>8, <1>9, <1>10, <1>11, <1>12, <1>13, NextCases DEF Step

(* An entry of work stays, is new, or its handler takes a step. *)
LEMMA WorkSteps ==
  ASSUME IInv, [IdentifyNext]_identifyVars
  PROVE  /\ DOMAIN work \subseteq DOMAIN work'
         /\ \A n \in DOMAIN work : work'[n].msg = work[n].msg
         /\ \A n \in DOMAIN work' :
              \/ n \in DOMAIN work /\ work'[n] = work[n]
              \/ /\ n \notin DOMAIN work /\ work'[n].pc = "queued" /\ work'[n].row = None
                 /\ \E i \in DOMAIN messages : work'[n].msg = messages[i]
              \/ n \in DOMAIN work /\ (Step(n) \/ HandlerFails(n))
<1>1. work \in Seq(Work)
  BY DEF IInv, Typed
<1>2. CASE work' = work
  BY <1>2
<1>3. ASSUME NEW m \in DOMAIN work, Step(m) \/ HandlerFails(m)
      PROVE  /\ DOMAIN work' = DOMAIN work /\ work'[m].msg = work[m].msg
             /\ \A n \in DOMAIN work : n # m => work'[n] = work[n]
  <2>1. PICK pc, r, traits, sees : Becomes(m, pc, r, traits, sees)
    BY <1>1, <1>3, HandlerMoves DEF Step
  <2>. QED  BY <2>1 DEF Becomes, msg
<1>4. CASE Publish
  <2>1. PICK new : /\ work' = Append(work, new)
                   /\ new = [msg |-> messages[next], pc |-> "queued", row |-> None, traits |-> Unset, sees |-> FALSE]
    BY <1>4 DEF Publish
  <2>2. next \in DOMAIN messages
    <3>1. messages \in Seq(Message) /\ next \in 1 .. Len(messages) + 1
      BY DEF IInv, Typed, Coalesced, IdentifyTypeOK
    <3>. QED  BY <1>4, <3>1 DEF Publish
  <2>3. /\ DOMAIN work' = DOMAIN work \cup {Len(work) + 1} /\ Len(work) + 1 \notin DOMAIN work
        /\ work'[Len(work) + 1] = new /\ \A n \in DOMAIN work : work'[n] = work[n]
    BY <1>1, <2>1
  <2>. QED  BY <2>1, <2>2, <2>3
<1>5. CASE SendAgain \/ Insert \/ InsertAlias \/ Delete \/ UNCHANGED identifyVars
  BY <1>2, <1>5 DEF SendAgain, Insert, InsertAlias, Delete, identifyVars
<1>. QED  BY <1>3, <1>4, <1>5, NextCases

(* A handler's row is one of its message's user, and stays. *)
LEMMA HandledKept == IInv /\ [IdentifyNext]_identifyVars => Handled'
<1>. SUFFICES ASSUME IInv, [IdentifyNext]_identifyVars, NEW n \in DOMAIN work'
              PROVE  HandlesMessage(n)' /\ HasRow(n)'
  BY DEF Handled
<1>1. Typed /\ Handled /\ Advances /\ batch' = batch /\ messages' = messages /\ work \in Seq(Work)
  BY StepAdvances, CallKept DEF IInv, Typed
<1>2. HandlesMessage(n)'
  BY <1>1, WorkSteps DEF Handled, HandlesMessage, msg
<1>. SUFFICES HasRow(n)'
  BY <1>2
<1>3. ASSUME n \in DOMAIN work
      PROVE  /\ HasRow(n) /\ row(n) \in Rows \cup {None} /\ work[n].pc \in Started \cup {"queued", "dead"}
             /\ row(n) \in Rows => rows'[row(n)].state # "none"
  <2>1. HasRow(n) /\ row(n) \in Rows \cup {None} /\ work[n].pc \in Started \cup {"queued", "dead"} /\ None \notin Rows
    BY <1>1, <1>3, WorkIs DEF Handled
  <2>. QED  BY <1>1, <2>1 DEF HasRow, Advances
<1>4. CASE n \in DOMAIN work /\ work'[n] = work[n]
  BY <1>3, <1>4 DEF HasRow, row, msg
<1>5. CASE work'[n].pc = "queued" /\ work'[n].row = None
  BY <1>5 DEF HasRow, row, Started, Merging
<1>6. CASE n \in DOMAIN work /\ (Step(n) \/ HandlerFails(n))
  <2>1. ASSUME NEW pc, NEW r, NEW traits, NEW sees, Becomes(n, pc, r, traits, sees)
        PROVE  work'[n].pc = pc /\ work'[n].row = r /\ work'[n].msg = msg(n)
    BY <2>1 DEF Becomes
  <2>2. CASE Upsert(n)
    <3>1. PICK r \in Rows : /\ r \in upsertTarget(msg(n).user)
                            /\ rows' = [rows EXCEPT ![r] = Live(over(msg(n).traits, rows[r].traits))]
                            /\ work'[n].pc = "link" /\ work'[n].row = r /\ work'[n].msg = msg(n)
      BY <1>1, <1>6, <2>1, <2>2, HandlerMoves
    <3>2. r[1] = msg(n).user
      BY <1>1, <1>6, <3>1, WorkIs, TargetIs
    <3>3. rows'[r].state = "live"
      BY <1>1, <3>1 DEF Typed, IdentifyTypeOK, Live
    <3>4. ~msg(n).nul /\ r # None
      BY <1>1, <1>6, <2>2, WorkIs DEF Upsert
    <3>. QED  BY <3>1, <3>2, <3>3, <3>4 DEF HasRow, row, msg, Merging
  <2>3. ASSUME NEW pc, NEW traits, NEW sees, Becomes(n, pc, row(n), traits, sees),
               pc \in Started => work[n].pc \in Started,
               pc \in Merging => msg(n).anon # None
        PROVE  HasRow(n)'
    BY <1>3, <1>6, <2>1, <2>3 DEF HasRow, row, msg
  <2>4. CASE Link(n)
    <3>. DEFINE pc == IF msg(n).anon = None THEN "publish" ELSE "merge"
    <3>1. Becomes(n, pc, row(n), work[n].traits, work[n].sees)
      BY <1>1, <1>6, <2>4, HandlerMoves
    <3>2. work[n].pc \in Started /\ (pc \in Merging => msg(n).anon # None)
      BY <2>4 DEF Link, Stands, Started, Merging
    <3>. HIDE DEF pc
    <3>. QED  BY <2>3, <3>1, <3>2
  <2>5. CASE Merge(n) \/ Join(n) \/ Commit(n) \/ PublishTombstone(n) \/ PublishAlias(n)
    <3>1. work[n].pc \in Merging /\ work[n].pc \in Started
      BY <2>5 DEF Merge, Join, Commit, PublishTombstone, PublishAlias, Stands, Merging, Started
    <3>2. msg(n).anon # None
      BY <1>3, <1>6, <3>1 DEF HasRow
    <3>3. PICK pc, traits, sees : Becomes(n, pc, row(n), traits, sees)
      BY <1>1, <1>6, <2>5, HandlerMoves
    <3>. QED  BY <2>3, <3>1, <3>2, <3>3
  <2>6. CASE PublishUpsert(n)
    <3>. DEFINE pc == IF work[n].pc = "upsert" THEN "tombstone" ELSE "settled"
    <3>1. Becomes(n, pc, row(n), work[n].traits, work[n].sees)
      BY <1>1, <1>6, <2>6, HandlerMoves
    <3>2. work[n].pc \in Started /\ (pc \in Merging => work[n].pc \in Merging)
      BY <2>6 DEF PublishUpsert, Stands, Started, Merging
    <3>3. pc \in Merging => msg(n).anon # None
      BY <1>3, <1>6, <3>2 DEF HasRow
    <3>. HIDE DEF pc
    <3>. QED  BY <2>3, <3>1, <3>2, <3>3
  <2>7. CASE DeadLetter(n) \/ HandlerFails(n)
    <3>1. PICK pc \in {"dead", "queued"} : Becomes(n, pc, row(n), work[n].traits, work[n].sees)
      BY <1>1, <1>6, <2>7, HandlerMoves
    <3>2. pc \notin Started /\ pc \notin Merging
      BY DEF Started, Merging
    <3>. QED  BY <2>3, <3>1, <3>2
  <2>. QED  BY <1>6, <2>2, <2>4, <2>5, <2>6, <2>7 DEF Step
<1>. QED  BY <1>4, <1>5, <1>6, WorkSteps

(* The traits a handler goes on with are those its row or its message gave it. *)
LEMMA SetsOver ==
  ASSUME NEW u \in Users, NEW new \in [Keys -> Values], NEW old \in [Keys -> Values]
  PROVE  /\ Sets(u, new) => Sets(u, over(new, old))
         /\ \A k \in Keys : over(new, old)[k] = IF new[k] # 0 THEN new[k] ELSE old[k]
<1>1. \A k \in Keys : over(new, old)[k] = IF new[k] # 0 THEN new[k] ELSE old[k]
  BY OverIs
<1>. QED  BY <1>1 DEF Sets

LEMMA WholeKept == IInv /\ [IdentifyNext]_identifyVars => Whole'
<1>. SUFFICES ASSUME IInv, [IdentifyNext]_identifyVars PROVE Whole'
  OBVIOUS
<1>1. Typed /\ Handled /\ Whole /\ work \in Seq(Work) /\ Handled'
  BY HandledKept DEF IInv, Typed
<1>2. /\ rows \in [Rows -> Profile] /\ anons \in [Anons -> Profile] /\ ch \in [Ids -> Profile]
      /\ upserts \subseteq [id : Ids, doc : Profile] /\ batch \in Batches
      /\ \A r \in Rows : r[1] \in Users /\ r \notin Anons /\ r \in Ids
  BY <1>1, IdentifyAssumption DEF Typed, IdentifyTypeOK, Rows, Ids
<1>3. /\ Foldable' = Foldable /\ Foldable \subseteq Users
      /\ \A traits : \A u \in Users : Sets(u, traits)' <=> Sets(u, traits)
  BY CallKept, SameBatch DEF Foldable
(* The four parts, with what their users can be. *)
<1>. DEFINE RowsWhole == \A r \in Rows : r[1] \in Foldable /\ rows'[r].state # "none" => Sets(r[1], rows'[r].traits)
            ChWhole == \A r \in Rows : r[1] \in Foldable /\ ch'[r].state # "none" => Sets(r[1], ch'[r].traits)
            UpsertsWhole == \A r \in Rows : r[1] \in Foldable =>
                              \A u \in upserts' : u.id = r => Sets(r[1], u.doc.traits)
            WorkWhole(n) == work'[n].row # None /\ work'[n].msg.user \in Foldable =>
                              Sets(work'[n].msg.user, work'[n].traits)
<1>4. ASSUME RowsWhole, ChWhole, UpsertsWhole, \A n \in DOMAIN work' : WorkWhole(n) PROVE Whole'
  BY <1>2, <1>3, <1>4 DEF Whole, row, msg
<1>5. /\ rows' = rows => RowsWhole
      /\ ch' = ch => ChWhole
      /\ upserts' \subseteq upserts => UpsertsWhole
  BY <1>1 DEF Whole
<1>6. /\ \A m \in DOMAIN work : msg(m).user \in Foldable /\ ~msg(m).nul => Sets(msg(m).user, msg(m).traits)
      /\ \A m \in DOMAIN work : msg(m).user \in Users /\ msg(m).traits \in [Keys -> Values]
  BY <1>1, WorkIs DEF Handled, HandlesMessage, Typed, Coalesced
<1>7. \A n \in DOMAIN work' : n \in DOMAIN work /\ work'[n] = work[n] => WorkWhole(n)
  BY <1>1 DEF Whole, row, msg
<1>8. \A n \in DOMAIN work' : work'[n].row = None => WorkWhole(n)
  OBVIOUS
<1>9. ASSUME NEW m \in DOMAIN work, NEW pc, NEW sees, Becomes(m, pc, row(m), work[m].traits, sees)
      PROVE  \A n \in DOMAIN work' : WorkWhole(n)
  BY <1>1, <1>9 DEF Becomes, Whole, row, msg
<1>10. ASSUME NEW m \in DOMAIN work, Upsert(m) PROVE Whole'
  <2>1. PICK r \in Rows : /\ r \in upsertTarget(msg(m).user)
                          /\ rows' = [rows EXCEPT ![r] = Live(over(msg(m).traits, rows[r].traits))]
                          /\ Becomes(m, "link", r, over(msg(m).traits, rows[r].traits), work[m].sees)
    BY <1>1, <1>10, HandlerMoves
  <2>2. r[1] = msg(m).user /\ ~msg(m).nul
    BY <1>6, <1>10, <2>1, TargetIs DEF Upsert
  <2>3. r[1] \in Foldable => Sets(r[1], over(msg(m).traits, rows[r].traits))
    <3>1. rows[r].traits \in [Keys -> Values]
      BY <1>2, TraitsOK
    <3>. QED  BY <1>6, <2>2, <3>1, SetsOver
  <2>4. RowsWhole
    <3>1. \A s \in Rows : rows'[s] = IF s = r THEN Live(over(msg(m).traits, rows[r].traits)) ELSE rows[s]
      BY <1>2, <2>1
    <3>. QED  BY <1>1, <2>3, <3>1 DEF Whole, Live
  <2>5. \A n \in DOMAIN work' : WorkWhole(n)
    <3>1. WorkWhole(m)
      BY <2>1, <2>2, <2>3 DEF Becomes
    <3>. QED  BY <1>7, <2>1, <3>1 DEF Becomes
  <2>6. ch' = ch /\ upserts' \subseteq upserts
    BY <1>10 DEF Upsert, mirror
  <2>. QED  BY <1>4, <1>5, <2>4, <2>5, <2>6
<1>11. ASSUME NEW m \in DOMAIN work, DeadLetter(m) \/ Link(m) \/ Merge(m) \/ HandlerFails(m) PROVE Whole'
  <2>1. PICK pc, sees : Becomes(m, pc, row(m), work[m].traits, sees)
    BY <1>1, <1>11, HandlerMoves
  <2>2. rows' = rows /\ ch' = ch /\ upserts' \subseteq upserts
    BY <1>11 DEF DeadLetter, Link, Merge, HandlerFails, postgres, mirror
  <2>. QED  BY <1>4, <1>5, <1>9, <2>1, <2>2
<1>12. ASSUME NEW m \in DOMAIN work, Join(m) PROVE Whole'
  <2>1. rows' = rows /\ ch' = ch /\ upserts' \subseteq upserts
    BY <1>12 DEF Join, postgres, mirror
  <2>2. CASE \E pc : Becomes(m, pc, row(m), work[m].traits, work[m].sees)
    BY <1>4, <1>5, <1>9, <2>1, <2>2
  <2>. DEFINE joined == over(rows[row(m)].traits, anons[msg(m).anon].traits)
  <2>3. CASE Becomes(m, "commit", row(m), joined, work[m].sees)
    <3>1. row(m) \in Rows /\ msg(m).anon \in Anons /\ row(m)[1] = msg(m).user /\ rows[row(m)].state # "none"
      <4>1. work[m].pc = "join"
        BY <1>12 DEF Join, Stands
      <4>2. row(m) \in Rows /\ msg(m).anon \in Anons /\ row(m) # None
        BY <1>1, <4>1, WorkIs DEF Started, Merging
      <4>. QED  BY <1>1, <4>2 DEF Handled, HasRow
    <3>2. msg(m).user \in Foldable => Sets(msg(m).user, rows[row(m)].traits)
      BY <1>1, <3>1 DEF Whole
    <3>3. rows[row(m)].traits \in [Keys -> Values] /\ anons[msg(m).anon].traits \in [Keys -> Values]
      BY <1>2, <3>1, TraitsOK
    <3>4. msg(m).user \in Foldable => Sets(msg(m).user, joined)
      BY <1>6, <3>2, <3>3, SetsOver
    <3>. HIDE DEF joined
    <3>5. \A n \in DOMAIN work' : WorkWhole(n)
      <4>1. WorkWhole(m)
        BY <2>3, <3>4 DEF Becomes
      <4>. QED  BY <1>7, <2>3, <4>1 DEF Becomes
    <3>. QED  BY <1>4, <1>5, <2>1, <3>5
  <2>. QED  BY <1>1, <1>12, <2>2, <2>3, HandlerMoves
<1>13. ASSUME NEW m \in DOMAIN work, Commit(m) PROVE Whole'
  <2>1. Becomes(m, "upsert", row(m), work[m].traits, work[m].sees)
    BY <1>1, <1>13, HandlerMoves
  <2>2. ch' = ch /\ upserts' \subseteq upserts
    BY <1>13 DEF Commit, mirror
  <2>3. /\ row(m) \in Rows /\ row(m)[1] = msg(m).user
        /\ msg(m).user \in Foldable => Sets(msg(m).user, work[m].traits)
    <3>1. work[m].pc \in Started
      BY <1>13 DEF Commit, Stands, Started
    <3>2. row(m) \in Rows /\ row(m) # None
      BY <1>1, <3>1, WorkIs
    <3>. QED  BY <1>1, <3>2 DEF Handled, HasRow, Whole
  <2>4. RowsWhole
    <3>1. CASE rows' = rows
      BY <1>5, <3>1
    <3>2. CASE rows' = [rows EXCEPT ![row(m)].traits = work[m].traits]
      <4>1. rows[row(m)] \in Profile
        BY <1>2, <2>3
      <4>2. ASSUME NEW p, p = [rows[row(m)] EXCEPT !.traits = work[m].traits]
            PROVE  p.traits = work[m].traits /\ p.state = rows[row(m)].state
        BY <4>1, <4>2 DEF Profile
      <4>3. \A s \in Rows : /\ rows'[s].state = rows[s].state
                            /\ rows'[s].traits = IF s = row(m) THEN work[m].traits ELSE rows[s].traits
        BY <1>2, <2>3, <3>2, <4>2
      <4>. QED  BY <1>1, <2>3, <4>3 DEF Whole
    <3>. QED  BY <1>13, <3>1, <3>2 DEF Commit
  <2>. QED  BY <1>4, <1>5, <1>9, <2>1, <2>2, <2>4
<1>14. ASSUME NEW m \in DOMAIN work, PublishUpsert(m) PROVE Whole'
  <2>1. PICK pc : Becomes(m, pc, row(m), work[m].traits, work[m].sees)
    BY <1>1, <1>14, HandlerMoves
  <2>2. rows' = rows /\ ch' = ch /\ upserts' = upserts \cup {snapshot(m)}
    BY <1>14 DEF PublishUpsert, postgres
  <2>3. /\ row(m) \in Rows /\ row(m)[1] = msg(m).user
        /\ msg(m).user \in Foldable => Sets(msg(m).user, work[m].traits)
    <3>1. work[m].pc \in Started
      BY <1>14 DEF PublishUpsert, Stands, Started
    <3>2. row(m) \in Rows /\ row(m) # None
      BY <1>1, <3>1, WorkIs
    <3>. QED  BY <1>1, <3>2 DEF Handled, HasRow, Whole
  <2>4. snapshot(m).id = row(m) /\ snapshot(m).doc.traits = work[m].traits
    BY DEF snapshot, Live
  <2>5. UpsertsWhole
    BY <1>1, <2>2, <2>3, <2>4 DEF Whole
  <2>. QED  BY <1>4, <1>5, <1>9, <2>1, <2>2, <2>5
<1>15. ASSUME NEW m \in DOMAIN work, PublishTombstone(m) PROVE Whole'
  <2>1. Becomes(m, "claim", row(m), work[m].traits, work[m].sees)
    BY <1>1, <1>15, HandlerMoves
  <2>2. rows' = rows /\ ch' = ch /\ upserts' = upserts \cup {[id |-> msg(m).anon, doc |-> Deleted]}
    BY <1>15 DEF PublishTombstone, postgres
  <2>3. msg(m).anon \in Anons
    BY <1>1, <1>15, WorkIs DEF PublishTombstone, Stands, Merging
  <2>4. UpsertsWhole
    BY <1>1, <1>2, <2>2, <2>3 DEF Whole
  <2>. QED  BY <1>4, <1>5, <1>9, <2>1, <2>2, <2>4
<1>16. ASSUME NEW m \in DOMAIN work, PublishAlias(m) PROVE Whole'
  <2>1. Becomes(m, "settled", row(m), work[m].traits, work[m].sees)
    BY <1>1, <1>16, HandlerMoves
  <2>2. rows' = rows /\ ch' = ch /\ upserts' \subseteq upserts
    BY <1>16 DEF PublishAlias, postgres
  <2>. QED  BY <1>4, <1>5, <1>9, <2>1, <2>2
<1>17. CASE Insert
  <2>1. PICK u \in upserts : ch' = [ch EXCEPT ![u.id] = u.doc]
    BY <1>17 DEF Insert
  <2>2. \A i \in Ids : ch'[i] = IF i = u.id THEN u.doc ELSE ch[i]
    BY <1>2, <2>1
  <2>3. ChWhole
    BY <1>1, <1>2, <2>2 DEF Whole
  <2>4. rows' = rows /\ upserts' \subseteq upserts /\ work' = work
    BY <1>17 DEF Insert, postgres
  <2>5. \A n \in DOMAIN work' : WorkWhole(n)
    BY <1>7, <2>4
  <2>. QED  BY <1>4, <1>5, <2>3, <2>4, <2>5
<1>18. CASE Delete
  <2>1. PICK r \in Rows : rows[r].state = "live" /\ rows' = [rows EXCEPT ![r].state = "deleted"]
    BY <1>18 DEF Delete
  <2>2. \A s \in Rows : rows'[s].traits = rows[s].traits /\ (rows'[s].state # "none" => rows[s].state # "none")
    <3>1. rows[r] \in Profile
      BY <1>2
    <3>2. ASSUME NEW p, p = [rows[r] EXCEPT !.state = "deleted"]
          PROVE  p.traits = rows[r].traits /\ p.state = "deleted"
      BY <3>1, <3>2 DEF Profile
    <3>. QED  BY <1>2, <2>1, <3>2
  <2>3. RowsWhole
    BY <1>1, <2>2 DEF Whole
  <2>4. ch' = ch /\ upserts' \subseteq upserts /\ work' = work
    BY <1>18 DEF Delete, mirror
  <2>5. \A n \in DOMAIN work' : WorkWhole(n)
    BY <1>7, <2>4
  <2>. QED  BY <1>4, <1>5, <2>3, <2>4, <2>5
<1>19. CASE Publish \/ SendAgain \/ InsertAlias \/ UNCHANGED identifyVars
  <2>1. rows' = rows /\ ch' = ch /\ upserts' \subseteq upserts
    BY <1>19 DEF Publish, SendAgain, InsertAlias, identifyVars, postgres, mirror
  <2>2. \A n \in DOMAIN work' : WorkWhole(n)
    <3>1. CASE work' = work
      BY <1>7, <3>1
    <3>2. CASE Publish
      <4>1. PICK new : work' = Append(work, new) /\ new.row = None
        BY <3>2 DEF Publish
      <4>2. \A n \in DOMAIN work' : (n \in DOMAIN work /\ work'[n] = work[n]) \/ work'[n].row = None
        BY <1>1, <4>1
      <4>. QED  BY <1>7, <1>8, <4>2
    <3>. QED  BY <1>19, <3>1, <3>2 DEF SendAgain, InsertAlias, identifyVars
  <2>. QED  BY <1>4, <1>5, <2>1, <2>2
<1>. QED  BY <1>10, <1>11, <1>12, <1>13, <1>14, <1>15, <1>16, <1>17, <1>18, <1>19, NextCases DEF Step

(* The same, of what the handler's next steps depend on. *)
Goes(m, pcs) == work'[m].pc \in pcs /\ work'[m].row = row(m) /\ work'[m].msg = msg(m)

LEMMA HandlerGoes ==
  ASSUME work \in Seq(Work), NEW m \in DOMAIN work
  PROVE  /\ Upsert(m) => \E r \in Rows : /\ r \in upsertTarget(msg(m).user)
                                         /\ rows' = [rows EXCEPT ![r] = Live(over(msg(m).traits, rows[r].traits))]
                                         /\ work'[m].pc = "link" /\ work'[m].row = r /\ work'[m].msg = msg(m)
         /\ DeadLetter(m) => Goes(m, {"dead"})
         /\ Link(m) => Goes(m, {"publish", "merge"}) /\ (work'[m].pc = "publish" => msg(m).anon = None)
         /\ Merge(m) => Goes(m, {"join"}) /\ work'[m].sees = (anons[msg(m).anon].state = "live")
         /\ Join(m) => \/ Goes(m, {"publish"}) /\ rows[row(m)].state # "live"
                       \/ Goes(m, {"rejoin"}) /\ ~work[m].sees
                       \/ /\ Goes(m, {"commit"}) /\ work[m].sees
                          /\ work'[m].traits = over(rows[row(m)].traits, anons[msg(m).anon].traits)
         /\ Commit(m) => Goes(m, {"upsert"})
         /\ PublishUpsert(m) => /\ Goes(m, {"tombstone", "settled"})
                                /\ work'[m].pc = "tombstone" <=> work[m].pc = "upsert"
         /\ PublishTombstone(m) => Goes(m, {"claim"})
         /\ PublishAlias(m) => Goes(m, {"settled"})
         /\ HandlerFails(m) => Goes(m, {"queued"})
<1>1. ASSUME NEW pc, NEW r, NEW traits, NEW sees, Becomes(m, pc, r, traits, sees)
      PROVE  /\ work'[m].pc = pc /\ work'[m].row = r /\ work'[m].msg = msg(m)
             /\ work'[m].traits = traits /\ work'[m].sees = sees
  BY <1>1 DEF Becomes
<1>2. ASSUME NEW pc, Becomes(m, pc, row(m), work[m].traits, work[m].sees) PROVE Goes(m, {pc})
  BY <1>1, <1>2 DEF Goes
<1>3. Upsert(m) => \E r \in Rows : /\ r \in upsertTarget(msg(m).user)
                                   /\ rows' = [rows EXCEPT ![r] = Live(over(msg(m).traits, rows[r].traits))]
                                   /\ work'[m].pc = "link" /\ work'[m].row = r /\ work'[m].msg = msg(m)
  <2>. SUFFICES ASSUME Upsert(m)
                PROVE  \E r \in Rows : /\ r \in upsertTarget(msg(m).user)
                                       /\ rows' = [rows EXCEPT ![r] = Live(over(msg(m).traits, rows[r].traits))]
                                       /\ work'[m].pc = "link" /\ work'[m].row = r /\ work'[m].msg = msg(m)
    OBVIOUS
  <2>1. PICK r \in Rows : /\ r \in upsertTarget(msg(m).user)
                          /\ rows' = [rows EXCEPT ![r] = Live(over(msg(m).traits, rows[r].traits))]
                          /\ Becomes(m, "link", r, over(msg(m).traits, rows[r].traits), work[m].sees)
    BY HandlerMoves
  <2>. QED  BY <1>1, <2>1
<1>4. Link(m) => Goes(m, {"publish", "merge"}) /\ (work'[m].pc = "publish" => msg(m).anon = None)
  <2>. DEFINE pc == IF msg(m).anon = None THEN "publish" ELSE "merge"
  <2>1. Link(m) => Becomes(m, pc, row(m), work[m].traits, work[m].sees)
    BY HandlerMoves
  <2>2. pc \in {"publish", "merge"} /\ (pc = "publish" => msg(m).anon = None)
    OBVIOUS
  <2>. HIDE DEF pc
  <2>. QED  BY <1>1, <2>1, <2>2 DEF Goes
<1>5. Merge(m) => Goes(m, {"join"}) /\ work'[m].sees = (anons[msg(m).anon].state = "live")
  <2>. DEFINE sees == anons[msg(m).anon].state = "live"
  <2>1. Merge(m) => Becomes(m, "join", row(m), work[m].traits, sees)
    BY HandlerMoves
  <2>. HIDE DEF sees
  <2>2. Merge(m) => Goes(m, {"join"}) /\ work'[m].sees = sees
    BY <1>1, <2>1 DEF Goes
  <2>. QED  BY <2>2 DEF sees
<1>6. Join(m) => \/ Goes(m, {"publish"}) /\ rows[row(m)].state # "live"
                 \/ Goes(m, {"rejoin"}) /\ ~work[m].sees
                 \/ /\ Goes(m, {"commit"}) /\ work[m].sees
                    /\ work'[m].traits = over(rows[row(m)].traits, anons[msg(m).anon].traits)
  <2>. DEFINE joined == over(rows[row(m)].traits, anons[msg(m).anon].traits)
  <2>1. Join(m) => \/ rows[row(m)].state # "live" /\ Becomes(m, "publish", row(m), work[m].traits, work[m].sees)
                   \/ ~work[m].sees /\ Becomes(m, "rejoin", row(m), work[m].traits, work[m].sees)
                   \/ work[m].sees /\ Becomes(m, "commit", row(m), joined, work[m].sees)
    BY HandlerMoves
  <2>. HIDE DEF joined
  <2>2. Becomes(m, "commit", row(m), joined, work[m].sees) => Goes(m, {"commit"}) /\ work'[m].traits = joined
    BY <1>1 DEF Goes
  <2>. QED  BY <1>2, <2>1, <2>2 DEF joined
<1>7. PublishUpsert(m) => /\ Goes(m, {"tombstone", "settled"})
                          /\ work'[m].pc = "tombstone" <=> work[m].pc = "upsert"
  <2>. DEFINE pc == IF work[m].pc = "upsert" THEN "tombstone" ELSE "settled"
  <2>1. PublishUpsert(m) => Becomes(m, pc, row(m), work[m].traits, work[m].sees)
    BY HandlerMoves
  <2>2. pc \in {"tombstone", "settled"} /\ (pc = "tombstone" <=> work[m].pc = "upsert")
    OBVIOUS
  <2>. HIDE DEF pc
  <2>. QED  BY <1>1, <2>1, <2>2 DEF Goes
<1>8. /\ DeadLetter(m) => Goes(m, {"dead"})
      /\ Commit(m) => Goes(m, {"upsert"})
      /\ PublishTombstone(m) => Goes(m, {"claim"})
      /\ PublishAlias(m) => Goes(m, {"settled"})
      /\ HandlerFails(m) => Goes(m, {"queued"})
  BY <1>2, HandlerMoves
<1>. QED  BY <1>3, <1>4, <1>5, <1>6, <1>7, <1>8

(* A live row is told, or its handler is yet to tell it. *)
LEMMA RowsToldKept == IInv /\ [IdentifyNext]_identifyVars => RowsTold'
<1>. SUFFICES ASSUME IInv, [IdentifyNext]_identifyVars PROVE RowsTold'
  OBVIOUS
<1>1. /\ Typed /\ Handled /\ RowsTold /\ Advances /\ work \in Seq(Work)
      /\ rows \in [Rows -> Profile] /\ OneLive'
  BY StepAdvances, TypedKept DEF IInv, Typed, IdentifyTypeOK, OneLive
<1>2. \A u \in upserts' : u.doc.state # "none"
  <2>1. ASSUME NEW m \in DOMAIN work, PublishUpsert(m) \/ PublishTombstone(m) PROVE \A u \in upserts' : u.doc.state # "none"
    BY <1>1, <2>1 DEF PublishUpsert, PublishTombstone, snapshot, Live, Deleted, RowsTold
  <2>2. ASSUME upserts' \subseteq upserts PROVE \A u \in upserts' : u.doc.state # "none"
    BY <1>1, <2>2 DEF RowsTold
  <2>3. ASSUME NEW m \in DOMAIN work, Step(m) \/ HandlerFails(m), ~PublishUpsert(m), ~PublishTombstone(m)
        PROVE  upserts' \subseteq upserts
    BY <2>3 DEF Step, HandlerFails, Upsert, DeadLetter, Link, Merge, Join, Commit, PublishAlias, mirror
  <2>4. CASE Publish \/ SendAgain \/ Insert \/ InsertAlias \/ Delete \/ UNCHANGED identifyVars
    BY <2>2, <2>4 DEF Publish, SendAgain, Insert, InsertAlias, Delete, identifyVars, mirror
  <2>. QED  BY <2>1, <2>2, <2>3, <2>4, NextCases
<1>3. ASSUME NEW m \in DOMAIN work, PublishUpsert(m) PROVE Told(row(m))'
  <2>1. work'[m].row = row(m)
    BY <1>1, <1>3, HandlerGoes DEF Goes
  <2>2. \E u \in upserts' : u.id = row(m)
    <3>1. snapshot(m) \in upserts' /\ snapshot(m).id = row(m)
      BY <1>3 DEF PublishUpsert, snapshot
    <3>. QED  BY <3>1
  <2>. QED  BY <2>1, <2>2 DEF Told, row
<1>4. ASSUME NEW m \in DOMAIN work, work[m].pc \in {"tombstone", "claim", "settled"}, work'[m].row = row(m)
      PROVE  Told(row(m))'
  <2>1. row(m) \in Rows /\ Told(row(m))
    BY <1>1, <1>4, WorkIs DEF RowsTold, Started
  <2>2. \A r \in Rows : Told(r) => Told(r)'
    BY <1>1 DEF Advances
  <2>3. row(m)' = row(m)
    BY <1>4 DEF row
  <2>. QED  BY <2>1, <2>2, <2>3 DEF Told
<1>5. ASSUME NEW n \in DOMAIN work', work'[n].pc \in {"tombstone", "claim", "settled"} PROVE Told(row(n))'
  <2>1. CASE n \in DOMAIN work /\ work'[n] = work[n]
    BY <1>4, <1>5, <2>1 DEF row
  <2>2. CASE work'[n].pc = "queued"
    BY <1>5, <2>2
  <2>3. CASE n \in DOMAIN work /\ (Step(n) \/ HandlerFails(n))
    <3>1. CASE PublishUpsert(n)
      BY <1>3, <2>3, <3>1
    <3>2. CASE PublishTombstone(n) \/ PublishAlias(n)
      <4>1. work[n].pc \in {"tombstone", "claim"} /\ work'[n].row = row(n)
        BY <1>1, <2>3, <3>2, HandlerGoes DEF Goes, PublishTombstone, PublishAlias, Stands
      <4>. QED  BY <1>4, <2>3, <4>1
    <3>3. CASE Upsert(n) \/ Merge(n) \/ Commit(n) \/ DeadLetter(n) \/ HandlerFails(n)
      <4>1. work'[n].pc \in {"link", "join", "upsert", "dead", "queued"}
        BY <1>1, <2>3, <3>3, HandlerGoes DEF Goes
      <4>. QED  BY <1>5, <4>1
    <3>4. CASE Link(n)
      <4>1. work'[n].pc \in {"publish", "merge"}
        BY <1>1, <2>3, <3>4, HandlerGoes DEF Goes
      <4>. QED  BY <1>5, <4>1
    <3>5. CASE Join(n)
      <4>1. work'[n].pc \in {"publish", "rejoin", "commit"}
        BY <1>1, <2>3, <3>5, HandlerGoes DEF Goes
      <4>. QED  BY <1>5, <4>1
    <3>. QED  BY <2>3, <3>1, <3>2, <3>3, <3>4, <3>5 DEF Step
  <2>. QED  BY <2>1, <2>2, <2>3, WorkSteps
<1>6. ASSUME NEW r \in Rows, rows'[r].state = "live"
      PROVE  Told(r)' \/ \E n \in DOMAIN work' : row(n)' = r /\ Unfinished(n)'
  <2>1. ASSUME NEW m \in DOMAIN work, Upsert(m), rows[r].state # "live" \/ row(m) = r
        PROVE  work'[m].row = r /\ work'[m].pc = "link"
    <3>1. PICK s \in Rows : /\ s \in upsertTarget(msg(m).user)
                            /\ rows' = [rows EXCEPT ![s] = Live(over(msg(m).traits, rows[s].traits))]
                            /\ work'[m].pc = "link" /\ work'[m].row = s
      BY <1>1, <2>1, HandlerGoes DEF Goes
    <3>2. s[1] = msg(m).user /\ rows'[s].state = "live"
      BY <1>1, <2>1, <3>1, WorkIs, TargetIs DEF Live
    <3>3. CASE rows[r].state # "live"
      BY <1>1, <1>6, <3>1, <3>3
    <3>4. CASE row(m) = r
      <4>1. r # None /\ HasRow(m)
        BY <1>1, <2>1, WorkIs DEF Handled
      <4>2. r[1] = s[1]
        BY <3>2, <3>4, <4>1 DEF HasRow
      <4>. QED  BY <1>1, <1>6, <3>1, <3>2, <4>2 DEF OneLive
    <3>. QED  BY <2>1, <3>1, <3>3, <3>4
  <2>2. CASE rows[r].state # "live"
    <3>1. ASSUME NEW m \in DOMAIN work, Commit(m) PROVE \A s \in Rows : rows'[s].state = rows[s].state
      <4>1. row(m) \in Rows
        BY <1>1, <3>1, WorkIs DEF Commit, Stands, Started
      <4>2. rows[row(m)] \in Profile
        BY <1>1, <4>1
      <4>3. ASSUME NEW p, p = [rows[row(m)] EXCEPT !.traits = work[m].traits] PROVE p.state = rows[row(m)].state
        BY <4>2, <4>3 DEF Profile
      <4>. QED  BY <1>1, <3>1, <4>1, <4>3 DEF Commit
    <3>2. ASSUME NEW m \in DOMAIN work, Step(m) \/ HandlerFails(m), ~Upsert(m), ~Commit(m) PROVE rows' = rows
      BY <3>2 DEF Step, HandlerFails, DeadLetter, Link, Merge, Join, PublishUpsert, PublishTombstone, PublishAlias, postgres
    <3>3. ~(Publish \/ SendAgain \/ Insert \/ InsertAlias \/ UNCHANGED identifyVars)
      BY <1>6, <2>2 DEF Publish, SendAgain, Insert, InsertAlias, identifyVars, postgres
    <3>4. ~Delete
      <4>. SUFFICES ASSUME Delete PROVE FALSE
        OBVIOUS
      <4>1. PICK s \in Rows : rows' = [rows EXCEPT ![s].state = "deleted"]
        BY DEF Delete
      <4>2. ASSUME NEW p, p = [rows[s] EXCEPT !.state = "deleted"] PROVE p.state = "deleted"
        BY <1>1, <4>2 DEF Profile
      <4>. QED  BY <1>1, <1>6, <2>2, <4>1, <4>2
    <3>5. PICK m \in DOMAIN work : Upsert(m)
      BY <1>6, <2>2, <3>1, <3>2, <3>3, <3>4, NextCases
    <3>6. work'[m].row = r /\ work'[m].pc = "link" /\ m \in DOMAIN work'
      BY <1>1, <2>1, <2>2, <3>5, WorkSteps
    <3>. QED  BY <3>6 DEF row, Unfinished
  <2>3. CASE rows[r].state = "live" /\ Told(r)
    BY <1>1, <2>3 DEF Advances
  <2>4. CASE \E m \in DOMAIN work : row(m) = r /\ Unfinished(m)
    <3>1. PICK m \in DOMAIN work : row(m) = r /\ Unfinished(m)
      BY <2>4
    <3>2. m \in DOMAIN work'
      BY WorkSteps
    <3>3. CASE work'[m] = work[m]
      BY <3>1, <3>2, <3>3 DEF row, Unfinished
    <3>4. CASE Upsert(m)
      BY <2>1, <3>1, <3>2, <3>4 DEF row, Unfinished
    <3>5. CASE PublishUpsert(m)
      <4>1. Told(row(m))' /\ work'[m].row = r
        BY <1>1, <1>3, <3>1, <3>5, HandlerGoes DEF Goes
      <4>. QED  BY <4>1 DEF Told, row
    <3>6. CASE PublishAlias(m)
      <4>1. work[m].pc = "claim" /\ work'[m].row = r
        BY <1>1, <3>1, <3>6, HandlerGoes DEF Goes, PublishAlias, Stands
      <4>2. Told(row(m))'
        BY <1>4, <3>1, <4>1
      <4>. QED  BY <4>1, <4>2 DEF Told, row
    <3>7. CASE DeadLetter(m)
      <4>1. msg(m).nul /\ HasRow(m) /\ r # None
        BY <1>1, <3>1, <3>7, WorkIs DEF DeadLetter, Handled
      <4>. QED  BY <3>1, <4>1 DEF HasRow
    <3>8. CASE Merge(m) \/ Commit(m) \/ PublishTombstone(m) \/ HandlerFails(m)
      <4>1. work'[m].row = r /\ work'[m].pc \in {"join", "upsert", "claim", "queued"}
        BY <1>1, <3>1, <3>8, HandlerGoes DEF Goes
      <4>. QED  BY <3>2, <4>1 DEF row, Unfinished
    <3>9. CASE Link(m) \/ Join(m)
      <4>1. work'[m].row = r /\ work'[m].pc \in {"publish", "merge", "rejoin", "commit"}
        <5>1. Link(m) => work'[m].row = r /\ work'[m].pc \in {"publish", "merge"}
          BY <1>1, <3>1, HandlerGoes DEF Goes
        <5>2. Join(m) => work'[m].row = r /\ work'[m].pc \in {"publish", "rejoin", "commit"}
          BY <1>1, <3>1, HandlerGoes DEF Goes
        <5>. QED  BY <3>9, <5>1, <5>2
      <4>. QED  BY <3>2, <4>1 DEF row, Unfinished
    <3>. QED  BY <3>2, <3>3, <3>4, <3>5, <3>6, <3>7, <3>8, <3>9, WorkSteps DEF Step
  <2>. QED  BY <1>1, <2>2, <2>3, <2>4 DEF RowsTold
<1>. QED  BY <1>2, <1>5, <1>6 DEF RowsTold
(* Who claims an anonymous id, and who retires its profile. *)
LEMMA AnonsChange ==
  ASSUME IInv, [IdentifyNext]_identifyVars
  PROVE  /\ \A a \in Anons : aliases'[a] # None => Claimed(a)
         /\ \A c \in claims' : \/ c \in claims
                               \/ \E m \in DOMAIN work : PublishAlias(m) /\ c = <<msg(m).anon, row(m)>>
         /\ \A a \in Anons : /\ anons'[a].state # "none" => anons[a].state # "none"
                             /\ anons'[a].state = "deleted" =>
                                  \/ anons[a].state = "deleted"
                                  \/ \E m \in DOMAIN work :
                                       Commit(m) /\ msg(m).anon = a /\ anons[a].state = "live"
<1>1. /\ Typed /\ Handled /\ anons \in [Anons -> Profile] /\ claims \subseteq Anons \X Rows
      /\ aliases \in [Anons -> Rows \cup {None}]
  BY DEF IInv, Typed, IdentifyTypeOK
<1>2. \A a \in Anons : aliases'[a] # None => Claimed(a)
  <2>1. CASE InsertAlias
    <3>1. PICK c \in claims : aliases' = [aliases EXCEPT ![c[1]] = c[2]]
      BY <2>1 DEF InsertAlias
    <3>. QED  BY <1>1, <3>1 DEF Claimed
  <2>2. ASSUME ~InsertAlias PROVE aliases' = aliases
    BY <2>2, NextCases DEF Publish, SendAgain, Insert, Delete, identifyVars, mirror, Step, HandlerFails, Upsert,
       DeadLetter, Link, Merge, Join, Commit, PublishUpsert, PublishTombstone, PublishAlias
  <2>. QED  BY <2>1, <2>2 DEF Claimed
<1>3. ASSUME NEW c \in claims', c \notin claims
      PROVE  \E m \in DOMAIN work : PublishAlias(m) /\ c = <<msg(m).anon, row(m)>>
  <2>1. ASSUME NEW m \in DOMAIN work, Step(m) \/ HandlerFails(m), ~PublishAlias(m) PROVE claims' = claims
    BY <2>1 DEF Step, HandlerFails, Upsert, DeadLetter, Link, Merge, Join, Commit, PublishUpsert, PublishTombstone,
       mirror
  <2>2. ~(Publish \/ SendAgain \/ Insert \/ InsertAlias \/ Delete \/ UNCHANGED identifyVars)
    BY <1>3 DEF Publish, SendAgain, Insert, InsertAlias, Delete, identifyVars, mirror
  <2>3. PICK m \in DOMAIN work : PublishAlias(m)
    BY <1>3, <2>1, <2>2, NextCases
  <2>. QED  BY <1>3, <2>3 DEF PublishAlias
<1>4. ASSUME NEW a \in Anons
      PROVE  /\ anons'[a].state # "none" => anons[a].state # "none"
             /\ anons'[a].state = "deleted" =>
                  \/ anons[a].state = "deleted"
                  \/ \E m \in DOMAIN work : Commit(m) /\ msg(m).anon = a /\ anons[a].state = "live"
  <2>1. ASSUME NEW m \in DOMAIN work, Commit(m)
        PROVE  /\ anons'[a].state # "none" => anons[a].state # "none"
               /\ anons'[a].state = "deleted" =>
                    anons[a].state = "deleted" \/ (msg(m).anon = a /\ anons[a].state = "live")
    <3>1. msg(m).anon \in Anons
      BY <1>1, <2>1, WorkIs DEF Commit, Stands, Merging
    <3>2. ASSUME NEW p \in Profile, NEW q, q = [p EXCEPT !.state = IF @ = "live" THEN "deleted" ELSE @]
          PROVE  /\ q.state # "none" => p.state # "none"
                 /\ q.state = "deleted" => p.state \in {"live", "deleted"}
      BY <3>2 DEF Profile
    <3>3. \A b \in Anons : b # msg(m).anon => anons'[b] = anons[b]
      BY <1>1, <2>1, <3>1 DEF Commit, Retired
    <3>4. anons'[msg(m).anon] = [anons[msg(m).anon] EXCEPT !.state = IF @ = "live" THEN "deleted" ELSE @]
      BY <1>1, <2>1, <3>1 DEF Commit, Retired
    <3>. QED  BY <1>1, <3>1, <3>2, <3>3, <3>4
  <2>2. ASSUME NEW m \in DOMAIN work, Step(m) \/ HandlerFails(m), ~Commit(m) PROVE anons' = anons
    BY <2>2 DEF Step, HandlerFails, Upsert, DeadLetter, Link, Merge, Join, PublishUpsert, PublishTombstone,
       PublishAlias, postgres
  <2>3. CASE Publish \/ SendAgain \/ Insert \/ InsertAlias \/ Delete \/ UNCHANGED identifyVars
    BY <2>3 DEF Publish, SendAgain, Insert, InsertAlias, Delete, identifyVars, postgres
  <2>. QED  BY <2>1, <2>2, <2>3, NextCases
<1>. QED  BY <1>2, <1>3, <1>4

(* A merge that commits leaves no device with the profile, and its traits with its person. *)
LEMMA CommitMerges ==
  ASSUME IInv, NEW m \in DOMAIN work, Commit(m)
  PROVE  /\ msg(m).anon \in Anons /\ row(m) \in Rows /\ Merged(msg(m).anon)'
         /\ anons[msg(m).anon].state = "live" => Keeps(rows'[row(m)].traits)
<1>1. Typed /\ Handled /\ rows \in [Rows -> Profile] /\ anons \in [Anons -> Profile] /\ InMerge(m)
  BY DEF IInv, Typed, IdentifyTypeOK, AnonsMerged
<1>2. msg(m).anon \in Anons /\ row(m) \in Rows /\ row(m) \notin Anons
  <2>1. msg(m).anon \in Anons /\ row(m) \in Rows
    BY <1>1, WorkIs DEF Commit, Stands, Merging, Started
  <2>. QED  BY <2>1, IdentifyAssumption DEF Rows
<1>3. anons'[msg(m).anon].state # "live"
  <2>1. ASSUME NEW p \in Profile, NEW q, q = [p EXCEPT !.state = IF @ = "live" THEN "deleted" ELSE @]
        PROVE  q.state # "live"
    BY <2>1 DEF Profile
  <2>2. anons'[msg(m).anon] = [anons[msg(m).anon] EXCEPT !.state = IF @ = "live" THEN "deleted" ELSE @]
    BY <1>1, <1>2 DEF Commit, Retired
  <2>. QED  BY <1>1, <1>2, <2>1, <2>2
<1>4. device' # msg(m).anon
  BY <1>2 DEF Commit, Reassigned
<1>5. Merged(msg(m).anon)'
  <2>. DEFINE a == msg(m).anon
  <2>1. msg(m)' = msg(m)
    BY <1>1, HandlerGoes DEF Goes, msg, Typed
  <2>. QED  BY <1>3, <1>4, <2>1 DEF Merged
<1>6. ASSUME anons[msg(m).anon].state = "live" PROVE Keeps(rows'[row(m)].traits)
  <2>1. Stands(m, "commit") /\ Keeps(work[m].traits)
    BY <1>1, <1>6 DEF Commit, InMerge, Stands
  <2>2. rows'[row(m)] = [rows[row(m)] EXCEPT !.traits = work[m].traits]
    BY <1>1, <1>2, <2>1 DEF Commit
  <2>3. ASSUME NEW p \in Profile, NEW q, NEW t, q = [p EXCEPT !.traits = t] PROVE q.traits = t
    BY <2>3 DEF Profile
  <2>. QED  BY <1>1, <1>2, <2>1, <2>2, <2>3
<1>. QED  BY <1>2, <1>5, <1>6
(* An anonymous profile that is claimed stays merged; a handler's merge goes on from what it saw. *)
LEMMA AnonsMergedKept == IInv /\ [IdentifyNext]_identifyVars => AnonsMerged'
<1>. SUFFICES ASSUME IInv, [IdentifyNext]_identifyVars PROVE AnonsMerged'
  OBVIOUS
<1>1. /\ Typed /\ Handled /\ Advances /\ work \in Seq(Work) /\ claims \subseteq Anons \X Rows
      /\ rows \in [Rows -> Profile] /\ anons \in [Anons -> Profile] /\ batch \in Batches
  BY StepAdvances DEF IInv, Typed, IdentifyTypeOK
<1>2. /\ \A a \in Anons : AnonKept(a)
      /\ \A c \in claims : Merged(c[1])
      /\ \A m \in DOMAIN work : InMerge(m)
  BY DEF IInv, AnonsMerged
<1>3. \A a \in Anons : Merged(a) => Merged(a)'
  BY <1>1 DEF Advances, Merged
<1>4. ASSUME NEW a \in Anons PROVE AnonKept(a)'
  <2>1. aliases'[a] # None => Merged(a)'
    <3>1. ASSUME Claimed(a) PROVE Merged(a)
      BY <1>2, <3>1 DEF Claimed, AnonKept
    <3>. QED  BY <1>3, <3>1, AnonsChange
  <2>2. ASSUME anons[a].state = "deleted"
        PROVE  Merged(a)' /\ \E r \in Rows : Keeps(rows'[r].traits)
    <3>1. Merged(a) /\ \E r \in Rows : Keeps(rows[r].traits)
      BY <1>2, <2>2 DEF AnonKept
    <3>. QED  BY <1>1, <1>3, <3>1 DEF Advances
  <2>3. ASSUME NEW m \in DOMAIN work, Commit(m), msg(m).anon = a, anons[a].state = "live"
        PROVE  Merged(a)' /\ \E r \in Rows : Keeps(rows'[r].traits)
    <3>1. Merged(msg(m).anon)' /\ row(m) \in Rows /\ Keeps(rows'[row(m)].traits)
      BY <2>3, CommitMerges
    <3>2. msg(m)' = msg(m)
      BY <1>1, <2>3, HandlerGoes DEF Goes, msg
    <3>. QED  BY <2>3, <3>1, <3>2 DEF Merged
  <2>4. anons'[a].state = "deleted" => Merged(a)' /\ \E r \in Rows : Keeps(rows'[r].traits)
    BY <2>2, <2>3, AnonsChange
  <2>5. anons'[a].state # "none" => Keeps(anons'[a].traits)
    <3>1. anons'[a].state # "none" => anons[a].state # "none" /\ Keeps(anons[a].traits)
      BY <1>2, AnonsChange DEF AnonKept
    <3>. QED  BY <1>1, <3>1 DEF Advances
  <2>. QED  BY <2>1, <2>4, <2>5 DEF AnonKept, Keeps, Merged
<1>5. ASSUME NEW c \in claims' PROVE Merged(c[1])'
  <2>1. CASE c \in claims
    <3>1. Merged(c[1]) /\ c[1] \in Anons
      BY <1>1, <1>2, <2>1
    <3>. QED  BY <1>3, <3>1 DEF Merged
  <2>2. CASE \E m \in DOMAIN work : PublishAlias(m) /\ c = <<msg(m).anon, row(m)>>
    <3>1. PICK m \in DOMAIN work : PublishAlias(m) /\ c = <<msg(m).anon, row(m)>>
      BY <2>2
    <3>2. work[m].pc = "claim" /\ msg(m).anon \in Anons
      BY <1>1, <3>1, WorkIs DEF PublishAlias, Stands, Merging
    <3>3. Merged(msg(m).anon)
      BY <1>2, <3>2 DEF InMerge
    <3>4. c[1] = msg(m).anon
      BY <3>1
    <3>. QED  BY <1>3, <3>2, <3>3, <3>4 DEF Merged
  <2>. QED  BY <2>1, <2>2, AnonsChange
<1>6. ASSUME NEW n \in DOMAIN work' PROVE InMerge(n)'
  <2>1. CASE work'[n].pc \notin {"join", "commit", "rejoin", "upsert", "tombstone", "claim"}
    BY <2>1 DEF InMerge
  <2>2. ASSUME n \in DOMAIN work, work[n].pc \in Merging
        PROVE  /\ InMerge(n) /\ msg(n).anon \in Anons /\ row(n) \in Rows /\ msg(n)' = msg(n)
               /\ Merged(msg(n).anon) => Merged(msg(n).anon)'
               /\ anons[msg(n).anon].state # "live" => anons'[msg(n).anon].state # "live"
               /\ anons'[msg(n).anon].traits = anons[msg(n).anon].traits
    <3>1. InMerge(n) /\ msg(n).anon \in Anons /\ row(n) \in Rows /\ msg(n)' = msg(n)
      BY <1>1, <1>2, <2>2, WorkIs, WorkSteps DEF Merging, Started, msg
    <3>2. Merged(msg(n).anon) => Merged(msg(n).anon)'
      BY <1>3, <3>1 DEF Merged
    <3>. QED  BY <1>1, <3>1, <3>2 DEF Advances
  <2>3. CASE n \in DOMAIN work /\ work'[n] = work[n]
    <3>1. CASE work[n].pc \in Merging
      BY <2>2, <2>3, <3>1 DEF InMerge, Merged
    <3>2. CASE work[n].pc \notin Merging
      BY <2>1, <2>3, <3>2 DEF Merging
    <3>. QED  BY <3>1, <3>2
  <2>4. CASE n \in DOMAIN work /\ (Step(n) \/ HandlerFails(n))
    <3>1. CASE Upsert(n) \/ DeadLetter(n) \/ PublishAlias(n) \/ HandlerFails(n)
      <4>1. work'[n].pc \in {"link", "dead", "settled", "queued"}
        BY <1>1, <2>4, <3>1, HandlerGoes DEF Goes
      <4>. QED  BY <2>1, <4>1
    <3>2. CASE Link(n)
      <4>1. work'[n].pc \in {"publish", "merge"}
        BY <1>1, <2>4, <3>2, HandlerGoes DEF Goes
      <4>. QED  BY <2>1, <4>1
    <3>3. CASE Merge(n)
      <4>1. work[n].pc \in Merging /\ anons' = anons
        BY <3>3 DEF Merge, Stands, Merging, postgres
      <4>2. work'[n].pc = "join" /\ work'[n].sees = (anons[msg(n).anon].state = "live")
        BY <1>1, <2>4, <3>3, HandlerGoes DEF Goes
      <4>3. anons[msg(n).anon].state = "live" => Keeps(anons[msg(n).anon].traits)
        BY <1>2, <2>2, <2>4, <4>1 DEF AnonKept
      <4>. QED  BY <2>2, <2>4, <4>1, <4>2, <4>3 DEF InMerge, Keeps
    <3>4. CASE Join(n)
      <4>1. work[n].pc = "join" /\ work[n].pc \in Merging /\ anons' = anons
        BY <3>4 DEF Join, Stands, Merging, postgres
      <4>2. CASE Goes(n, {"publish"})
        BY <2>1, <4>2 DEF Goes
      <4>3. CASE Goes(n, {"rejoin"}) /\ ~work[n].sees
        BY <2>2, <2>4, <4>1, <4>3 DEF InMerge, Goes
      <4>4. CASE /\ Goes(n, {"commit"}) /\ work[n].sees
                 /\ work'[n].traits = over(rows[row(n)].traits, anons[msg(n).anon].traits)
        <5>1. Keeps(anons[msg(n).anon].traits) /\ msg(n).anon \in Anons /\ row(n) \in Rows
          BY <2>2, <2>4, <4>1, <4>4 DEF InMerge
        <5>2. rows[row(n)].traits \in [Keys -> Values] /\ anons[msg(n).anon].traits \in [Keys -> Values]
          BY <1>1, <5>1, TraitsOK
        <5>3. Keeps(over(rows[row(n)].traits, anons[msg(n).anon].traits))
          BY <5>1, <5>2, OverIs DEF Keeps
        <5>. QED  BY <4>4, <5>3 DEF InMerge, Goes, Keeps
      <4>. QED  BY <1>1, <2>4, <3>4, <4>2, <4>3, <4>4, HandlerGoes
    <3>5. CASE Commit(n)
      <4>1. Merged(msg(n).anon)' /\ work'[n].pc = "upsert"
        BY <1>1, <2>4, <3>5, CommitMerges, HandlerGoes DEF Goes
      <4>. QED  BY <4>1 DEF InMerge
    <3>6. CASE PublishUpsert(n)
      <4>1. CASE work[n].pc = "upsert"
        <5>1. work'[n].pc = "tombstone" /\ work[n].pc \in Merging
          BY <1>1, <2>4, <3>6, <4>1, HandlerGoes DEF Goes, Merging
        <5>. QED  BY <2>2, <2>4, <4>1, <5>1 DEF InMerge
      <4>2. CASE work[n].pc # "upsert"
        <5>1. work'[n].pc = "settled"
          BY <1>1, <2>4, <3>6, <4>2, HandlerGoes DEF Goes
        <5>. QED  BY <2>1, <5>1
      <4>. QED  BY <4>1, <4>2
    <3>7. CASE PublishTombstone(n)
      <4>1. work[n].pc = "tombstone" /\ work[n].pc \in Merging /\ work'[n].pc = "claim"
        BY <1>1, <2>4, <3>7, HandlerGoes DEF Goes, PublishTombstone, Stands, Merging
      <4>. QED  BY <2>2, <2>4, <4>1 DEF InMerge
    <3>. QED  BY <2>4, <3>1, <3>2, <3>3, <3>4, <3>5, <3>6, <3>7 DEF Step
  <2>. QED  BY <2>1, <2>3, <2>4, WorkSteps
<1>. QED  BY <1>4, <1>5, <1>6 DEF AnonsMerged
(* Whoever committed a merge tells it, at this delivery or the next. *)
LEMMA MergesToldKept == IInv /\ [IdentifyNext]_identifyVars => MergesTold'
<1>. SUFFICES ASSUME IInv, [IdentifyNext]_identifyVars PROVE MergesTold'
  OBVIOUS
<1>1. /\ Typed /\ Handled /\ MergesTold /\ Advances /\ work \in Seq(Work)
      /\ rows \in [Rows -> Profile] /\ \A r \in Rows : r \notin Anons
  BY StepAdvances, IdentifyAssumption DEF IInv, Typed, IdentifyTypeOK, Rows
<1>2. \A u \in upserts' : u.id \in Anons => u.doc = Deleted
  <2>1. ASSUME NEW m \in DOMAIN work, PublishUpsert(m) PROVE \A u \in upserts' : u.id \in Anons => u.doc = Deleted
    <3>1. row(m) \in Rows
      BY <1>1, <2>1, WorkIs DEF PublishUpsert, Stands, Started
    <3>. QED  BY <1>1, <2>1, <3>1 DEF PublishUpsert, snapshot, MergesTold
  <2>2. ASSUME NEW m \in DOMAIN work, PublishTombstone(m) PROVE \A u \in upserts' : u.id \in Anons => u.doc = Deleted
    BY <1>1, <2>2 DEF PublishTombstone, MergesTold
  <2>3. ASSUME upserts' \subseteq upserts PROVE \A u \in upserts' : u.id \in Anons => u.doc = Deleted
    BY <1>1, <2>3 DEF MergesTold
  <2>4. ASSUME NEW m \in DOMAIN work, Step(m) \/ HandlerFails(m), ~PublishUpsert(m), ~PublishTombstone(m)
        PROVE  upserts' \subseteq upserts
    BY <2>4 DEF Step, HandlerFails, Upsert, DeadLetter, Link, Merge, Join, Commit, PublishAlias, mirror
  <2>5. CASE Publish \/ SendAgain \/ Insert \/ InsertAlias \/ Delete \/ UNCHANGED identifyVars
    BY <2>3, <2>5 DEF Publish, SendAgain, Insert, InsertAlias, Delete, identifyVars, mirror
  <2>. QED  BY <2>1, <2>2, <2>3, <2>4, <2>5, NextCases
<1>3. ASSUME NEW a \in Anons, anons'[a].state = "deleted"
      PROVE  \/ Claimed(a)' /\ Tombed(a)'
             \/ \E n \in DOMAIN work' : Tells(n, a)'
             \/ SomeDeleted'
  <2>1. ASSUME NEW m \in DOMAIN work, work'[m].pc \in {"queued", "link", "merge", "join", "commit", "rejoin", "upsert",
                                                       "tombstone"},
               msg(m).anon = a, ~msg(m).nul
        PROVE  \E n \in DOMAIN work' : Tells(n, a)'
    <3>1. m \in DOMAIN work' /\ work'[m].msg = msg(m)
      BY <2>1, WorkSteps DEF msg
    <3>. QED  BY <2>1, <3>1 DEF Tells, Unfinished, msg
  <2>2. CASE \E m \in DOMAIN work : Commit(m) /\ msg(m).anon = a
    <3>1. PICK m \in DOMAIN work : Commit(m) /\ msg(m).anon = a
      BY <2>2
    <3>2. ~msg(m).nul
      <4>1. HasRow(m) /\ row(m) # None
        BY <1>1, <3>1, WorkIs DEF Handled, HasRow, Commit, Stands, Started
      <4>. QED  BY <4>1 DEF HasRow
    <3>3. work'[m].pc = "upsert"
      BY <1>1, <3>1, HandlerGoes DEF Goes
    <3>. QED  BY <2>1, <3>1, <3>2, <3>3
  <2>3. CASE Claimed(a) /\ Tombed(a)
    BY <1>1, <2>3 DEF Advances
  <2>4. CASE SomeDeleted
    BY <1>1, <2>4 DEF Advances, SomeDeleted
  <2>5. CASE \E m \in DOMAIN work : Tells(m, a)
    <3>1. PICK m \in DOMAIN work : Tells(m, a)
      BY <2>5
    <3>2. msg(m).anon = a /\ ~msg(m).nul /\ work[m].pc # "publish" /\ a # None /\ HasRow(m)
      BY <1>1, <3>1, WorkIs DEF Tells, Handled
    <3>3. CASE work'[m] = work[m]
      <4>1. m \in DOMAIN work' /\ (work[m].pc = "claim" => Tombed(a)')
        BY <1>1, <3>1, WorkSteps DEF Tells, Advances
      <4>. QED  BY <3>1, <3>3, <4>1 DEF Tells, Unfinished, msg, Tombed
    <3>4. CASE Upsert(m) \/ Merge(m) \/ Commit(m) \/ HandlerFails(m)
      <4>1. work'[m].pc \in {"link", "join", "upsert", "queued"}
        BY <1>1, <3>4, HandlerGoes DEF Goes
      <4>. QED  BY <2>1, <3>2, <4>1
    <3>5. ~DeadLetter(m)
      BY <3>2 DEF DeadLetter
    <3>6. CASE Link(m)
      <4>1. work'[m].pc = "merge"
        BY <1>1, <3>2, <3>6, HandlerGoes DEF Goes
      <4>. QED  BY <2>1, <3>2, <4>1
    <3>7. CASE Join(m)
      <4>1. CASE work'[m].pc \in {"rejoin", "commit"}
        BY <2>1, <3>2, <4>1
      <4>2. CASE rows[row(m)].state # "live"
        <5>1. row(m) \in Rows /\ rows[row(m)].state # "none"
          <6>1. row(m) \in Rows /\ row(m) # None
            BY <1>1, <3>7, WorkIs DEF Join, Stands, Started
          <6>. QED  BY <3>2, <6>1 DEF HasRow
        <5>2. rows[row(m)].state = "deleted"
          <6>1. rows[row(m)] \in Profile
            BY <1>1, <5>1
          <6>. QED  BY <4>2, <5>1, <6>1 DEF Profile
        <5>. QED  BY <1>1, <5>1, <5>2 DEF Advances, SomeDeleted
      <4>3. work'[m].pc \in {"rejoin", "commit"} \/ rows[row(m)].state # "live"
        BY <1>1, <3>7, HandlerGoes DEF Goes
      <4>. QED  BY <4>1, <4>2, <4>3
    <3>8. CASE PublishUpsert(m)
      <4>1. work'[m].pc = "tombstone"
        BY <1>1, <3>2, <3>8, HandlerGoes DEF Goes, PublishUpsert, Stands
      <4>. QED  BY <2>1, <3>2, <4>1
    <3>9. CASE PublishTombstone(m)
      <4>1. [id |-> msg(m).anon, doc |-> Deleted] \in upserts'
        BY <3>9 DEF PublishTombstone
      <4>2. \E u \in upserts' : u.id = a
        BY <3>2, <4>1
      <4>3. m \in DOMAIN work' /\ work'[m].msg = msg(m) /\ work'[m].pc = "claim"
        BY <1>1, <3>9, WorkSteps, HandlerGoes DEF Goes, msg
      <4>. QED  BY <3>2, <4>2, <4>3 DEF Tells, Unfinished, msg, Tombed
    <3>10. CASE PublishAlias(m)
      <4>1. Tombed(a)'
        <5>1. work[m].pc = "claim"
          BY <3>10 DEF PublishAlias, Stands
        <5>. QED  BY <1>1, <3>1, <5>1 DEF Tells, Advances
      <4>2. <<a, row(m)>> \in claims'
        BY <3>2, <3>10 DEF PublishAlias
      <4>3. \E c \in claims' : c[1] = a
        BY <4>2
      <4>. QED  BY <4>1, <4>3 DEF Claimed
    <3>. QED  BY <3>3, <3>4, <3>5, <3>6, <3>7, <3>8, <3>9, <3>10, WorkSteps DEF Step
  <2>. QED  BY <1>1, <1>3, <2>2, <2>3, <2>4, <2>5, AnonsChange DEF MergesTold
<1>. QED  BY <1>2, <1>3 DEF MergesTold
-----------------------------------------------------------------------------
(* The theorems. *)

(* What is said of the batch, of the stores and of every handler, at every step of any
   number of handlers, failures and redeliveries.                                    *)
THEOREM IdentifyInStep == IdentifySpec => []IInv
<1>1. IdentifyInit => IInv
  BY InitOK
<1>2. IInv /\ [IdentifyNext]_identifyVars => IInv'
  BY TypedKept, HandledKept, WholeKept, RowsToldKept, AnonsMergedKept, MergesToldKept DEF IInv
<1>. QED  BY <1>1, <1>2, PTL DEF IdentifySpec

(* The types hold, cutting a batch into messages keeps its order, and an anonymous id is
   claimed only after the merge's commit: PublishAlias comes after Commit.              *)
THEOREM IdentifyKeepsInv == IdentifySpec => []Inv
<1>1. IInv => ClaimedAfterCommit
  BY DEF IInv, AnonsMerged, AnonKept, Merged, Keeps, ClaimedAfterCommit
<1>2. IInv => Inv
  BY <1>1 DEF IInv, Typed, Coalesced, Inv
<1>. QED  BY <1>2, IdentifyInStep, PTL

(* A user whose items coalesce into one message is never seen with some of them applied,
   whatever handlers upsert, merge and fail.                                            *)
THEOREM BatchStaysInOrder == IdentifySpec => []BatchInOrder
<1>1. IInv => BatchInOrder
  BY DEF IInv, Whole, Sets, BatchInOrder, AppliedInOrder
<1>. QED  BY <1>1, IdentifyInStep, PTL

(* When every message is handled ClickHouse has what PostgreSQL has of that user. *)
THEOREM MirrorStaysInOrder == IdentifySpec => []MirroredInOrder
<1>1. IInv => MirroredInOrder
  <2>. SUFFICES ASSUME IInv, Drained, NEW r \in Rows, rows[r].state = "live", r[1] \in Foldable
                PROVE  Sets(r[1], ch[r].traits) /\ Sets(r[1], rows[r].traits)
    BY DEF MirroredInOrder, Sets
  <2>1. Told(r) \/ \E m \in DOMAIN work : row(m) = r /\ Unfinished(m)
    BY DEF IInv, RowsTold
  <2>2. ch[r].state # "none"
    BY <2>1 DEF Drained, Told, Unfinished
  <2>. QED  BY <2>2 DEF IInv, Whole
<1>. QED  BY <1>1, IdentifyInStep, PTL

(* A merge that committed is told, though its handler died in between and the next
   delivery found the anonymous profile gone.                                     *)
THEOREM MergeStaysTold == IdentifySpec => []MergeIsTold
<1>1. IInv => MergeIsTold
  <2>. SUFFICES ASSUME IInv, NEW a \in Anons, Drained, claims = {}, anons[a].state = "deleted"
                PROVE  (aliases[a] # None /\ ch[a].state = "deleted") \/ SomeDeleted
    BY DEF MergeIsTold, SomeDeleted
  <2>1. (Claimed(a) /\ Tombed(a)) \/ (\E m \in DOMAIN work : Tells(m, a)) \/ SomeDeleted
    BY DEF IInv, MergesTold
  <2>. QED  BY <2>1 DEF Drained, Claimed, Tombed, Tells, Unfinished
<1>. QED  BY <1>1, IdentifyInStep, PTL
=============================================================================
