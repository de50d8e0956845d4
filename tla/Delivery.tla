------------------------------ MODULE Delivery ------------------------------
(***************************************************************************)
(* The JetStream worker every queue consumer runs on                       *)
(* (src/internal/deps/nats/worker.go): one process, its consume loops, the *)
(* deliveries each loop has fetched, and what becomes of every message:    *)
(* ack, nak, or dead letter and Term.                                      *)
(*                                                                         *)
(* The server side (which delivery it hands out when) is external: a       *)
(* message that is not settled may be delivered again at any time, its nak *)
(* delay or its AckWait having run out, until MaxDeliver deliveries are    *)
(* used up.  A delivery waits in the loop's iterator until the loop takes  *)
(* it, so an attempt may run after a later one has settled its message.    *)
(* MaxFaults bounds the failures and restarts of a behaviour; Prefetch     *)
(* bounds the iterator's buffer.                                           *)
(***************************************************************************)
EXTENDS Naturals, Sequences

CONSTANTS
    Messages,    \* the messages of the stream
    NoMsg,       \* what an idle loop works on
    Poison,      \* those every attempt rejects with a PermanentError
    Loops,       \* WorkerConfig.Concurrency goroutines
    MaxDeliver,  \* WorkerConfig.MaxDeliver
    Prefetch,    \* deliveries an iterator buffers
    MaxErrs,     \* maxConsecutiveErrors
    MaxFaults

ASSUME DeliveryAssumption ==
    /\ Poison \subseteq Messages
    /\ NoMsg \notin Messages
    /\ MaxDeliver \in Nat \ {0}
    /\ MaxErrs \in Nat \ {0}
    /\ Prefetch \in Nat /\ MaxFaults \in Nat

VARIABLES
    proc,        \* the process: down, up, or draining after ctx is cancelled
    healthy,     \* natsWorker.healthy
    loop,        \* each consume loop
    buf,         \* each loop's iterator: deliveries fetched and not yet taken
    deliveries,  \* the server's delivery count of each message
    settled,     \* how the server was told to settle it
    handled,     \* messages a processor run carried out
    dlq,         \* messages with a copy on the DLQ subject
    dropped,     \* messages counted with outcome="dropped"
    lost,        \* history: messages whose last delivery came to nothing
    faults

server == <<deliveries, settled>>
outcome == <<handled, dlq, dropped>>
vars == <<proc, healthy, loop, buf, server, outcome, lost, faults>>

Delivered == [msg: Messages, n: 1..MaxDeliver]

LoopSteps == {"subscribe", "next", "process", "dlq", "term", "nak", "ack",
              "backoff", "exited"}
Loop == [at: LoopSteps, msg: Messages \cup {NoMsg}, n: 0..MaxDeliver,
         meta: BOOLEAN, errs: 0..(MaxErrs - 1)]
At(step) == [at |-> step, msg |-> NoMsg, n |-> 0, meta |-> TRUE, errs |-> 0]

TypeOK ==
    /\ proc \in {"down", "up", "draining"}
    /\ healthy \in BOOLEAN
    /\ loop \in [Loops -> Loop]
    /\ buf \in [Loops -> Seq(Delivered)]
    /\ deliveries \in [Messages -> 0..MaxDeliver]
    /\ settled \in [Messages -> {"open", "acked", "termed"}]
    /\ handled \subseteq Messages
    /\ dlq \subseteq Messages
    /\ dropped \subseteq Messages
    /\ lost \subseteq Messages
    /\ faults \in 0..MaxFaults

Init ==
    /\ proc = "down"
    /\ healthy = FALSE
    /\ loop = [l \in Loops |-> At("exited")]
    /\ buf = [l \in Loops |-> <<>>]
    /\ deliveries = [m \in Messages |-> 0]
    /\ settled = [m \in Messages |-> "open"]
    /\ handled = {} /\ dlq = {} /\ dropped = {} /\ lost = {}
    /\ faults = 0

-----------------------------------------------------------------------------
Faulty == faults < MaxFaults /\ faults' = faults + 1

Goto(l, step) == loop' = [loop EXCEPT ![l].at = step]
Reset(l, step) == loop' = [loop EXCEPT ![l] = At(step)]

Handling(l) == loop[l].at \in {"process", "dlq", "term", "nak", "ack"}
Running(l) == Handling(l) \/ loop[l].at = "next"

LastIn(l, m) == \E i \in 1..Len(buf[l]) : buf[l][i] = [msg |-> m, n |-> MaxDeliver]
LastBuffered(l) == {m \in Messages : LastIn(l, m)}
LastHandled(l) == {m \in Messages : Handling(l) /\ loop[l].msg = m /\ loop[l].n = MaxDeliver}

(* Stopping an iterator throws its buffered deliveries away.               *)
StopIterator(l) ==
    /\ buf' = [buf EXCEPT ![l] = <<>>]
    /\ lost' = lost \cup LastBuffered(l)

(* The end of the process throws everything in flight away.                *)
Ends ==
    /\ proc' = "down"
    /\ healthy' = FALSE
    /\ loop' = [l \in Loops |-> At("exited")]
    /\ buf' = [l \in Loops |-> <<>>]
    /\ lost' = lost \cup UNION {LastBuffered(l) \cup LastHandled(l) : l \in Loops}
    /\ UNCHANGED <<server, outcome>>

Start ==
    /\ proc = "down"
    /\ proc' = "up"
    /\ healthy' = TRUE
    /\ loop' = [l \in Loops |-> At("subscribe")]
    /\ UNCHANGED <<buf, server, outcome, lost, faults>>

(* ctx is cancelled.                                                       *)
Shutdown ==
    /\ proc = "up"
    /\ proc' = "draining"
    /\ Faulty
    /\ UNCHANGED <<healthy, loop, buf, server, outcome, lost>>

(* Start returns when the loops have, or after five seconds without them.  *)
Exit == proc = "draining" /\ Ends /\ UNCHANGED faults

Crash == proc # "down" /\ Ends /\ Faulty

-----------------------------------------------------------------------------
(* processMessages and runMessageLoop.                                     *)

(* Mutant of Subscribe: only Start marks the worker healthy.               *)
SubscribeStaysUnhealthy(l) ==
    /\ loop[l].at = "subscribe"
    /\ \/ Goto(l, "next") /\ UNCHANGED <<healthy, faults>>
       \/ Goto(l, "backoff") /\ healthy' = FALSE /\ Faulty
    /\ UNCHANGED <<proc, buf, server, outcome, lost>>

Subscribe(l) ==
    /\ loop[l].at = "subscribe"
    /\ \/ Goto(l, "next") /\ healthy' = TRUE /\ UNCHANGED faults
       \/ Goto(l, "backoff") /\ healthy' = FALSE /\ Faulty
    /\ UNCHANGED <<proc, buf, server, outcome, lost>>

(* The server hands a delivery to a loop's iterator.                       *)
Fetch(l, m) ==
    /\ Running(l)
    /\ Len(buf[l]) < Prefetch
    /\ settled[m] = "open"
    /\ deliveries[m] < MaxDeliver
    /\ deliveries' = [deliveries EXCEPT ![m] = @ + 1]
    /\ buf' = [buf EXCEPT ![l] = Append(@, [msg |-> m, n |-> deliveries[m] + 1])]
    /\ UNCHANGED <<proc, healthy, loop, settled, outcome, lost, faults>>

(* msgs.Next and handleMessage's one read of the metadata.                 *)
Take(l) ==
    /\ loop[l].at = "next"
    /\ buf[l] # <<>>
    /\ buf' = [buf EXCEPT ![l] = Tail(@)]
    /\ \E readable \in BOOLEAN :
         /\ IF readable THEN UNCHANGED faults ELSE Faulty
         /\ loop' = [loop EXCEPT ![l] =
              [at |-> "process", msg |-> Head(buf[l]).msg, n |-> Head(buf[l]).n,
               meta |-> readable, errs |-> 0]]
    /\ UNCHANGED <<proc, healthy, server, outcome, lost>>

(* Mutant of NextFails: the loop gives up without reporting it.            *)
NextFailsQuietly(l) ==
    /\ loop[l].at = "next"
    /\ Faulty
    /\ \/ /\ loop[l].errs + 1 < MaxErrs
          /\ loop' = [loop EXCEPT ![l].errs = @ + 1]
          /\ UNCHANGED <<buf, lost>>
       \/ /\ loop[l].errs + 1 >= MaxErrs
          /\ Reset(l, "exited")
          /\ StopIterator(l)
    /\ UNCHANGED <<proc, healthy, server, outcome>>

(* Mutant of NextFails: > for >= in the test.                              *)
NextFailsOneMore(l) ==
    /\ loop[l].at = "next"
    /\ Faulty
    /\ \/ /\ loop[l].errs + 1 <= MaxErrs
          /\ loop' = [loop EXCEPT ![l].errs = @ + 1]
          /\ UNCHANGED <<healthy, buf, lost>>
       \/ /\ loop[l].errs + 1 > MaxErrs
          /\ Reset(l, "backoff")
          /\ healthy' = FALSE
          /\ StopIterator(l)
    /\ UNCHANGED <<proc, server, outcome>>

(* Too many errors of msgs.Next in a row stop the iterator; the loop       *)
(* starts over after restartBackoff.                                       *)
NextFails(l) ==
    /\ loop[l].at = "next"
    /\ Faulty
    /\ \/ /\ loop[l].errs + 1 < MaxErrs
          /\ loop' = [loop EXCEPT ![l].errs = @ + 1]
          /\ UNCHANGED <<healthy, buf, lost>>
       \/ /\ loop[l].errs + 1 >= MaxErrs
          /\ Reset(l, "backoff")
          /\ healthy' = FALSE
          /\ StopIterator(l)
    /\ UNCHANGED <<proc, server, outcome>>

Restart(l) ==
    /\ loop[l].at = "backoff"
    /\ Goto(l, IF proc = "up" THEN "subscribe" ELSE "exited")
    /\ UNCHANGED <<proc, healthy, buf, server, outcome, lost, faults>>

(* ErrMsgIteratorClosed: once ctx is cancelled the iterator is stopped,    *)
(* though msgs.Next may have returned a few more deliveries by then.       *)
Closed(l) ==
    /\ loop[l].at = "next"
    /\ proc = "draining"
    /\ Reset(l, "exited")
    /\ StopIterator(l)
    /\ UNCHANGED <<proc, healthy, server, outcome, faults>>

-----------------------------------------------------------------------------
(* handleMessage.                                                          *)

isLastDelivery(l) == ~loop[l].meta \/ loop[l].n >= MaxDeliver

(* The processor carries the message out.                                  *)
Succeed(l) ==
    /\ loop[l].at = "process"
    /\ loop[l].msg \notin Poison
    /\ handled' = handled \cup {loop[l].msg}
    /\ Goto(l, "ack")
    /\ UNCHANGED <<proc, healthy, buf, server, dlq, dropped, lost, faults>>

(* It returns a PermanentError.                                            *)
Reject(l) ==
    /\ loop[l].at = "process"
    /\ loop[l].msg \in Poison
    /\ Goto(l, "dlq")
    /\ UNCHANGED <<proc, healthy, buf, server, outcome, lost, faults>>

(* Mutant of Fail: the last delivery is nak'd like the others.             *)
FailNaksLast(l) ==
    /\ loop[l].at = "process"
    /\ loop[l].msg \notin Poison
    /\ handled' \in {handled, handled \cup {loop[l].msg}}
    /\ IF proc = "up" THEN Faulty ELSE UNCHANGED faults
    /\ Goto(l, IF ~loop[l].meta \/ loop[l].n > MaxDeliver THEN "dlq" ELSE "nak")
    /\ UNCHANGED <<proc, healthy, buf, server, dlq, dropped, lost>>

(* Mutant of Fail: a retry is counted before it is made.                   *)
FailEarly(l) ==
    /\ loop[l].at = "process"
    /\ loop[l].msg \notin Poison
    /\ handled' \in {handled, handled \cup {loop[l].msg}}
    /\ IF proc = "up" THEN Faulty ELSE UNCHANGED faults
    /\ Goto(l, IF ~loop[l].meta \/ loop[l].n + 1 >= MaxDeliver THEN "dlq" ELSE "nak")
    /\ UNCHANGED <<proc, healthy, buf, server, dlq, dropped, lost>>

(* Any other error, also after its work took effect.  ctx is the parent of *)
(* the processing context, so a shutdown fails whatever is running.        *)
Fail(l) ==
    /\ loop[l].at = "process"
    /\ loop[l].msg \notin Poison
    /\ handled' \in {handled, handled \cup {loop[l].msg}}
    /\ IF proc = "up" THEN Faulty ELSE UNCHANGED faults
    /\ Goto(l, IF isLastDelivery(l) THEN "dlq" ELSE "nak")
    /\ UNCHANGED <<proc, healthy, buf, server, dlq, dropped, lost>>

(* Mutant of publishToDLQ: a failed publish goes uncounted.                *)
PublishUncounted(l) ==
    /\ loop[l].at = "dlq"
    /\ \/ dlq' = dlq \cup {loop[l].msg} /\ UNCHANGED faults
       \/ UNCHANGED dlq /\ Faulty
    /\ Goto(l, "term")
    /\ UNCHANGED <<proc, healthy, buf, server, handled, dropped, lost>>

(* publishToDLQ on a context of its own, and recordDLQOutcome: published,  *)
(* not published, or published without the answer arriving.                *)
publishToDLQ(l) ==
    /\ loop[l].at = "dlq"
    /\ \/ /\ dlq' = dlq \cup {loop[l].msg}
          /\ UNCHANGED <<dropped, faults>>
       \/ /\ dlq' \in {dlq, dlq \cup {loop[l].msg}}
          /\ dropped' = dropped \cup {loop[l].msg}
          /\ Faulty
    /\ Goto(l, "term")
    /\ UNCHANGED <<proc, healthy, buf, server, handled, lost>>

(* Term or Ack reaches the server, which ignores it for a message already  *)
(* settled, or is lost.                                                    *)
Answer(l, as) ==
    LET m == loop[l].msg
    IN  /\ \/ /\ settled' = IF settled[m] = "open" THEN [settled EXCEPT ![m] = as] ELSE settled
              /\ UNCHANGED <<lost, faults>>
           \/ /\ lost' = lost \cup LastHandled(l)
              /\ UNCHANGED settled
              /\ Faulty
        /\ Reset(l, "next")
        /\ UNCHANGED <<proc, healthy, buf, deliveries, outcome>>

Term(l) == loop[l].at = "term" /\ Answer(l, "termed")
Ack(l) == loop[l].at = "ack" /\ Answer(l, "acked")

(* NakWithDelay: the redelivery is Fetch's, whether the nak arrives or not. *)
Nak(l) ==
    /\ loop[l].at = "nak"
    /\ Reset(l, "next")
    /\ UNCHANGED <<proc, healthy, buf, server, outcome, lost, faults>>

-----------------------------------------------------------------------------
Handle(l) ==
    \/ Succeed(l) \/ Reject(l) \/ Fail(l)
    \/ publishToDLQ(l) \/ Term(l) \/ Ack(l) \/ Nak(l)

Consume(l) == Subscribe(l) \/ Take(l) \/ Restart(l) \/ Closed(l) \/ Handle(l)

Next ==
    \/ Start \/ Shutdown \/ Exit \/ Crash
    \/ \E l \in Loops : Consume(l) \/ NextFails(l)
    \/ \E l \in Loops, m \in Messages : Fetch(l, m)

Spec == Init /\ [][Next]_vars

(* The orchestrator restarts a process that ended, goroutines are          *)
(* scheduled, processors return within ProcessingTimeout, and the server   *)
(* keeps delivering what is not settled to some loop.                      *)
Fairness ==
    /\ WF_vars(Start) /\ WF_vars(Exit)
    /\ \A l \in Loops : WF_vars(Consume(l))
    /\ \A m \in Messages : WF_vars(\E l \in Loops : Fetch(l, m))
FairSpec == Spec /\ Fairness

-----------------------------------------------------------------------------
(* Properties.                                                             *)

(* The worker keeps the promise of Disposition: handle before Ack, dead    *)
(* letter or count before Term, whatever crashes or is answered late.      *)
Promise == INSTANCE Disposition WITH buried <- dlq \cup dropped, fate <- settled
PromiseKept == Promise!Spec

(* A message is given up early only when it is poison or the worker could  *)
(* not read how often it had been delivered; otherwise every one of its    *)
(* MaxDeliver deliveries has been handed out (isLastDelivery).             *)
RetriesAreUsed ==
    [][\A m \in (dlq' \cup dropped') \ (dlq \cup dropped) :
          \/ m \in Poison \/ deliveries[m] = MaxDeliver
          \/ \E l \in Loops : loop[l].msg = m /\ ~loop[l].meta]_vars

InFlight(m) ==
    \E l \in Loops :
        \/ Handling(l) /\ loop[l].msg = m
        \/ \E i \in 1..Len(buf[l]) : buf[l][i].msg = m

(* A message that will not be delivered again and is not settled is one    *)
(* whose last delivery a crash, a stopped iterator or a lost answer took:  *)
(* no path of handleMessage leaves one behind.                             *)
StrandedOnlyByLoss ==
    \A m \in Messages :
        settled[m] = "open" /\ deliveries[m] = MaxDeliver /\ ~InFlight(m) => m \in lost

(* "false means the consume loop is wedged" (Worker.HealthCheck): the      *)
(* shared flag never accuses a worker all of whose loops run.              *)
UnhealthyIsReal ==
    proc = "up" /\ ~healthy => \E l \in Loops : ~Running(l)

(* Every message is settled in the end, or its last delivery was taken.    *)
EverySettled == \A m \in Messages : <>(settled[m] # "open" \/ m \in lost)

(* A worker that stays up recovers: every loop restarts and says so.       *)
Recovers == <>[](proc = "up") => <>[](healthy /\ \A l \in Loops : Running(l))

(* Every message and every loop comes to its end. *)
GetsDone == EverySettled /\ Recovers
=============================================================================
