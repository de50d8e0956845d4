--------------------------- MODULE ErasureProofs ---------------------------
(***************************************************************************)
(* Proofs about Erasure for every set of aliases, callers and workers and  *)
(* every bound: the types, that a completed request leaves no event and no *)
(* activity row under an id it could name (CompletedErasesEvents), and, of *)
(* deliveries that do not overlap, what it leaves of the profiles and that *)
(* the ledger names all that is gone (PromiseRecorded).                    *)
(***************************************************************************)
EXTENDS Erasure, TLAPS

(* Messages, deliveries and publishing calls name rows that exist.         *)
Exists(r) == r \in Rows /\ ledger[r].status # "none"

References ==
    /\ \A m \in Msgs : msgs[m].row # 0 => Exists(msgs[m].row)
    /\ \A w \in Workers : work[w].at # "idle" => Exists(work[w].row) /\ work[w].msg \in Msgs
    /\ \A c \in Callers : call[c].at \in {"revive", "publish"} => Exists(call[c].row)

LEMMA InitTypeOK == Init => TypeOK
BY SubjectAssumption, BoundsAssumption
   DEF Init, TypeOK, Row, NoRow, Msg, NoMsg, Call, CallSteps, IdleCall, Work, IdleWork,
       Steps, Statuses, Ids, Rows, Msgs

(* Telling whom an id names reads and changes nothing but the call.        *)
LEMMA UnresolvedReads ==
    ASSUME NEW c \in Callers, Unresolved(c)
    PROVE  UNCHANGED <<ledger, msgs, work, stores, claim, faults>>
BY DEF Unresolved, ResolveAlias, ReopenCanonical, ResolveCanonical, ResolveAsExternal,
       ReopenExternal, Probe

LEMMA CallGoes ==
    ASSUME call \in [Callers -> Call], NEW c \in Callers, NEW step, CallGoto(c, step)
    PROVE  call' = [call EXCEPT ![c] = [at |-> step, profile |-> call[c].profile,
                                        external |-> call[c].external, row |-> call[c].row]]
<1>1. call[c] \in Call
  OBVIOUS
<1>2. [call[c] EXCEPT !.at = step] = [at |-> step, profile |-> call[c].profile,
                                      external |-> call[c].external, row |-> call[c].row]
  BY <1>1 DEF Call
<1>. QED  BY <1>2 DEF CallGoto

LEMMA UnresolvedCalls ==
    ASSUME TypeOK, NEW c \in Callers, Unresolved(c)
    PROVE  \/ \E p, e : Redrive(c, p, e)
           \/ \E call2 \in [at : CallSteps \ {"revive", "publish"}, profile : Ids \cup {NoId},
                             external : {External, NoId}, row : Rows \cup {0}] :
                call' = [call EXCEPT ![c] = call2]
<1>. USE SubjectAssumption DEF Call, CallSteps, Ids
<1>1. call \in [Callers -> Call] /\ call[c] \in Call
  BY DEF TypeOK
<1>2. CASE ResolveAlias(c) \/ ResolveCanonical(c) \/ ResolveAsExternal(c) \/ Probe(c)
  BY <1>1, <1>2, CallGoes DEF ResolveAlias, ResolveCanonical, ResolveAsExternal, Probe, CallInsert,
     Return, IdleCall
<1>3. CASE ReopenCanonical(c) \/ ReopenExternal(c)
  BY <1>1, <1>3, CallGoes DEF ReopenCanonical, ReopenExternal, LookupOr
<1>. QED  BY <1>2, <1>3 DEF Unresolved

LEMMA CallerTypeOK ==
    ASSUME TypeOK, NEW c \in Callers, CallerNext(c)
    PROVE  TypeOK'
<1>. USE SubjectAssumption, BoundsAssumption
     DEF TypeOK, Row, Msg, Call, CallSteps, Statuses, Ids, stores
<1>1. CASE \E id \in Ids : Request(c, id, NoId)
  BY <1>1 DEF Request, LookupOr, Redrive, Reopenable, CallRow
<1>2. CASE Request(c, NoId, External)
  BY <1>2 DEF Request, LookupOr, Redrive, Reopenable, CallRow
<1>3. CASE ResolveExternal(c)
  BY <1>3 DEF ResolveExternal, CallInsert
<1>4. CASE ResolveID(c)
  BY <1>4 DEF ResolveID, CallInsert, CallGoto
<1>5. CASE InsertRow(c)
  <2>1. PICK r \in Rows :
          /\ ledger' = [ledger EXCEPT ![r] = [status |-> "pending",
                profile |-> call[c].profile, external |-> call[c].external, ids |-> {}]]
          /\ claim' = [claim EXCEPT ![r] = Resolvable(call[c].profile, call[c].external)]
          /\ CallRow(c, "publish", r)
    BY <1>5 DEF InsertRow
  <2>2. ledger' \in [Rows -> Row]
    BY <2>1
  <2>3. Resolvable(call[c].profile, call[c].external) \subseteq Ids
    BY DEF Resolvable
  <2>4. claim' \in [Rows -> SUBSET Ids]
    BY <2>1, <2>3
  <2>5. call' \in [Callers -> Call]
    BY <2>1 DEF CallRow
  <2>. QED
    BY <1>5, <2>2, <2>4, <2>5 DEF InsertRow
<1>6. CASE InsertConflict(c)
  <2>1. ASSUME NEW p, NEW e, Redrive(c, p, e) PROVE call' \in [Callers -> Call]
    BY <2>1 DEF Redrive, Reopenable, CallRow
  <2>2. ASSUME Return(c) PROVE call' \in [Callers -> Call]
    <3>1. IdleCall \in Call
      BY DEF IdleCall
    <3>. QED  BY <2>2, <3>1 DEF Return
  <2>. QED  BY <1>6, <2>1, <2>2 DEF InsertConflict, LookupOr
<1>7. CASE Revive(c)
  <2>1. ledger' \in [Rows -> Row]
    BY <1>7 DEF Revive
  <2>2. call' \in [Callers -> Call]
    BY <1>7 DEF Revive, Return, IdleCall
  <2>. QED
    BY <1>7, <2>1, <2>2 DEF Revive
<1>8. CASE Publish(c)
  BY <1>8 DEF Publish, Return, IdleCall
<1>9. CASE CallFails(c)
  BY <1>9 DEF CallFails, Return, IdleCall
<1>10. CASE Unresolved(c)
  BY <1>10, UnresolvedCalls, UnresolvedReads DEF Redrive, Reopenable, CallRow
<1>. QED
  BY <1>1, <1>2, <1>3, <1>4, <1>5, <1>6, <1>7, <1>8, <1>9, <1>10, SubjectAssumption
     DEF CallerNext

(* How a worker moves on keeps work and faults well-formed.               *)
LEMMA WorkMoves ==
    ASSUME work \in [Workers -> Work], faults \in 0..MaxFaults, NEW w \in Workers
    PROVE  /\ \A step \in Steps \cup {"ack", "markfailed"} :
                Goto(w, step) => work' \in [Workers -> Work]
           /\ Idle(w) => work' \in [Workers -> Work]
           /\ Errs(w) => work' \in [Workers -> Work]
           /\ Faulty => faults' \in 0..MaxFaults
           /\ \A step \in Steps \cup {"ack", "markfailed"} :
                DoneOrLost(w, step) => work' \in [Workers -> Work] /\ faults' \in 0..MaxFaults
<1>1. ASSUME NEW step \in Steps \cup {"ack", "markfailed"}, Goto(w, step)
      PROVE  work' \in [Workers -> Work]
  BY <1>1 DEF Goto, Work
<1>2. ASSUME Idle(w) PROVE work' \in [Workers -> Work]
  BY <1>2 DEF Idle, IdleWork, Work
<1>3. ASSUME Errs(w) PROVE work' \in [Workers -> Work]
  BY <1>1, <1>2, <1>3 DEF Errs
<1>4. ASSUME Faulty PROVE faults' \in 0..MaxFaults
  BY <1>4, BoundsAssumption DEF Faulty
<1>. QED
  BY <1>1, <1>2, <1>3, <1>4 DEF DoneOrLost

LEMMA WorkerTypeOK ==
    ASSUME TypeOK, References, NEW w \in Workers,
           \/ \E m \in Msgs : Deliver(w, m)
           \/ Progress(w) \/ StepFails(w) \/ Crash(w)
    PROVE  TypeOK'
<1>. USE DEF TypeOK, stores
<1>1. CASE \E m \in Msgs : Deliver(w, m)
  <2>1. PICK m \in Msgs : Deliver(w, m)
    BY <1>1
  <2>2. work' \in [Workers -> Work] /\ faults' \in 0..MaxFaults
    BY <2>1, WorkMoves DEF Deliver, Work, Msg, Steps
  <2>3. msgs' \in [Msgs -> Msg]
    BY <2>1, BoundsAssumption DEF Deliver, Msg
  <2>. QED
    BY <2>1, <2>2, <2>3 DEF Deliver
<1>2. CASE Load(w)
  <2>1. ledger[work[w].row] \in Row
    BY <1>2 DEF Load, References, Exists
  <2>2. \E at \in Steps \cup {"ack"} : GotoWith(w, at, ledger[work[w].row].ids)
    BY <1>2 DEF Load, Steps
  <2>3. work' \in [Workers -> Work]
    BY <2>1, <2>2 DEF GotoWith, Row, Work
  <2>. QED
    BY <1>2, <2>3 DEF Load
<1>3. CASE ResolveDistinctIDs(w)
  <2>1. Resolvable(ledger[work[w].row].profile, ledger[work[w].row].external) \subseteq Ids
    BY <1>3 DEF ResolveDistinctIDs, References, Exists, Resolvable, Row, Ids
  <2>. QED
    BY <1>3, <2>1 DEF ResolveDistinctIDs, GotoWith, Work, Steps
<1>4. CASE Freeze(w)
  <2>1. ledger' \in [Rows -> Row]
    BY <1>4 DEF Freeze, SetFrozen, Row, Statuses, Work
  <2>2. work' \in [Workers -> Work] /\ faults' \in 0..MaxFaults
    BY <1>4, WorkMoves DEF Freeze, Steps
  <2>. QED
    BY <1>4, <2>1, <2>2 DEF Freeze
<1>5. CASE HardDeletePostgres(w)
  BY <1>5, WorkMoves DEF HardDeletePostgres, Steps
<1>6. CASE EraseEvents(w)
  BY <1>6, WorkMoves DEF EraseEvents, Steps
<1>7. CASE EraseActivity(w)
  BY <1>7, WorkMoves DEF EraseActivity, Steps
<1>8. CASE EraseAliases(w)
  BY <1>8, WorkMoves DEF EraseAliases, Steps
<1>9. CASE EraseProfiles(w)
  BY <1>9, WorkMoves DEF EraseProfiles, Steps
<1>10. CASE Complete(w)
  <2>1. ledger' \in [Rows -> Row]
    BY <1>10 DEF Complete, Row, Statuses
  <2>. QED
    BY <1>10, <2>1, WorkMoves DEF Complete
<1>11. CASE Ack(w)
  <2>1. msgs' \in [Msgs -> Msg]
    BY <1>11 DEF Ack, Settle, Msg
  <2>. QED
    BY <1>11, <2>1, WorkMoves DEF Ack
<1>12. CASE MarkFailed(w)
  <2>1. ledger' \in [Rows -> Row]
    BY <1>12 DEF MarkFailed, Row, Statuses
  <2>2. msgs' \in [Msgs -> Msg]
    BY <1>12 DEF MarkFailed, Settle, Msg
  <2>. QED
    BY <1>12, <2>1, <2>2, WorkMoves DEF MarkFailed
<1>13. CASE StepFails(w)
  BY <1>13, WorkMoves DEF StepFails
<1>14. CASE Crash(w)
  BY <1>14, WorkMoves DEF Crash
<1>. QED
  BY <1>1, <1>2, <1>3, <1>4, <1>5, <1>6, <1>7, <1>8, <1>9, <1>10, <1>11, <1>12, <1>13, <1>14
     DEF Progress

-----------------------------------------------------------------------------
LEMMA CallerReferences ==
    ASSUME TypeOK, References, NEW c \in Callers, CallerNext(c)
    PROVE  References'
<1>1. \A r : Exists(r) => Exists(r)'
  <2>. SUFFICES ASSUME NEW r, Exists(r) PROVE Exists(r)'
    OBVIOUS
  <2>1. CASE ledger' = ledger
    BY <2>1 DEF Exists
  <2>2. CASE InsertRow(c)
    BY <2>2 DEF InsertRow, TypeOK, NextRow, Exists
  <2>3. CASE Revive(c)
    BY <2>3 DEF Revive, TypeOK, Row, Exists
  <2>. QED
    BY <2>1, <2>2, <2>3, UnresolvedReads DEF CallerNext, Request, ResolveExternal, ResolveID,
       InsertConflict, Publish, CallFails
<1>2. \A m \in Msgs : msgs'[m].row # 0 => Exists(msgs[m].row)'
  <2>1. CASE msgs' = msgs
    BY <1>1, <2>1 DEF References
  <2>2. CASE Publish(c)
    BY <1>1, <2>2 DEF Publish, References, TypeOK, Msg
  <2>. QED
    BY <2>1, <2>2, UnresolvedReads DEF CallerNext, Request, ResolveExternal, ResolveID, InsertRow,
       InsertConflict, Revive, CallFails
<1>3. work' = work
  BY UnresolvedReads DEF CallerNext, Request, ResolveExternal, ResolveID, InsertRow, InsertConflict,
     Revive, Publish, CallFails
<1>4. \A d \in Callers \ {c} : call'[d] = call[d]
  BY UnresolvedCalls DEF CallerNext, Request, ResolveExternal, ResolveID, InsertRow,
     InsertConflict, Revive, Publish, CallFails, LookupOr, Redrive, CallRow, CallInsert, CallGoto,
     Return, TypeOK
<1>5. call'[c].at \in {"revive", "publish"} => Exists(call[c].row)'
  <2>1. ASSUME NEW p, NEW e, Redrive(c, p, e) PROVE Exists(call'[c].row)
    BY <2>1 DEF Redrive, Reopenable, CallRow, Exists, TypeOK, Statuses
  <2>2. CASE InsertRow(c)
    BY <2>2 DEF InsertRow, CallRow, TypeOK, Exists
  <2>3. CASE Revive(c)
    BY <1>1, <2>3 DEF Revive, References, TypeOK, Call, Return, IdleCall
  <2>4. CASE \E p, e : Request(c, p, e)
    BY <1>1, <2>1, <2>4 DEF Request, LookupOr, TypeOK
  <2>5. CASE ResolveExternal(c)
    BY <2>5 DEF ResolveExternal, CallInsert, TypeOK
  <2>6. CASE ResolveID(c)
    BY <2>6, CallGoes DEF ResolveID, CallInsert, TypeOK
  <2>7. CASE InsertConflict(c)
    BY <1>1, <2>1, <2>7 DEF InsertConflict, LookupOr, Return, IdleCall, TypeOK
  <2>8. CASE Publish(c) \/ CallFails(c)
    BY <2>8 DEF Publish, CallFails, Return, IdleCall, TypeOK
  <2>9. CASE Unresolved(c)
    <3>1. CASE \E p, e : Redrive(c, p, e)
      BY <1>1, <2>1, <2>9, <3>1, UnresolvedReads DEF Exists
    <3>2. CASE call'[c].at \notin {"revive", "publish"}
      BY <3>2
    <3>. QED  BY <2>9, <3>1, <3>2, UnresolvedCalls DEF TypeOK
  <2>. QED
    BY <2>2, <2>3, <2>4, <2>5, <2>6, <2>7, <2>8, <2>9 DEF CallerNext
<1>. QED
  BY <1>1, <1>2, <1>3, <1>4, <1>5 DEF References

LEMMA WorkerReferences ==
    ASSUME TypeOK, References, NEW w \in Workers,
           \/ \E m \in Msgs : Deliver(w, m)
           \/ Progress(w) \/ StepFails(w) \/ Crash(w)
    PROVE  References'
<1>. USE DEF TypeOK
<1>1. \A r : Exists(r) => Exists(r)'
  BY DEF Exists, Deliver, Progress, StepFails, Crash, Load, ResolveDistinctIDs, Freeze,
     HardDeletePostgres, EraseEvents, EraseActivity, EraseAliases, EraseProfiles, Complete,
     Ack, MarkFailed, SetFrozen, Row
<1>2. \A m \in Msgs : msgs'[m].row = msgs[m].row
  BY DEF Deliver, Progress, StepFails, Crash, Load, ResolveDistinctIDs, Freeze,
     HardDeletePostgres, EraseEvents, EraseActivity, EraseAliases, EraseProfiles, Complete,
     Ack, MarkFailed, Settle, Msg
<1>3. call' = call
  BY DEF Deliver, Progress, StepFails, Crash, Load, ResolveDistinctIDs, Freeze,
     HardDeletePostgres, EraseEvents, EraseActivity, EraseAliases, EraseProfiles, Complete,
     Ack, MarkFailed
<1>4. \A v \in Workers \ {w} : work'[v] = work[v]
  BY DEF Deliver, Progress, StepFails, Crash, Load, ResolveDistinctIDs, Freeze,
     HardDeletePostgres, EraseEvents, EraseActivity, EraseAliases, EraseProfiles, Complete,
     Ack, MarkFailed, Goto, GotoWith, Idle, Errs, DoneOrLost
<1>5. work'[w].at # "idle" => Exists(work[w].row)' /\ work'[w].msg \in Msgs
  <2>1. CASE \E m \in Msgs : Deliver(w, m)
    BY <1>1, <2>1 DEF Deliver, References
  <2>2. CASE work'[w].row = work[w].row /\ work'[w].msg = work[w].msg /\ work[w].at # "idle"
    BY <1>1, <2>2 DEF References
  <2>3. CASE work'[w].at = "idle"
    BY <2>3
  <2>4. Progress(w) \/ StepFails(w) \/ Crash(w) => work[w].at # "idle"
    BY DEF Progress, StepFails, Crash, Load, ResolveDistinctIDs, Freeze, HardDeletePostgres,
       EraseEvents, EraseActivity, EraseAliases, EraseProfiles, Complete, Ack, MarkFailed, Steps
  <2>5. Progress(w) \/ StepFails(w) \/ Crash(w) =>
           \/ work'[w].at = "idle"
           \/ work'[w].row = work[w].row /\ work'[w].msg = work[w].msg
    BY DEF Progress, StepFails, Crash, Load, ResolveDistinctIDs, Freeze,
       HardDeletePostgres, EraseEvents, EraseActivity, EraseAliases, EraseProfiles, Complete,
       Ack, MarkFailed, Goto, GotoWith, Idle, Errs, DoneOrLost, IdleWork, Work
  <2>. QED
    BY <2>1, <2>2, <2>3, <2>4, <2>5
<1>. QED
  BY <1>1, <1>2, <1>3, <1>4, <1>5 DEF References

(* Every reachable state has well-formed ledger rows, messages, calls,     *)
(* deliveries and stores.                                                  *)
THEOREM TypeCorrect == Spec => [](TypeOK /\ References)
<1>1. Init => TypeOK /\ References
  BY InitTypeOK DEF Init, References, NoMsg, IdleWork, IdleCall
<1>2. TypeOK /\ References /\ [Next]_vars => (TypeOK /\ References)'
  <2>. SUFFICES ASSUME TypeOK, References, [Next]_vars
                PROVE  TypeOK' /\ References'
    OBVIOUS
  <2>1. CASE \E id \in LateIds : Arrive(id)
    BY <2>1, SubjectAssumption DEF TypeOK, Arrive, References, Exists
  <2>2. CASE UNCHANGED vars
    BY <2>2 DEF TypeOK, vars, stores, References, Exists
  <2>3. CASE \E c \in Callers : CallerNext(c)
    BY <2>3, CallerTypeOK, CallerReferences
  <2>4. CASE \E w \in Workers, m \in Msgs : Deliver(w, m)
    BY <2>4, WorkerTypeOK, WorkerReferences
  <2>5. CASE \E w \in Workers : Progress(w) \/ StepFails(w) \/ Crash(w)
    BY <2>5, WorkerTypeOK, WorkerReferences
  <2>. QED
    BY <2>1, <2>2, <2>3, <2>4, <2>5 DEF Next
<1>. QED
  BY <1>1, <1>2, PTL DEF Spec

-----------------------------------------------------------------------------
(***************************************************************************)
(* The inductive invariant behind CompletedErasesEvents.  The ids a        *)
(* delivery works with, and the ids frozen on a row, hold everything the   *)
(* row can still be resolved to (Covers); an alias row disappears only     *)
(* once the events and activity under that alias are gone (AliasesLast);   *)
(* so an id missing from a set frozen late is one whose events are gone.   *)
(***************************************************************************)
Covers(r, S) == Resolvable(ledger[r].profile, ledger[r].external) \subseteq S

ClaimBounded ==
    \A r \in Rows : claim[r] \subseteq ({ledger[r].profile, ledger[r].external} \ {NoId})
        \cup (IF ledger[r].profile = Profile THEN Aliases ELSE {})

FrozenCovers == \A r \in Rows : ledger[r].ids # {} => Covers(r, ledger[r].ids)

AliasesLast == \A al \in Aliases \ aliasRows : al \notin events \cup activity

Holding(w) == work[w].at \in Steps \ {"load", "resolve"}
EventsGone(w) == work[w].at \in {"activity", "aliases", "profiles", "complete"}
ActivityGone(w) == work[w].at \in {"aliases", "profiles", "complete"}

WorkInOrder ==
    \A w \in Workers :
        /\ Holding(w) => Covers(work[w].row, work[w].ids)
        /\ EventsGone(w) => work[w].ids \cap events = {}
        /\ ActivityGone(w) => work[w].ids \cap activity = {}

IInv == ClaimBounded /\ FrozenCovers /\ AliasesLast /\ WorkInOrder /\ CompletedErasesEvents

LEMMA InitIInv == Init => IInv
BY DEF Init, IInv, ClaimBounded, FrozenCovers, AliasesLast, WorkInOrder, Holding, EventsGone,
       ActivityGone, CompletedErasesEvents, Completed, NoRow, IdleWork, Steps

(* A caller adds a row or revives one; it touches no store the worker      *)
(* empties and no row's keys or frozen ids.                                *)
LEMMA CallerFrame ==
    ASSUME TypeOK, References, NEW c \in Callers, CallerNext(c)
    PROVE  /\ UNCHANGED <<work, events, activity, aliasRows>>
           /\ \A r \in Rows : Exists(r) =>
                /\ ledger'[r].profile = ledger[r].profile
                /\ ledger'[r].external = ledger[r].external
                /\ ledger'[r].ids = ledger[r].ids
                /\ claim'[r] = claim[r]
           /\ \A r \in Rows : ~Exists(r) =>
                \/ ledger'[r] = ledger[r] /\ claim'[r] = claim[r]
                \/ /\ ledger'[r].ids = {}
                   /\ claim'[r] = Resolvable(ledger'[r].profile, ledger'[r].external)
           /\ \A r \in Rows : Completed(r)' => Completed(r) /\ Exists(r)
<1>. USE DEF TypeOK, Exists, Completed, stores
<1>1. CASE InsertRow(c)
  BY <1>1 DEF InsertRow, NextRow
<1>2. CASE Revive(c)
  <2>1. UNCHANGED <<work, events, activity, aliasRows, claim>>
    BY <1>2 DEF Revive
  <2>2. call[c].row \in Rows /\ ledger[call[c].row].status # "none"
    BY <1>2 DEF Revive, References
  <2>3. \A r \in Rows : /\ ledger'[r].profile = ledger[r].profile
                        /\ ledger'[r].external = ledger[r].external
                        /\ ledger'[r].ids = ledger[r].ids
                        /\ ledger'[r].status # ledger[r].status =>
                             r = call[c].row /\ ledger'[r].status = "pending"
    BY <1>2, <2>2 DEF Revive, Row
  <2>4. \A r \in Rows \ {call[c].row} : ledger'[r] = ledger[r]
    BY <1>2 DEF Revive
  <2>5. ASSUME NEW r \in Rows, ledger'[r].status = "completed"
        PROVE  ledger[r].status = "completed"
    BY <2>3, <2>5
  <2>6. \A r \in Rows : ~Exists(r) => ledger'[r] = ledger[r]
    BY <2>2, <2>4
  <2>. QED
    BY <2>1, <2>3, <2>5, <2>6
<1>3. CASE UNCHANGED <<ledger, work, stores, claim>>
  BY <1>3
<1>4. InsertRow(c) \/ Revive(c) \/ UNCHANGED <<ledger, work, stores, claim>>
  BY UnresolvedReads DEF CallerNext, Request, ResolveExternal, ResolveID, InsertConflict,
     Publish, CallFails
<1>. QED
  BY <1>1, <1>2, <1>3, <1>4

LEMMA CallerIInv ==
    ASSUME TypeOK, References, IInv, NEW c \in Callers, CallerNext(c)
    PROVE  IInv'
<1>1. ClaimBounded'
  BY CallerFrame DEF IInv, ClaimBounded, TypeOK, Resolvable
<1>2. FrozenCovers'
  BY CallerFrame DEF IInv, FrozenCovers, Covers, Resolvable
<1>3. AliasesLast'
  BY CallerFrame DEF IInv, AliasesLast
<1>4. WorkInOrder'
  <2>. SUFFICES ASSUME NEW w \in Workers
                PROVE  /\ Holding(w) => Covers(work[w].row, work[w].ids)'
                       /\ EventsGone(w) => work[w].ids \cap events = {}
                       /\ ActivityGone(w) => work[w].ids \cap activity = {}
    BY CallerFrame DEF WorkInOrder, Holding, EventsGone, ActivityGone
  <2>1. Holding(w) => Exists(work[w].row)
    BY DEF References, Holding, Steps
  <2>. QED
    BY <2>1, CallerFrame DEF IInv, WorkInOrder, Covers, Resolvable, Exists
<1>5. CompletedErasesEvents'
  BY CallerFrame DEF IInv, CompletedErasesEvents
<1>. QED
  BY <1>1, <1>2, <1>3, <1>4, <1>5 DEF IInv

(* A worker only takes away from the stores and leaves the keys and the    *)
(* claims of every row alone.                                              *)
WorkerStep(w) ==
    \/ \E m \in Msgs : Deliver(w, m)
    \/ Progress(w) \/ StepFails(w) \/ Crash(w)

LEMMA WorkerFrame ==
    ASSUME TypeOK, References, NEW w \in Workers, WorkerStep(w)
    PROVE  /\ events' \subseteq events /\ activity' \subseteq activity
           /\ aliasRows' \subseteq aliasRows
           /\ claim' = claim
           /\ \A r \in Rows : /\ ledger'[r].profile = ledger[r].profile
                              /\ ledger'[r].external = ledger[r].external
           /\ \A v \in Workers \ {w} : work'[v] = work[v]
<1>. USE DEF TypeOK, stores
<1>1. events' \subseteq events /\ activity' \subseteq activity /\ aliasRows' \subseteq aliasRows
  BY DEF WorkerStep, Deliver, Progress, StepFails, Crash, Load, ResolveDistinctIDs, Freeze,
     HardDeletePostgres, EraseEvents, EraseActivity, EraseAliases, EraseProfiles, Complete,
     Ack, MarkFailed
<1>2. claim' = claim
  BY DEF WorkerStep, Deliver, Progress, StepFails, Crash, Load, ResolveDistinctIDs, Freeze,
     HardDeletePostgres, EraseEvents, EraseActivity, EraseAliases, EraseProfiles, Complete,
     Ack, MarkFailed
<1>3. \A r \in Rows : /\ ledger'[r].profile = ledger[r].profile
                     /\ ledger'[r].external = ledger[r].external
  BY DEF WorkerStep, Deliver, Progress, StepFails, Crash, Load, ResolveDistinctIDs, Freeze,
     HardDeletePostgres, EraseEvents, EraseActivity, EraseAliases, EraseProfiles, Complete,
     Ack, MarkFailed, SetFrozen, Row
<1>4. \A v \in Workers \ {w} : work'[v] = work[v]
  BY DEF WorkerStep, Deliver, Progress, StepFails, Crash, Load, ResolveDistinctIDs, Freeze,
     HardDeletePostgres, EraseEvents, EraseActivity, EraseAliases, EraseProfiles, Complete,
     Ack, MarkFailed, Goto, GotoWith, Idle, Errs, DoneOrLost
<1>. QED
  BY <1>1, <1>2, <1>3, <1>4

LEMMA WorkerIInv ==
    ASSUME TypeOK, References, IInv, NEW w \in Workers, WorkerStep(w)
    PROVE  IInv'
<1>. USE DEF TypeOK
<1>1. ClaimBounded'
  BY WorkerFrame DEF IInv, ClaimBounded
<1>2. \A r \in Rows : Resolvable(ledger[r].profile, ledger[r].external)'
                        \subseteq Resolvable(ledger[r].profile, ledger[r].external)
  BY WorkerFrame DEF Resolvable
<1>3. FrozenCovers'
  <2>. SUFFICES ASSUME NEW r \in Rows, ledger'[r].ids # {}
                PROVE  Covers(r, ledger[r].ids)'
    BY DEF FrozenCovers
  <2>1. CASE ledger'[r].ids = ledger[r].ids
    BY <1>2, <2>1 DEF IInv, FrozenCovers, Covers
  <2>2. CASE Freeze(w)
    <3>1. Covers(work[w].row, work[w].ids)
      BY <2>2 DEF Freeze, IInv, WorkInOrder, Holding, Steps
    <3>2. \/ r = work[w].row /\ ledger'[r].ids = work[w].ids
          \/ ledger'[r].ids = ledger[r].ids
      BY <2>2 DEF Freeze, SetFrozen
    <3>3. CASE r = work[w].row /\ ledger'[r].ids = work[w].ids
      BY <1>2, <3>1, <3>3 DEF Covers
    <3>. QED
      BY <2>1, <3>2, <3>3
  <2>3. Freeze(w) \/ ledger'[r].ids = ledger[r].ids
    BY DEF WorkerStep, Deliver, Progress, StepFails, Crash, Load, ResolveDistinctIDs,
       HardDeletePostgres, EraseEvents, EraseActivity, EraseAliases, EraseProfiles, Complete,
       Ack, MarkFailed, Row
  <2>. QED
    BY <2>1, <2>2, <2>3
<1>4. AliasesLast'
  <2>1. CASE aliasRows' = aliasRows
    BY <2>1, WorkerFrame DEF IInv, AliasesLast
  <2>2. CASE EraseAliases(w)
    <3>1. Covers(work[w].row, work[w].ids)
      BY <2>2 DEF EraseAliases, IInv, WorkInOrder, Holding, Steps
    <3>2. work[w].ids \cap (events \cup activity) = {}
      BY <2>2 DEF EraseAliases, IInv, WorkInOrder, EventsGone, ActivityGone
    <3>3. \A al \in aliasRows \ aliasRows' : al \in work[w].ids
      BY <2>2, <3>1 DEF EraseAliases, Covers, Resolvable
    <3>. QED
      BY <3>2, <3>3, WorkerFrame DEF IInv, AliasesLast
  <2>3. EraseAliases(w) \/ aliasRows' = aliasRows
    BY DEF WorkerStep, Deliver, Progress, StepFails, Crash, Load, ResolveDistinctIDs, Freeze,
       HardDeletePostgres, EraseEvents, EraseActivity, EraseProfiles, Complete,
       Ack, MarkFailed, stores
  <2>. QED
    BY <2>1, <2>2, <2>3
<1>5. WorkInOrder'
  <2>1. ASSUME NEW v \in Workers, v # w
        PROVE  /\ Holding(v)' => Covers(work[v].row, work[v].ids)'
               /\ EventsGone(v)' => (work[v].ids \cap events = {})'
               /\ ActivityGone(v)' => (work[v].ids \cap activity = {})'
    <3>1. work'[v] = work[v]
      BY <2>1, WorkerFrame
    <3>2. Holding(v) => work[v].row \in Rows
      BY DEF References, Exists, Holding, Steps
    <3>. QED
      BY <1>2, <2>1, <3>1, <3>2, WorkerFrame
         DEF IInv, WorkInOrder, Holding, EventsGone, ActivityGone, Covers
  <2>2. CASE Load(w)
    <3>1. work[w].row \in Rows
      BY <2>2 DEF Load, References, Exists
    <3>2. /\ work'[w].row = work[w].row
          /\ work'[w].ids = ledger[work[w].row].ids
          /\ work'[w].at \in {"ack", "resolve", "postgres"}
          /\ work'[w].at = "postgres" => ledger[work[w].row].ids # {}
      BY <2>2 DEF Load, GotoWith
    <3>. QED
      BY <1>2, <2>1, <3>1, <3>2
         DEF IInv, FrozenCovers, WorkInOrder, Holding, EventsGone, ActivityGone, Steps, Covers
  <2>3. CASE ResolveDistinctIDs(w)
    <3>1. work[w].row \in Rows
      BY <2>3 DEF ResolveDistinctIDs, References, Exists
    <3>2. /\ work'[w].row = work[w].row
          /\ work'[w].at = "freeze"
          /\ Covers(work[w].row, work'[w].ids)
      BY <2>3 DEF ResolveDistinctIDs, GotoWith, Covers
    <3>3. Covers(work[w].row, work[w].ids)'
      BY <1>2, <3>1, <3>2 DEF Covers
    <3>. QED
      BY <2>1, <3>2, <3>3 DEF WorkInOrder, Holding, EventsGone, ActivityGone
  <2>4. CASE EraseEvents(w)
    <3>1. /\ work'[w].at \in {"activity", "markfailed", "idle"}
          /\ work'[w].at = "activity" => work'[w].row = work[w].row /\ work'[w].ids = work[w].ids
          /\ events' = events \ work[w].ids
      BY <2>4 DEF EraseEvents, DoneOrLost, Errs, Goto, Idle, IdleWork, Work
    <3>2. work[w].row \in Rows /\ Covers(work[w].row, work[w].ids)
      BY <2>4 DEF EraseEvents, IInv, WorkInOrder, Holding, Steps, References, Exists
    <3>. QED
      BY <1>2, <2>1, <3>1, <3>2 DEF WorkInOrder, Holding, EventsGone, ActivityGone, Steps, Covers
  <2>5. CASE EraseActivity(w)
    <3>1. /\ work'[w].at \in {"aliases", "markfailed", "idle"}
          /\ work'[w].at = "aliases" => work'[w].row = work[w].row /\ work'[w].ids = work[w].ids
          /\ activity' = activity \ work[w].ids
      BY <2>5 DEF EraseActivity, DoneOrLost, Errs, Goto, Idle, IdleWork, Work
    <3>2. /\ work[w].row \in Rows /\ Covers(work[w].row, work[w].ids)
          /\ work[w].ids \cap events = {}
      BY <2>5 DEF EraseActivity, IInv, WorkInOrder, Holding, EventsGone, Steps, References, Exists
    <3>. QED
      BY <1>2, <2>1, <3>1, <3>2, WorkerFrame
         DEF WorkInOrder, Holding, EventsGone, ActivityGone, Steps, Covers
  <2>6. CASE /\ work'[w].row = work[w].row /\ work'[w].ids = work[w].ids
             /\ Holding(w)' => Holding(w)
             /\ EventsGone(w)' => EventsGone(w)
             /\ ActivityGone(w)' => ActivityGone(w)
    <3>1. Holding(w) => work[w].row \in Rows
      BY DEF References, Exists, Holding, Steps
    <3>2. (Holding(w) => Covers(work[w].row, work[w].ids))'
      BY <1>2, <2>6, <3>1 DEF IInv, WorkInOrder, Covers
    <3>3. (EventsGone(w) => work[w].ids \cap events = {})'
      BY <2>6, WorkerFrame DEF IInv, WorkInOrder
    <3>4. (ActivityGone(w) => work[w].ids \cap activity = {})'
      BY <2>6, WorkerFrame DEF IInv, WorkInOrder
    <3>. QED
      BY <2>1, <3>2, <3>3, <3>4 DEF WorkInOrder
  <2>7. CASE work'[w].at \in {"idle", "load"}
    BY <2>1, <2>7 DEF WorkInOrder, Holding, EventsGone, ActivityGone, Steps, Covers
  <2>8. \/ Load(w) \/ ResolveDistinctIDs(w) \/ EraseEvents(w) \/ EraseActivity(w)
        \/ work'[w].at \in {"idle", "load"}
        \/ /\ work'[w].row = work[w].row /\ work'[w].ids = work[w].ids
           /\ Holding(w)' => Holding(w)
           /\ EventsGone(w)' => EventsGone(w)
           /\ ActivityGone(w)' => ActivityGone(w)
    <3>1. CASE \E m \in Msgs : Deliver(w, m)
      BY <3>1 DEF Deliver
    <3>2. CASE Ack(w) \/ MarkFailed(w) \/ Crash(w)
      BY <3>2 DEF Ack, MarkFailed, Crash, Idle, IdleWork, Work
    <3>3. CASE Freeze(w) \/ HardDeletePostgres(w)
      BY <3>3 DEF Freeze, HardDeletePostgres, DoneOrLost, Errs, Goto, Idle, IdleWork, Work, Holding,
         EventsGone, ActivityGone, Steps
    <3>4. CASE EraseAliases(w) \/ EraseProfiles(w) \/ Complete(w)
      BY <3>4 DEF EraseAliases, EraseProfiles, Complete, DoneOrLost, Errs, Goto, Idle, IdleWork, Work,
         Holding, EventsGone, ActivityGone, Steps
    <3>5. CASE StepFails(w)
      BY <3>5 DEF StepFails, Errs, Goto, Idle, IdleWork, Work, Holding, EventsGone, ActivityGone, Steps
    <3>. QED
      BY <3>1, <3>2, <3>3, <3>4, <3>5 DEF WorkerStep, Progress
  <2>. QED
    BY <2>2, <2>3, <2>4, <2>5, <2>6, <2>7, <2>8
<1>6. CompletedErasesEvents'
  <2>. SUFFICES ASSUME NEW r \in Rows, Completed(r)'
                PROVE  claim[r] \cap (events \cup activity) = {}
    BY WorkerFrame DEF CompletedErasesEvents
  <2>1. CASE Completed(r)
    BY <2>1 DEF IInv, CompletedErasesEvents
  <2>2. CASE Complete(w) /\ r = work[w].row
    <3>1. Covers(r, work[w].ids) /\ work[w].ids \cap (events \cup activity) = {}
      BY <2>2 DEF Complete, IInv, WorkInOrder, Holding, EventsGone, ActivityGone, Steps
    <3>. QED
      BY <3>1 DEF IInv, ClaimBounded, Covers, Resolvable, AliasesLast
  <2>3. Completed(r) \/ (Complete(w) /\ r = work[w].row)
    BY DEF WorkerStep, Deliver, Progress, StepFails, Crash, Load, ResolveDistinctIDs, Freeze,
       HardDeletePostgres, EraseEvents, EraseActivity, EraseAliases, EraseProfiles, Complete,
       Ack, MarkFailed, SetFrozen, Completed, Row
  <2>. QED
    BY <2>1, <2>2, <2>3
<1>. QED
  BY <1>1, <1>3, <1>4, <1>5, <1>6 DEF IInv

(* For any number of callers, workers, messages, rows, faults and aliases: *)
(* a request that reached "completed" left no event and no activity row    *)
(* under an id it could name (ExecuteErasure and eraseClickHouse's order). *)
THEOREM ErasureErasesEvents == Spec => []CompletedErasesEvents
<1>1. TypeOK /\ References /\ IInv /\ [Next]_vars => IInv'
  <2>. SUFFICES ASSUME TypeOK, References, IInv, [Next]_vars PROVE IInv'
    OBVIOUS
  <2>1. CASE \E c \in Callers : CallerNext(c)
    BY <2>1, CallerIInv
  <2>2. CASE \E w \in Workers : WorkerStep(w)
    BY <2>2, WorkerIInv
  <2>3. CASE UNCHANGED vars \/ \E id \in LateIds : Arrive(id)
    BY <2>3 DEF vars, stores, Arrive, IInv, ClaimBounded, FrozenCovers, Covers, Resolvable,
       AliasesLast, WorkInOrder, Holding, EventsGone, ActivityGone, CompletedErasesEvents, Completed
  <2>. QED
    BY <2>1, <2>2, <2>3 DEF Next, WorkerStep
<1>2. IInv => CompletedErasesEvents
  BY DEF IInv
<1>. QED
  BY <1>1, <1>2, InitIInv, TypeCorrect, PTL DEF Spec

-----------------------------------------------------------------------------
(* Everything a row or a delivery of it holds is an id the row can name,   *)
(* and what a delivery is about to delete, of what still has events, its   *)
(* row holds: a later freeze of the row misses only aliases whose rows are *)
(* gone, and those have no events left (AliasesLast).                      *)
Nameable(r) ==
    ({ledger[r].profile, ledger[r].external} \ {NoId})
        \cup (IF ledger[r].profile = Profile THEN Aliases ELSE {})

IdsBounded ==
    /\ \A r \in Rows : ledger[r].ids \subseteq Nameable(r)
    /\ \A w \in Workers : work[w].at # "idle" => work[w].ids \subseteq Nameable(work[w].row)

Deleting(w) == work[w].at \in {"postgres", "events"}

Recorded ==
    \A w \in Workers : Deleting(w) => work[w].ids \cap events \subseteq ledger[work[w].row].ids

LEMMA CallerRecorded ==
    ASSUME TypeOK, References, IdsBounded, Recorded, NEW c \in Callers, CallerNext(c)
    PROVE  IdsBounded' /\ Recorded'
<1>1. UNCHANGED <<work, events>>
  BY CallerFrame
<1>2. \A w \in Workers : work[w].at # "idle" => Exists(work[w].row)
  BY DEF References
<1>3. \A r \in Rows : Exists(r) => Nameable(r)' = Nameable(r) /\ ledger'[r].ids = ledger[r].ids
  BY CallerFrame DEF Nameable
<1>4. \A r \in Rows : ledger'[r].ids \subseteq Nameable(r)'
  <2>. SUFFICES ASSUME NEW r \in Rows PROVE ledger'[r].ids \subseteq Nameable(r)'
    OBVIOUS
  <2>1. CASE Exists(r)
    BY <1>3, <2>1 DEF IdsBounded
  <2>2. CASE ~Exists(r)
    <3>1. ledger'[r] = ledger[r] \/ ledger'[r].ids = {}
      BY <2>2, CallerFrame
    <3>. QED
      BY <3>1 DEF IdsBounded, Nameable
  <2>. QED
    BY <2>1, <2>2
<1>5. IdsBounded'
  BY <1>1, <1>2, <1>3, <1>4 DEF IdsBounded, Exists
<1>6. Recorded'
  BY <1>1, <1>2, <1>3 DEF Recorded, Deleting, Exists
<1>. QED
  BY <1>5, <1>6

LEMMA WorkerRecorded ==
    ASSUME TypeOK, References, IInv, IdsBounded, Recorded, NEW w \in Workers, WorkerStep(w)
    PROVE  IdsBounded' /\ Recorded'
<1>. USE DEF TypeOK
<1>1. \A r \in Rows : Nameable(r)' = Nameable(r)
  BY WorkerFrame DEF Nameable
<1>2. \A v \in Workers : work[v].at # "idle" => work[v].row \in Rows
  BY DEF References, Exists
<1>3. \A r \in Rows :
        \/ ledger'[r].ids = ledger[r].ids
        \/ Freeze(w) /\ r = work[w].row /\ ledger'[r].ids = work[w].ids
  <2>. TAKE r \in Rows
  <2>1. CASE Freeze(w)
    <3>1. UNCHANGED ledger \/ SetFrozen(work[w].row, work[w].ids)
      BY <2>1 DEF Freeze
    <3>2. SetFrozen(work[w].row, work[w].ids) =>
            ledger'[r].ids = IF r = work[w].row THEN work[w].ids ELSE ledger[r].ids
      BY DEF SetFrozen
    <3>. QED
      BY <2>1, <3>1, <3>2
  <2>2. CASE ~Freeze(w)
    BY <2>2 DEF WorkerStep, Deliver, Progress, StepFails, Crash, Load, ResolveDistinctIDs,
       HardDeletePostgres, EraseEvents, EraseActivity, EraseAliases, EraseProfiles, Complete,
       Ack, MarkFailed, Row
  <2>. QED
    BY <2>1, <2>2
<1>4. \A r \in Rows : ledger'[r].ids \subseteq Nameable(r)'
  BY <1>1, <1>3 DEF IdsBounded, Freeze
<1>5. \/ Load(w) \/ ResolveDistinctIDs(w)
      \/ work'[w].at = "idle"
      \/ work'[w].at = "load" /\ work'[w].ids = {}
      \/ work[w].at # "idle" /\ work'[w].row = work[w].row /\ work'[w].ids = work[w].ids
  <2>1. CASE \E m \in Msgs : Deliver(w, m)
    BY <2>1 DEF Deliver
  <2>2. CASE Freeze(w) \/ HardDeletePostgres(w) \/ EraseEvents(w) \/ EraseActivity(w)
    BY <2>2 DEF Freeze, HardDeletePostgres, EraseEvents, EraseActivity, DoneOrLost, Errs, Goto,
       Idle, IdleWork, Work
  <2>3. CASE EraseAliases(w) \/ EraseProfiles(w) \/ Complete(w)
    BY <2>3 DEF EraseAliases, EraseProfiles, Complete, DoneOrLost, Errs, Goto, Idle, IdleWork, Work
  <2>4. CASE Ack(w) \/ MarkFailed(w) \/ StepFails(w) \/ Crash(w)
    BY <2>4 DEF Ack, MarkFailed, StepFails, Crash, Errs, Goto, Idle, IdleWork, Work, Steps
  <2>. QED
    BY <2>1, <2>2, <2>3, <2>4 DEF WorkerStep, Progress
<1>6. work'[w].at # "idle" => work'[w].ids \subseteq Nameable(work[w].row)'
  <2>1. CASE Load(w)
    <3>1. work'[w].row = work[w].row /\ work'[w].ids = ledger[work[w].row].ids
      BY <2>1 DEF Load, GotoWith
    <3>2. work[w].row \in Rows
      BY <1>2, <2>1 DEF Load
    <3>. QED
      BY <1>1, <3>1, <3>2 DEF IdsBounded
  <2>2. CASE ResolveDistinctIDs(w)
    <3>1. /\ work'[w].row = work[w].row
          /\ work'[w].ids = Resolvable(ledger[work[w].row].profile, ledger[work[w].row].external)
      BY <2>2 DEF ResolveDistinctIDs, GotoWith
    <3>2. work'[w].ids \subseteq Nameable(work[w].row) /\ work[w].row \in Rows
      BY <1>2, <2>2, <3>1 DEF Resolvable, Nameable, ResolveDistinctIDs
    <3>. QED
      BY <1>1, <3>1, <3>2
  <2>3. CASE work[w].at # "idle" /\ work'[w].row = work[w].row /\ work'[w].ids = work[w].ids
    BY <1>1, <1>2, <2>3 DEF IdsBounded
  <2>. QED
    BY <1>5, <2>1, <2>2, <2>3
<1>7. IdsBounded'
  <2>1. ASSUME NEW v \in Workers, work'[v].at # "idle"
        PROVE  work'[v].ids \subseteq Nameable(work[v].row)'
    <3>1. CASE v = w
      BY <1>6, <2>1, <3>1
    <3>2. CASE v # w
      <4>1. work'[v] = work[v]
        BY <3>2, WorkerFrame
      <4>. QED
        BY <1>1, <1>2, <2>1, <4>1 DEF IdsBounded
    <3>. QED
      BY <3>1, <3>2
  <2>. QED
    BY <1>4, <2>1 DEF IdsBounded
<1>8. Recorded'
  <2>. SUFFICES ASSUME NEW v \in Workers, Deleting(v)', NEW id \in work'[v].ids, id \in events
                PROVE  id \in ledger'[work'[v].row].ids
    BY WorkerFrame DEF Recorded
  <2>1. CASE v # w
    <3>1. work'[v] = work[v]
      BY <2>1, WorkerFrame
    <3>2. work[v].row \in Rows /\ id \in ledger[work[v].row].ids
      BY <1>2, <3>1 DEF Recorded, Deleting
    <3>3. CASE ledger'[work[v].row].ids = ledger[work[v].row].ids
      BY <3>1, <3>2, <3>3
    <3>4. CASE /\ Freeze(w) /\ work[v].row = work[w].row
               /\ ledger'[work[v].row].ids = work[w].ids
      <4>1. Covers(work[v].row, work[w].ids)
        BY <3>4 DEF Freeze, IInv, WorkInOrder, Holding, Steps
      <4>2. id \in Nameable(work[v].row)
        BY <3>2 DEF IdsBounded
      <4>3. id \in Resolvable(ledger[work[v].row].profile, ledger[work[v].row].external)
        BY <4>2 DEF Nameable, Resolvable, IInv, AliasesLast
      <4>. QED
        BY <3>1, <3>4, <4>1, <4>3 DEF Covers
    <3>. QED
      BY <1>3, <3>2, <3>3, <3>4
  <2>2. CASE v = w
    <3>1. Load(w) \/ Freeze(w) \/ HardDeletePostgres(w)
      <4>1. CASE \E m \in Msgs : Deliver(w, m)
        BY <2>2, <4>1 DEF Deliver, Deleting
      <4>2. CASE ResolveDistinctIDs(w)
        BY <2>2, <4>2 DEF ResolveDistinctIDs, GotoWith, Deleting
      <4>3. CASE EraseEvents(w) \/ EraseActivity(w) \/ EraseAliases(w) \/ EraseProfiles(w)
        BY <2>2, <4>3 DEF EraseEvents, EraseActivity, EraseAliases, EraseProfiles, DoneOrLost,
           Errs, Goto, Idle, IdleWork, Work, Deleting
      <4>4. CASE Complete(w) \/ Ack(w) \/ MarkFailed(w) \/ StepFails(w) \/ Crash(w)
        BY <2>2, <4>4 DEF Complete, Ack, MarkFailed, StepFails, Crash, DoneOrLost,
           Errs, Goto, Idle, IdleWork, Work, Deleting
      <4>. QED
        BY <4>1, <4>2, <4>3, <4>4 DEF WorkerStep, Progress
    <3>2. CASE Load(w)
      <4>1. /\ ledger' = ledger /\ work'[w].row = work[w].row
            /\ work'[w].ids = ledger[work[w].row].ids
        BY <3>2 DEF Load, GotoWith
      <4>. QED
        BY <2>2, <4>1
    <3>3. CASE Freeze(w)
      <4>1. /\ work'[w].at = "postgres" => work'[w].row = work[w].row /\ work'[w].ids = work[w].ids
            /\ work'[w].at \in {"postgres", "markfailed", "idle"}
            /\ work'[w].at = "postgres" => SetFrozen(work[w].row, work[w].ids)
        BY <3>3 DEF Freeze, DoneOrLost, Errs, Goto, Idle, IdleWork, Work
      <4>2. work[w].row \in Rows
        BY <1>2, <3>3 DEF Freeze
      <4>3. work'[w].at = "postgres"
        BY <2>2, <4>1 DEF Deleting
      <4>4. ledger'[work[w].row].ids = work[w].ids
        BY <4>1, <4>2, <4>3 DEF SetFrozen
      <4>. QED
        BY <2>2, <4>1, <4>3, <4>4
    <3>4. CASE HardDeletePostgres(w)
      <4>1. /\ ledger' = ledger
            /\ work'[w].at = "events" => work'[w].row = work[w].row /\ work'[w].ids = work[w].ids
            /\ work'[w].at \in {"events", "markfailed", "idle"}
        BY <3>4 DEF HardDeletePostgres, DoneOrLost, Errs, Goto, Idle, IdleWork, Work
      <4>2. work'[w].at = "events"
        BY <2>2, <4>1 DEF Deleting
      <4>. QED
        BY <2>2, <3>4, <4>1, <4>2 DEF Recorded, Deleting, HardDeletePostgres
    <3>. QED
      BY <3>1, <3>2, <3>3, <3>4
  <2>. QED
    BY <2>1, <2>2
<1>. QED
  BY <1>7, <1>8

(* However deliveries of a request overlap, an event is deleted only under *)
(* an id the ledger names at that moment (FreezeComplianceRequest-         *)
(* Identifiers before eraseClickHouse).                                    *)
THEOREM ErasureDeletesRecorded == Spec => DeletesOnlyRecorded
<1>1. Init => IdsBounded /\ Recorded
  <2>1. Init => \A r \in Rows : ledger[r].ids = {}
    BY DEF Init, NoRow
  <2>2. Init => \A w \in Workers : work[w].at = "idle"
    BY DEF Init, IdleWork
  <2>. QED
    BY <2>1, <2>2 DEF IdsBounded, Recorded, Deleting
<1>2. TypeOK /\ References /\ IInv /\ IdsBounded /\ Recorded /\ [Next]_vars
        => IInv' /\ IdsBounded' /\ Recorded'
  <2>. SUFFICES ASSUME TypeOK, References, IInv, IdsBounded, Recorded, [Next]_vars
                PROVE  IInv' /\ IdsBounded' /\ Recorded'
    OBVIOUS
  <2>1. CASE \E c \in Callers : CallerNext(c)
    BY <2>1, CallerIInv, CallerRecorded
  <2>2. CASE \E w \in Workers : WorkerStep(w)
    BY <2>2, WorkerIInv, WorkerRecorded
  <2>3. CASE UNCHANGED vars \/ \E id \in LateIds : Arrive(id)
    BY <2>3 DEF vars, stores, Arrive, IInv, ClaimBounded, FrozenCovers, Covers, Resolvable,
       AliasesLast, WorkInOrder, Holding, EventsGone, ActivityGone, CompletedErasesEvents,
       Completed, IdsBounded, Nameable, Recorded, Deleting
  <2>. QED
    BY <2>1, <2>2, <2>3 DEF Next, WorkerStep
<1>3. TypeOK /\ References /\ Recorded /\ [Next]_vars
        => [events \ events' \subseteq UNION {ledger[r].ids : r \in Rows}]_vars
  <2>. SUFFICES ASSUME TypeOK, References, Recorded, Next, NEW id \in events \ events'
                PROVE  \E r \in Rows : id \in ledger[r].ids
    OBVIOUS
  <2>1. PICK w \in Workers : EraseEvents(w)
    <3>1. ASSUME NEW c \in Callers, CallerNext(c) PROVE FALSE
      BY <3>1, CallerFrame
    <3>2. ASSUME NEW w \in Workers, WorkerStep(w), ~EraseEvents(w) PROVE FALSE
      BY <3>2 DEF WorkerStep, Deliver, Progress, StepFails, Crash, Load, ResolveDistinctIDs,
         Freeze, HardDeletePostgres, EraseActivity, EraseAliases, EraseProfiles, Complete,
         Ack, MarkFailed, stores
    <3>3. ASSUME \E l \in LateIds : Arrive(l) PROVE FALSE
      BY <3>3 DEF Arrive
    <3>. QED
      BY <3>1, <3>2, <3>3 DEF Next, WorkerStep
  <2>2. id \in work[w].ids /\ Deleting(w) /\ work[w].row \in Rows
    BY <2>1 DEF EraseEvents, Deleting, References, Exists
  <2>. QED
    BY <2>2 DEF Recorded
<1>. QED
  BY <1>1, <1>2, <1>3, InitIInv, TypeCorrect, PTL DEF Spec, DeletesOnlyRecorded
-----------------------------------------------------------------------------
(***************************************************************************)
(* PromiseRecorded, of deliveries that do not overlap: at most one worker. *)
(* Then nobody writes the frozen ids of a row but the delivery that found  *)
(* none, and what a delivery works with is what its row says (OwnRow).     *)
(* The alias rows of a subject can be gone, and a profile under an alias   *)
(* still there, only while a row that has frozen the alias is not          *)
(* completed (AliasesLeft); a row opened meanwhile resolves without it.    *)
(***************************************************************************)
NoProfile == pgProfile = "none" /\ devices = "none"

PostgresGone(w) == work[w].at \in {"events", "activity", "aliases", "profiles", "complete"}
Reached(w) == PostgresGone(w) \/ work[w].at = "postgres"

OwnRow ==
    \A w \in Workers :
        /\ work[w].at \in Steps \ {"load"} => ~Completed(work[w].row)
        /\ work[w].at \in {"resolve", "freeze"} => ledger[work[w].row].ids = {}
        /\ Reached(w) => work[w].ids = ledger[work[w].row].ids
        /\ work[w].at = "complete" => work[w].ids \cap chProfiles = {}
        /\ PostgresGone(w) /\ ledger[work[w].row].profile = Profile => NoProfile

Unused == \A r \in Rows : ledger[r].status = "none" => ledger[r].ids = {}

AliasesLeft == \A al \in (Aliases \ aliasRows) \cap chProfiles : LeftTo(al)

SInv == Unused /\ OwnRow /\ AliasesLeft /\ PromiseRecorded

LEMMA InitSInv == Init => SInv
<1>. SUFFICES ASSUME Init PROVE SInv
  OBVIOUS
<1>1. Unused /\ PromiseRecorded
  BY DEF Init, NoRow, Unused, PromiseRecorded, CompletedErasesProfiles, Completed, AuditNamesErased
<1>2. OwnRow
  BY DEF Init, IdleWork, OwnRow, Reached, PostgresGone, Steps
<1>3. AliasesLeft
  BY DEF Init, AliasesLeft
<1>. QED
  BY <1>1, <1>2, <1>3 DEF SInv

(* A caller takes nothing from the ClickHouse profiles, brings no profile  *)
(* back, and completes or un-completes no row.                             *)
LEMMA CallerKeeps ==
    ASSUME TypeOK, References, NEW c \in Callers, CallerNext(c)
    PROVE  /\ chProfiles' = chProfiles
           /\ NoProfile => NoProfile'
           /\ \A r \in Rows : Completed(r)' <=> Completed(r)
           /\ \A r \in Rows : ledger'[r].status = "none" => ledger'[r] = ledger[r]
<1>. USE DEF TypeOK, Completed, stores
<1>1. CASE InsertRow(c)
  BY <1>1 DEF InsertRow, NextRow, NoProfile
<1>2. CASE Revive(c)
  <2>1. call[c].row \in Rows /\ ledger[call[c].row].status # "none"
    BY <1>2 DEF Revive, References, Exists
  <2>2. \A r \in Rows : \/ ledger'[r] = ledger[r]
                        \/ ledger[r].status # "completed" /\ ledger'[r].status = "pending"
    BY <1>2, <2>1 DEF Revive, Row
  <2>. QED
    BY <1>2, <2>2 DEF Revive, NoProfile
<1>3. CASE UNCHANGED <<ledger, stores>>
  BY <1>3 DEF NoProfile
<1>4. InsertRow(c) \/ Revive(c) \/ UNCHANGED <<ledger, stores>>
  BY UnresolvedReads DEF CallerNext, Request, ResolveExternal, ResolveID, InsertConflict,
     Publish, CallFails
<1>. QED
  BY <1>1, <1>2, <1>3, <1>4

LEMMA CallerSInv ==
    ASSUME TypeOK, References, SInv, NEW c \in Callers, CallerNext(c)
    PROVE  SInv'
<1>1. \A r \in Rows : ledger[r].ids # {} => Exists(r) /\ ledger'[r].ids = ledger[r].ids
  BY CallerFrame DEF SInv, Unused, Exists
<1>2. \A id : LeftTo(id) => LeftTo(id)'
  BY <1>1, CallerKeeps DEF LeftTo
<1>3. Unused'
  BY CallerKeeps DEF SInv, Unused
<1>4. OwnRow'
  <2>. SUFFICES ASSUME NEW w \in Workers, work[w].at # "idle"
                PROVE  /\ work[w].at \in Steps \ {"load"} => ~Completed(work[w].row)'
                       /\ work[w].at \in {"resolve", "freeze"} => ledger'[work[w].row].ids = {}
                       /\ Reached(w) => work[w].ids = ledger'[work[w].row].ids
                       /\ work[w].at = "complete" => work[w].ids \cap chProfiles = {}
                       /\ PostgresGone(w) /\ ledger'[work[w].row].profile = Profile => NoProfile'
    BY CallerFrame, CallerKeeps DEF OwnRow, Reached, PostgresGone, Steps
  <2>1. Exists(work[w].row) /\ work[w].row \in Rows
    BY DEF References, Exists
  <2>. QED
    BY <2>1, CallerFrame, CallerKeeps DEF SInv, OwnRow
<1>5. AliasesLeft'
  BY <1>2, CallerFrame, CallerKeeps DEF SInv, AliasesLeft
<1>6. CompletedErasesProfiles'
  <2>1. \A r \in Rows : Completed(r)' => Completed(r) /\ claim'[r] = claim[r]
    BY CallerFrame
  <2>. QED
    BY <1>2, <2>1, CallerKeeps DEF SInv, PromiseRecorded, CompletedErasesProfiles, NoProfile
<1>7. AuditNamesErased'
  BY <1>1, CallerFrame DEF SInv, PromiseRecorded, AuditNamesErased
<1>. QED
  BY <1>3, <1>4, <1>5, <1>6, <1>7 DEF SInv, PromiseRecorded

(* What a worker's step may change of a row and of the profiles.           *)
LEMMA WorkerKeeps ==
    ASSUME TypeOK, References, NEW w \in Workers, WorkerStep(w)
    PROVE  /\ chProfiles' \subseteq chProfiles
           /\ NoProfile => NoProfile'
           /\ \A r \in Rows :
                /\ \/ ledger'[r].ids = ledger[r].ids
                   \/ Freeze(w) /\ r = work[w].row /\ ledger'[r].ids = work[w].ids
                /\ Completed(r)' => Completed(r) \/ (Complete(w) /\ r = work[w].row)
                /\ ledger'[r].status = "none" => ledger[r].status = "none"
           /\ aliasRows' = aliasRows \/ EraseAliases(w)
           /\ events' = events \/ EraseEvents(w)
<1>. USE DEF TypeOK
<1>1. chProfiles' \subseteq chProfiles /\ (NoProfile => NoProfile')
  BY DEF WorkerStep, Deliver, Progress, StepFails, Crash, Load, ResolveDistinctIDs, Freeze,
     HardDeletePostgres, EraseEvents, EraseActivity, EraseAliases, EraseProfiles, Complete,
     Ack, MarkFailed, NoProfile, stores
<1>2. (aliasRows' = aliasRows \/ EraseAliases(w)) /\ (events' = events \/ EraseEvents(w))
  BY DEF WorkerStep, Deliver, Progress, StepFails, Crash, Load, ResolveDistinctIDs, Freeze,
     HardDeletePostgres, EraseActivity, EraseAliases, EraseEvents, EraseProfiles, Complete,
     Ack, MarkFailed, stores
<1>3. ASSUME NEW r \in Rows
      PROVE  /\ \/ ledger'[r].ids = ledger[r].ids
                \/ Freeze(w) /\ r = work[w].row /\ ledger'[r].ids = work[w].ids
             /\ Completed(r)' => Completed(r) \/ (Complete(w) /\ r = work[w].row)
             /\ ledger'[r].status = "none" => ledger[r].status = "none"
  <2>1. CASE Freeze(w)
    <3>1. UNCHANGED ledger \/ SetFrozen(work[w].row, work[w].ids)
      BY <2>1 DEF Freeze
    <3>2. SetFrozen(work[w].row, work[w].ids) /\ r = work[w].row =>
            ledger'[r].ids = work[w].ids /\ ledger'[r].status = "processing"
      BY DEF SetFrozen
    <3>3. SetFrozen(work[w].row, work[w].ids) /\ r # work[w].row => ledger'[r] = ledger[r]
      BY DEF SetFrozen
    <3>. QED
      BY <2>1, <3>1, <3>2, <3>3 DEF Completed
  <2>2. CASE Complete(w) \/ MarkFailed(w)
    BY <2>2 DEF Complete, MarkFailed, Completed, Row
  <2>3. CASE UNCHANGED ledger
    BY <2>3 DEF Completed
  <2>4. Freeze(w) \/ Complete(w) \/ MarkFailed(w) \/ UNCHANGED ledger
    BY DEF WorkerStep, Deliver, Progress, StepFails, Crash, Load, ResolveDistinctIDs,
       HardDeletePostgres, EraseActivity, EraseAliases, EraseEvents, EraseProfiles, Ack
  <2>. QED
    BY <2>1, <2>2, <2>3, <2>4
<1>. QED
  BY <1>1, <1>2, <1>3

(* Where a worker goes from each of its steps.                             *)
LEMMA WorkerGoes ==
    ASSUME TypeOK, NEW w \in Workers, WorkerStep(w)
    PROVE  \/ work'[w].at \in {"idle", "load", "ack", "markfailed"}
           \/ Load(w)
           \/ ResolveDistinctIDs(w) /\ work'[w].at = "freeze" /\ work'[w].row = work[w].row
           \/ /\ work'[w].row = work[w].row /\ work'[w].ids = work[w].ids
              /\ \/ Freeze(w) /\ work'[w].at = "postgres" /\ SetFrozen(work[w].row, work[w].ids)
                 \/ HardDeletePostgres(w) /\ work'[w].at = "events"
                 \/ EraseEvents(w) /\ work'[w].at = "activity"
                 \/ EraseActivity(w) /\ work'[w].at = "aliases"
                 \/ EraseAliases(w) /\ work'[w].at = "profiles"
                 \/ EraseProfiles(w) /\ work'[w].at = "complete"
<1>. USE DEF TypeOK
<1>1. CASE \E m \in Msgs : Deliver(w, m)
  BY <1>1 DEF Deliver
<1>2. CASE ResolveDistinctIDs(w)
  BY <1>2 DEF ResolveDistinctIDs, GotoWith
<1>3. CASE Freeze(w) \/ HardDeletePostgres(w) \/ EraseEvents(w) \/ EraseActivity(w)
  BY <1>3 DEF Freeze, HardDeletePostgres, EraseEvents, EraseActivity, DoneOrLost, Errs, Goto,
     Idle, IdleWork, Work
<1>4. CASE EraseAliases(w) \/ EraseProfiles(w) \/ Complete(w)
  BY <1>4 DEF EraseAliases, EraseProfiles, Complete, DoneOrLost, Errs, Goto, Idle, IdleWork, Work
<1>5. CASE Ack(w) \/ MarkFailed(w) \/ StepFails(w) \/ Crash(w)
  BY <1>5 DEF Ack, MarkFailed, StepFails, Crash, Errs, Goto, Idle, IdleWork, Work
<1>. QED
  BY <1>1, <1>2, <1>3, <1>4, <1>5 DEF WorkerStep, Progress

LEMMA WorkerOwnRow ==
    ASSUME TypeOK, References, SInv, \A u, v \in Workers : u = v,
           NEW w \in Workers, WorkerStep(w)
    PROVE  OwnRow'
<1>. DEFINE r == work[w].row
            at == work'[w].at
<1>. USE DEF TypeOK
<1>0. work[w].at # "idle" => r \in Rows
  BY DEF References, Exists
<1>1. SUFFICES /\ at \in Steps \ {"load"} => ~Completed(work[w].row)'
               /\ at \in {"resolve", "freeze"} => ledger'[work'[w].row].ids = {}
               /\ Reached(w)' => work'[w].ids = ledger'[work'[w].row].ids
               /\ at = "complete" => work'[w].ids \cap chProfiles' = {}
               /\ PostgresGone(w)' /\ ledger'[work'[w].row].profile = Profile => NoProfile'
  BY DEF OwnRow
<1>2. CASE at \in {"idle", "load", "ack", "markfailed"}
  BY <1>2 DEF Steps, Reached, PostgresGone
<1>3. CASE Load(w)
  <2>1. /\ work'[w].row = r /\ work'[w].ids = ledger[r].ids /\ ledger' = ledger
        /\ at = IF Completed(r) THEN "ack" ELSE IF ledger[r].ids = {} THEN "resolve" ELSE "postgres"
    BY <1>3 DEF Load, GotoWith, Completed
  <2>. QED
    BY <2>1 DEF Steps, Reached, PostgresGone, Completed
<1>4. CASE ResolveDistinctIDs(w) /\ at = "freeze" /\ work'[w].row = r
  BY <1>4 DEF ResolveDistinctIDs, SInv, OwnRow, Steps, Reached, PostgresGone, Completed
<1>5. CASE /\ work'[w].row = r /\ work'[w].ids = work[w].ids
           /\ Freeze(w) /\ at = "postgres" /\ SetFrozen(r, work[w].ids)
  <2>1. ledger'[r].ids = work[w].ids /\ ledger'[r].status = "processing"
    BY <1>0, <1>5 DEF SetFrozen, Freeze
  <2>. QED
    BY <1>5, <2>1 DEF Completed, Reached, PostgresGone
<1>6. CASE /\ work'[w].row = r /\ work'[w].ids = work[w].ids
           /\ \/ HardDeletePostgres(w) /\ at = "events"
              \/ EraseEvents(w) /\ at = "activity"
              \/ EraseActivity(w) /\ at = "aliases"
              \/ EraseAliases(w) /\ at = "profiles"
              \/ EraseProfiles(w) /\ at = "complete"
  <2>1. Reached(w) /\ work[w].at \in Steps \ {"load"} /\ UNCHANGED ledger
    BY <1>6 DEF HardDeletePostgres, EraseEvents, EraseActivity, EraseAliases, EraseProfiles,
       Reached, PostgresGone, Steps
  <2>2. ~Completed(work[w].row)' /\ work'[w].ids = ledger'[work'[w].row].ids
    BY <1>6, <2>1 DEF SInv, OwnRow, Completed
  <2>3. at = "complete" => work'[w].ids \cap chProfiles' = {}
    BY <1>6 DEF EraseProfiles
  <2>4. ledger'[r].profile = Profile => NoProfile'
    <3>1. CASE HardDeletePostgres(w)
      BY <2>1, <3>1 DEF HardDeletePostgres, NoProfile
    <3>2. CASE ~HardDeletePostgres(w)
      <4>1. PostgresGone(w)
        BY <1>6, <3>2 DEF EraseEvents, EraseActivity, EraseAliases, EraseProfiles, PostgresGone
      <4>. QED
        BY <2>1, <4>1, WorkerKeeps DEF SInv, OwnRow
    <3>. QED
      BY <3>1, <3>2
  <2>5. at \notin {"resolve", "freeze"}
    BY <1>6
  <2>. QED
    BY <1>6, <2>2, <2>3, <2>4, <2>5
<1>. QED
  BY <1>2, <1>3, <1>4, <1>5, <1>6, WorkerGoes

(* Nobody but the delivery that completes a row, which has emptied the     *)
(* profiles of what it froze, takes a row out of those that are left to do.*)
LEMMA WorkerLeftTo ==
    ASSUME TypeOK, References, SInv, NEW w \in Workers, WorkerStep(w),
           NEW id \in chProfiles, LeftTo(id)
    PROVE  LeftTo(id)'
<1>1. PICK o \in Rows : ~Completed(o) /\ id \in ledger[o].ids
  BY DEF LeftTo
<1>2. id \in ledger'[o].ids
  <2>1. Freeze(w) => ledger[work[w].row].ids = {}
    BY DEF Freeze, SInv, OwnRow
  <2>. QED
    BY <1>1, <2>1, WorkerKeeps
<1>3. ~Completed(o)'
  <2>1. Complete(w) => id \notin ledger[work[w].row].ids
    BY DEF Complete, SInv, OwnRow, Reached, PostgresGone
  <2>. QED
    BY <1>1, <2>1, WorkerKeeps
<1>. QED
  BY <1>2, <1>3 DEF LeftTo

LEMMA WorkerSInv ==
    ASSUME TypeOK, References, IInv, SInv, \A u, v \in Workers : u = v,
           NEW w \in Workers, WorkerStep(w)
    PROVE  SInv'
<1>. USE DEF TypeOK
<1>1. Unused'
  <2>1. Freeze(w) => ledger[work[w].row].status # "none"
    BY DEF Freeze, References, Exists
  <2>. QED
    BY <2>1, WorkerKeeps DEF SInv, Unused
<1>2. AliasesLeft'
  <2>. SUFFICES ASSUME NEW al \in (Aliases \ aliasRows') \cap chProfiles' PROVE LeftTo(al)'
    BY DEF AliasesLeft
  <2>1. al \in chProfiles
    BY WorkerKeeps
  <2>2. LeftTo(al)
    <3>1. CASE al \notin aliasRows
      BY <2>1, <3>1 DEF SInv, AliasesLeft
    <3>2. CASE al \in aliasRows
      <4>1. EraseAliases(w) /\ ledger[work[w].row].profile = Profile
        BY <3>2, WorkerKeeps DEF EraseAliases
      <4>2. Covers(work[w].row, work[w].ids)
        BY <4>1 DEF EraseAliases, IInv, WorkInOrder, Holding, Steps
      <4>3. al \in work[w].ids
        BY <3>2, <4>1, <4>2 DEF Covers, Resolvable
      <4>4. /\ ~Completed(work[w].row) /\ work[w].ids = ledger[work[w].row].ids
            /\ work[w].row \in Rows
        BY <4>1 DEF EraseAliases, SInv, OwnRow, Reached, PostgresGone, Steps, References, Exists
      <4>. QED
        BY <4>3, <4>4 DEF LeftTo
    <3>. QED
      BY <3>1, <3>2
  <2>. QED
    BY <2>1, <2>2, WorkerLeftTo
<1>3. CompletedErasesProfiles'
  <2>. SUFFICES ASSUME NEW r \in Rows, Completed(r)'
                PROVE  /\ \A id \in claim[r] \cap chProfiles' : LeftTo(id)'
                       /\ Profile \in claim[r] => NoProfile'
    BY WorkerFrame DEF CompletedErasesProfiles, NoProfile
  <2>1. CASE Completed(r)
    <3>1. \A id \in claim[r] \cap chProfiles : LeftTo(id)
      BY <2>1 DEF SInv, PromiseRecorded, CompletedErasesProfiles
    <3>2. Profile \in claim[r] => NoProfile
      BY <2>1 DEF SInv, PromiseRecorded, CompletedErasesProfiles, NoProfile
    <3>. QED
      BY <3>1, <3>2, WorkerKeeps, WorkerLeftTo
  <2>2. CASE Complete(w) /\ r = work[w].row
    <3>1. /\ Covers(r, work[w].ids) /\ work[w].ids \cap chProfiles = {}
          /\ ledger[r].profile = Profile => NoProfile
      BY <2>2 DEF Complete, IInv, WorkInOrder, Holding, Steps, SInv, OwnRow, PostgresGone
    <3>2. ASSUME NEW id \in claim[r] \cap chProfiles' PROVE LeftTo(id)'
      <4>1. id \in chProfiles
        BY WorkerKeeps
      <4>2. id \in Aliases \ aliasRows
        BY <3>1, <4>1 DEF IInv, ClaimBounded, Covers, Resolvable
      <4>. QED
        BY <4>1, <4>2, WorkerLeftTo DEF SInv, AliasesLeft
    <3>3. Profile \in claim[r] => ledger[r].profile = Profile
      <4>1. ledger[r].external # Profile
        BY SubjectAssumption DEF Row, Ids
      <4>. QED
        BY <4>1, SubjectAssumption DEF IInv, ClaimBounded
    <3>. QED
      BY <3>1, <3>2, <3>3, WorkerKeeps
  <2>. QED
    BY <2>1, <2>2, WorkerKeeps
<1>4. AuditNamesErased'
  <2>. SUFFICES ASSUME NEW id \in Ids \ events'
                PROVE  \E r \in Rows : id \in ledger'[r].ids
    BY DEF AuditNamesErased
  <2>1. \E r \in Rows : id \in ledger[r].ids
    <3>1. CASE id \notin events
      BY <3>1 DEF SInv, PromiseRecorded, AuditNamesErased
    <3>2. CASE id \in events
      <4>1. EraseEvents(w) /\ id \in work[w].ids
        BY <3>2, WorkerKeeps DEF EraseEvents
      <4>2. work[w].ids = ledger[work[w].row].ids /\ work[w].row \in Rows
        BY <4>1 DEF EraseEvents, SInv, OwnRow, Reached, PostgresGone, References, Exists
      <4>. QED
        BY <4>1, <4>2
    <3>. QED
      BY <3>1, <3>2
  <2>2. PICK r \in Rows : id \in ledger[r].ids
    BY <2>1
  <2>3. Freeze(w) => ledger[work[w].row].ids = {}
    BY DEF Freeze, SInv, OwnRow
  <2>. QED
    BY <2>2, <2>3, WorkerKeeps
<1>. QED
  BY <1>1, <1>2, <1>3, <1>4, WorkerOwnRow DEF SInv, PromiseRecorded

(* With deliveries one at a time, through every crash, retry, dead letter  *)
(* and re-drive of any number of callers: a completed request left no      *)
(* PostgreSQL profile or device, and a ClickHouse profile under an id it   *)
(* could name only where another request, not completed, has frozen the    *)
(* id; and the ledger names every id whose events are gone.                *)
THEOREM ErasureKeepsPromise ==
    ASSUME \A u, v \in Workers : u = v
    PROVE  Spec => []PromiseRecorded
<1>1. TypeOK /\ References /\ IInv /\ SInv /\ [Next]_vars => IInv' /\ SInv'
  <2>. SUFFICES ASSUME TypeOK, References, IInv, SInv, [Next]_vars PROVE IInv' /\ SInv'
    OBVIOUS
  <2>1. CASE \E c \in Callers : CallerNext(c)
    BY <2>1, CallerIInv, CallerSInv
  <2>2. CASE \E w \in Workers : WorkerStep(w)
    BY <2>2, WorkerIInv, WorkerSInv
  <2>3. CASE UNCHANGED vars \/ \E id \in LateIds : Arrive(id)
    <3>1. IInv'
      BY <2>3 DEF vars, stores, Arrive, IInv, ClaimBounded, FrozenCovers, Covers, Resolvable,
         AliasesLast, WorkInOrder, Holding, EventsGone, ActivityGone, CompletedErasesEvents, Completed
    <3>2. SInv'
      BY <2>3 DEF vars, stores, Arrive, SInv, Unused, OwnRow, Reached, PostgresGone, NoProfile,
         AliasesLeft, LeftTo, PromiseRecorded, CompletedErasesProfiles, AuditNamesErased, Completed
    <3>. QED
      BY <3>1, <3>2
  <2>. QED
    BY <2>1, <2>2, <2>3 DEF Next, WorkerStep
<1>2. SInv => PromiseRecorded
  BY DEF SInv
<1>. QED
  BY <1>1, <1>2, InitIInv, InitSInv, TypeCorrect, PTL DEF Spec
=============================================================================
