------------------------------ MODULE Erasure ------------------------------
(***************************************************************************)
(* Data-subject erasure: the compliance_requests ledger, the synchronous   *)
(* prelude that opens or re-drives a request, the compliance worker that   *)
(* executes it, and the stores it empties (src/internal/core/profiles/     *)
(* erasure.go, src/internal/app/workers/compliance/compliance.go).         *)
(*                                                                         *)
(* One data subject of one project: a profile id, the external_id it was   *)
(* identified with, and the anonymous ids merged into it.  Every one of    *)
(* them is a distinct_id events may be stored under.  A call reads and     *)
(* writes PostgreSQL and ClickHouse in separate statements, so each        *)
(* statement is a step; the compliance worker runs several deliveries at   *)
(* once, and one request may have several messages (each re-drive          *)
(* publishes another).  MaxRows, MaxMsgs and MaxFaults bound the ledger,   *)
(* the stream, and the crashes and failed statements of a behaviour.       *)
(***************************************************************************)
EXTENDS Naturals, FiniteSets

CONSTANTS
    Profile,     \* profiles.id of the subject
    External,    \* its external_id
    Aliases,     \* anonymous ids an identify merge linked to the profile
    NoId,        \* SQL NULL / the empty string
    Callers,     \* concurrent RPC handlers asking for the erasure
    Asked,       \* bound: the ids they may name the subject by, beside External
    LateIds,     \* ids that may see events after the first request
    Workers,     \* concurrent deliveries the compliance worker processes
    MaxRows, MaxMsgs, MaxFaults,
    MaxDeliver   \* consumers.yaml max_deliver

Ids == {Profile, External} \cup Aliases
Rows == 1..MaxRows
Msgs == 1..MaxMsgs

ASSUME SubjectAssumption ==
    /\ Profile # External
    /\ Profile \notin Aliases /\ External \notin Aliases
    /\ NoId \notin Ids
    /\ LateIds \subseteq Ids
    /\ Asked \subseteq Ids

ASSUME BoundsAssumption ==
    /\ MaxRows \in Nat /\ MaxMsgs \in Nat /\ MaxFaults \in Nat
    /\ MaxDeliver \in Nat \ {0}

VARIABLES
    ledger,      \* the compliance_requests rows, in requested_at order
    msgs,        \* the erase messages on the compliance stream
    call,        \* each caller's progress through RequestErasureBy*
    work,        \* each worker's progress through handleErase
    pgProfile,   \* the PostgreSQL profile row
    devices,     \* its device rows
    events,      \* ids with events stored before the first request
    activity,    \* ids with rows in distinct_id_activity_states, likewise
    late,        \* ids with activity rows that arrived since
    aliasRows,   \* profile_aliases rows (all point at Profile)
    chProfiles,  \* ids with rows in the ClickHouse profiles table
    claim,       \* history: the ids a row's request could name when it was made
    faults       \* crashes and failed statements so far

stores == <<pgProfile, devices, events, activity, late, aliasRows, chProfiles>>
vars == <<ledger, msgs, call, work, stores, claim, faults>>

Statuses == {"pending", "processing", "completed", "failed"}
Row == [status: Statuses \cup {"none"}, profile: Ids \cup {NoId},
        external: {External, NoId}, ids: SUBSET Ids]
NoRow == [status |-> "none", profile |-> NoId, external |-> NoId, ids |-> {}]

Msg == [row: Rows \cup {0}, deliveries: 0..MaxDeliver, settled: BOOLEAN]
NoMsg == [row |-> 0, deliveries |-> 0, settled |-> FALSE]

CallSteps == {"idle", "resolve", "alias", "reopen", "canonical", "external",
              "request", "probe", "insert", "revive", "publish"}
Call == [at: CallSteps, profile: Ids \cup {NoId}, external: {External, NoId},
         row: Rows \cup {0}]
IdleCall == [at |-> "idle", profile |-> NoId, external |-> NoId, row |-> 0]

Steps == {"load", "resolve", "freeze", "postgres", "events", "activity",
          "aliases", "profiles", "complete"}
Work == [at: Steps \cup {"idle", "ack", "markfailed"}, msg: Msgs \cup {0},
         row: Rows \cup {0}, last: BOOLEAN, ids: SUBSET Ids]
IdleWork == [at |-> "idle", msg |-> 0, row |-> 0, last |-> FALSE, ids |-> {}]

TypeOK ==
    /\ ledger \in [Rows -> Row]
    /\ msgs \in [Msgs -> Msg]
    /\ call \in [Callers -> Call]
    /\ work \in [Workers -> Work]
    /\ pgProfile \in {"live", "hidden", "none"}
    /\ devices \in {"active", "inactive", "none"}
    /\ events \subseteq Ids
    /\ activity \subseteq Ids
    /\ late \subseteq Ids
    /\ aliasRows \subseteq Aliases
    /\ chProfiles \subseteq Ids
    /\ claim \in [Rows -> SUBSET Ids]
    /\ faults \in 0..MaxFaults

Init ==
    /\ ledger = [r \in Rows |-> NoRow]
    /\ msgs = [m \in Msgs |-> NoMsg]
    /\ call = [c \in Callers |-> IdleCall]
    /\ work = [w \in Workers |-> IdleWork]
    /\ pgProfile = "live"
    /\ devices = "active"
    /\ events = Ids
    /\ activity = Ids
    /\ late = {}
    /\ aliasRows = Aliases
    /\ chProfiles = {Profile} \cup Aliases
    /\ claim = [r \in Rows |-> {}]
    /\ faults = 0

-----------------------------------------------------------------------------
(* The prelude.                                                            *)

Open(row) == row.status \in {"pending", "processing"}

(* The open-status unique indexes of migration 015.                        *)
Conflicts(r, p, e) ==
    \E o \in Rows \ {r} :
        /\ Open(ledger[o])
        /\ \/ p # NoId /\ ledger[o].profile = p
           \/ e # NoId /\ ledger[o].external = e

(* GetReopenableComplianceRequest: the latest row not completed that       *)
(* matches either key.                                                     *)
Reopenable(p, e) ==
    {r \in Rows : /\ ledger[r].status \in Statuses \ {"completed"}
                  /\ \/ p # NoId /\ ledger[r].profile = p
                     \/ e # NoId /\ ledger[r].external = e}

(* From here on a call is about one row of the ledger.                     *)
CallRow(c, step, r) ==
    call' = [call EXCEPT ![c] = [at |-> step, profile |-> NoId, external |-> NoId, row |-> r]]

(* reopenErasure's lookup: a failed row is revived before it is published, *)
(* an open one is only published again.                                    *)
Redrive(c, p, e) ==
    \E r \in Reopenable(p, e) :
        /\ \A o \in Reopenable(p, e) : o <= r
        /\ CallRow(c, IF ledger[r].status = "failed" THEN "revive" ELSE "publish", r)

CallInsert(c, p, e) ==
    call' = [call EXCEPT ![c] = [at |-> "insert", profile |-> p,
                                 external |-> e, row |-> 0]]
CallGoto(c, step) == call' = [call EXCEPT ![c].at = step]
Return(c) == call' = [call EXCEPT ![c] = IdleCall]

LookupOr(c, p, e, Otherwise) ==
    \/ Redrive(c, p, e)
    \/ Reopenable(p, e) = {} /\ Otherwise

(* RequestErasureByID(p) when e is NoId, RequestErasureByExternalID(e)     *)
(* when p is: both look for a row to re-drive first.                       *)
Request(c, p, e) ==
    /\ call[c].at = "idle"
    /\ LookupOr(c, p, e,
          call' = [call EXCEPT ![c] = [at |-> "resolve", profile |-> p,
                                       external |-> e, row |-> 0]])
    /\ UNCHANGED <<ledger, msgs, work, stores, claim, faults>>

(* The rest of RequestErasureByExternalID: erased with its profile, or by  *)
(* the bare external_id when no live profile has it.                       *)
ResolveExternal(c) ==
    /\ call[c].at = "resolve"
    /\ call[c].external = External
    /\ CallInsert(c, IF pgProfile = "live" THEN Profile ELSE NoId, External)
    /\ UNCHANGED <<ledger, msgs, work, stores, claim, faults>>

(* The rest of RequestErasureByID: the live profile, else what its id may  *)
(* name besides one.                                                       *)
ResolveID(c) ==
    /\ call[c].at = "resolve"
    /\ call[c].external = NoId
    /\ IF call[c].profile = Profile /\ pgProfile = "live"
         THEN CallInsert(c, Profile, External)
         ELSE CallGoto(c, "alias")
    /\ UNCHANGED <<ledger, msgs, work, stores, claim, faults>>

(* requestErasureByUnresolvedID: an alias names its canonical, whose row   *)
(* is re-driven or whose live profile erased.  A canonical is no alias     *)
(* itself here, so its lookup never fails closed.                          *)
ResolveAlias(c) ==
    /\ call[c].at = "alias"
    /\ CallGoto(c, IF call[c].profile \in aliasRows THEN "reopen" ELSE "external")
    /\ UNCHANGED <<ledger, msgs, work, stores, claim, faults>>

ReopenCanonical(c) ==
    /\ call[c].at = "reopen"
    /\ LookupOr(c, Profile, NoId, CallGoto(c, "canonical"))
    /\ UNCHANGED <<ledger, msgs, work, stores, claim, faults>>

ResolveCanonical(c) ==
    /\ call[c].at = "canonical"
    /\ IF pgProfile = "live" THEN CallInsert(c, Profile, External)
                             ELSE CallGoto(c, "external")
    /\ UNCHANGED <<ledger, msgs, work, stores, claim, faults>>

(* An external_id in id position starts over as one, ...                   *)
ResolveAsExternal(c) ==
    /\ call[c].at = "external"
    /\ IF call[c].profile = External /\ pgProfile = "live"
         THEN call' = [call EXCEPT ![c] = [at |-> "request", profile |-> NoId,
                                           external |-> External, row |-> 0]]
         ELSE CallGoto(c, "probe")
    /\ UNCHANGED <<ledger, msgs, work, stores, claim, faults>>

ReopenExternal(c) ==
    /\ call[c].at = "request"
    /\ LookupOr(c, NoId, External, CallGoto(c, "resolve"))
    /\ UNCHANGED <<ledger, msgs, work, stores, claim, faults>>

(* ... any other is a bare id the activity rollup knows, or not found.     *)
HasActivity(id) == id \in activity \/ id \in late

Probe(c) ==
    /\ call[c].at = "probe"
    /\ IF HasActivity(call[c].profile) THEN CallInsert(c, call[c].profile, NoId)
                                       ELSE Return(c)
    /\ UNCHANGED <<ledger, msgs, work, stores, claim, faults>>

Unresolved(c) ==
    \/ ResolveAlias(c) \/ ReopenCanonical(c) \/ ResolveCanonical(c)
    \/ ResolveAsExternal(c) \/ ReopenExternal(c) \/ Probe(c)

(* What a request naming p and e can be resolved to: resolveDistinctIDs.   *)
Resolvable(p, e) ==
    ({p, e} \ {NoId}) \cup (IF p = Profile THEN aliasRows ELSE {})

NextRow(r) == ledger[r].status = "none" /\ \A o \in 1..(r-1) : ledger[o].status # "none"

(* requestErasure's transaction: insert the row, hide the profile, turn    *)
(* its devices off.                                                        *)
InsertRow(c) ==
    LET p == call[c].profile
        e == call[c].external
    IN  /\ call[c].at = "insert"
        /\ ~Conflicts(0, p, e)
        /\ \E r \in Rows :
             /\ NextRow(r)
             /\ ledger' = [ledger EXCEPT ![r] = [status |-> "pending", profile |-> p,
                                                 external |-> e, ids |-> {}]]
             /\ claim' = [claim EXCEPT ![r] = Resolvable(p, e)]
             /\ CallRow(c, "publish", r)
        /\ pgProfile' = IF p = Profile /\ pgProfile = "live" THEN "hidden" ELSE pgProfile
        /\ devices' = IF p = Profile /\ devices = "active" THEN "inactive" ELSE devices
        /\ UNCHANGED <<msgs, work, events, activity, late, aliasRows, chProfiles, faults>>

(* The unique violation: re-drive the winner, or report the error when it  *)
(* has completed meanwhile.                                                *)
InsertConflict(c) ==
    /\ call[c].at = "insert"
    /\ Conflicts(0, call[c].profile, call[c].external)
    /\ LookupOr(c, call[c].profile, call[c].external, Return(c))
    /\ UNCHANGED <<ledger, msgs, work, stores, claim, faults>>

(* Mutant of Revive: the re-drive also drops the frozen ids.               *)
ReviveResolvesAgain(c) ==
    LET r == call[c].row
    IN  /\ call[c].at = "revive"
        /\ ledger[r].status # "completed"
        /\ ledger' = [ledger EXCEPT ![r].status = "pending", ![r].ids = {}]
        /\ call' = [call EXCEPT ![c].at = "publish"]
        /\ UNCHANGED <<msgs, work, stores, claim, faults>>

(* ReopenComplianceRequest: never a completed row, and never a second open *)
(* row for a subject (the update trips the index and the call fails).      *)
Revive(c) ==
    LET r == call[c].row
    IN  /\ call[c].at = "revive"
        /\ \/ /\ ledger[r].status = "completed"
              /\ UNCHANGED ledger
              /\ call' = [call EXCEPT ![c].at = "publish"]
           \/ /\ ledger[r].status # "completed"
              /\ ~Conflicts(r, ledger[r].profile, ledger[r].external)
              /\ ledger' = [ledger EXCEPT ![r].status = "pending"]
              /\ call' = [call EXCEPT ![c].at = "publish"]
           \/ /\ ledger[r].status # "completed"
              /\ Conflicts(r, ledger[r].profile, ledger[r].external)
              /\ UNCHANGED ledger
              /\ Return(c)
        /\ UNCHANGED <<msgs, work, stores, claim, faults>>

(* publishErase.                                                           *)
Publish(c) ==
    /\ call[c].at = "publish"
    /\ \E m \in Msgs :
         /\ msgs[m].row = 0
         /\ \A o \in 1..(m-1) : msgs[o].row # 0
         /\ msgs' = [msgs EXCEPT ![m].row = call[c].row]
    /\ Return(c)
    /\ UNCHANGED <<ledger, work, stores, claim, faults>>

(* A failed statement, a failed publish or a crash of the server ends the  *)
(* call; what it committed stays.                                          *)
CallFails(c) ==
    /\ call[c].at # "idle"
    /\ Return(c)
    /\ UNCHANGED <<ledger, msgs, work, stores, claim, faults>>

(* Ingestion goes on: events under any of the ids may arrive later.        *)
Arrive(id) ==
    /\ id \notin late
    /\ late' = late \cup {id}
    /\ UNCHANGED <<ledger, msgs, call, work, pgProfile, devices, events, activity,
                   aliasRows, chProfiles, claim, faults>>

-----------------------------------------------------------------------------
(* The compliance worker.                                                  *)

Goto(w, step) == work' = [work EXCEPT ![w].at = step]
GotoWith(w, step, ids) ==
    work' = [work EXCEPT ![w] = [at |-> step, msg |-> work[w].msg, row |-> work[w].row,
                                 last |-> work[w].last, ids |-> ids]]
Idle(w) == work' = [work EXCEPT ![w] = IdleWork]
Settle(m) == msgs' = [msgs EXCEPT ![m].settled = TRUE]

(* An error out of ExecuteErasure: nak and wait for the redelivery, or on  *)
(* the last delivery record the failure first.                             *)
Errs(w) == IF work[w].last THEN Goto(w, "markfailed") ELSE Idle(w)

Faulty == faults < MaxFaults /\ faults' = faults + 1

(* The statement took effect and the worker goes on, or its answer was     *)
(* lost and the worker sees an error.                                      *)
DoneOrLost(w, next) ==
    \/ Goto(w, next) /\ UNCHANGED faults
    \/ Errs(w) /\ Faulty

(* JetStream delivers a message that is not settled, again when its nak    *)
(* delay or its AckWait runs out (the earlier attempt may still be         *)
(* running), MaxDeliver times at most.  Unreadable metadata counts as the  *)
(* last delivery.                                                          *)
Deliver(w, m) ==
    /\ work[w].at = "idle"
    /\ msgs[m].row # 0 /\ ~msgs[m].settled
    /\ msgs[m].deliveries < MaxDeliver
    /\ msgs' = [msgs EXCEPT ![m].deliveries = @ + 1]
    /\ \E last \in BOOLEAN :
         /\ work' = [work EXCEPT ![w] = [at |-> "load", msg |-> m, row |-> msgs[m].row,
                                         last |-> last, ids |-> {}]]
         /\ \/ last = (msgs[m].deliveries + 1 >= MaxDeliver) /\ UNCHANGED faults
            \/ last /\ Faulty
    /\ UNCHANGED <<ledger, call, stores, claim>>

(* Mutant of Load: a row already in processing is taken for somebody       *)
(* else's work and its message acknowledged.                               *)
LoadSkipsProcessing(w) ==
    LET row == ledger[work[w].row]
    IN  /\ work[w].at = "load"
        /\ GotoWith(w, IF row.status \in {"processing", "completed"} THEN "ack"
                       ELSE IF row.ids = {} THEN "resolve" ELSE "postgres", row.ids)
        /\ UNCHANGED <<ledger, msgs, call, stores, claim, faults>>

(* ExecuteErasure's read of the row: nothing to do once it is completed,   *)
(* and the frozen ids are reused once there are any.                       *)
Load(w) ==
    LET row == ledger[work[w].row]
    IN  /\ work[w].at = "load"
        /\ GotoWith(w, IF row.status = "completed" THEN "ack"
                       ELSE IF row.ids = {} THEN "resolve" ELSE "postgres", row.ids)
        /\ UNCHANGED <<ledger, msgs, call, stores, claim, faults>>

ResolveDistinctIDs(w) ==
    LET row == ledger[work[w].row]
    IN  /\ work[w].at = "resolve"
        /\ GotoWith(w, "freeze", Resolvable(row.profile, row.external))
        /\ UNCHANGED <<ledger, msgs, call, stores, claim, faults>>

SetFrozen(r, ids) ==
    ledger' = [ledger EXCEPT ![r] = [status |-> "processing", profile |-> ledger[r].profile,
                                     external |-> ledger[r].external, ids |-> ids]]

(* Mutant of Freeze: only the status is written, the ids stay in memory.   *)
FreezeKeepsIdsInMemory(w) ==
    /\ work[w].at = "freeze"
    /\ ledger' = [ledger EXCEPT ![work[w].row].status = "processing"]
    /\ DoneOrLost(w, "postgres")
    /\ UNCHANGED <<msgs, call, stores, claim>>

(* Mutant of Freeze: its outcome is not checked before the deletes.        *)
FreezeUnchecked(w) ==
    LET r == work[w].row
    IN  /\ work[w].at = "freeze"
        /\ \/ /\ SetFrozen(r, work[w].ids)
              /\ UNCHANGED faults
           \/ UNCHANGED ledger /\ Faulty
        /\ Goto(w, "postgres")
        /\ UNCHANGED <<msgs, call, stores, claim>>

(* FreezeComplianceRequestIdentifiers writes whatever the status is; it    *)
(* can trip the open-status index when another row has been opened since.  *)
Freeze(w) ==
    LET r == work[w].row
    IN  /\ work[w].at = "freeze"
        /\ \/ /\ ~Conflicts(r, ledger[r].profile, ledger[r].external)
              /\ SetFrozen(r, work[w].ids)
              /\ DoneOrLost(w, "postgres")
           \/ /\ Conflicts(r, ledger[r].profile, ledger[r].external)
              /\ Errs(w)
              /\ UNCHANGED <<ledger, faults>>
        /\ UNCHANGED <<msgs, call, stores, claim>>

(* hardDeletePostgres: devices, then the profile, in one transaction.      *)
HardDeletePostgres(w) ==
    LET mine == ledger[work[w].row].profile = Profile
    IN  /\ work[w].at = "postgres"
        /\ devices' = IF mine THEN "none" ELSE devices
        /\ pgProfile' = IF mine THEN "none" ELSE pgProfile
        /\ DoneOrLost(w, "events")
        /\ UNCHANGED <<ledger, msgs, call, events, activity, late, aliasRows,
                       chProfiles, claim>>

(* Mutant of EraseEvents: the alias rows go first.                         *)
EraseEventsAfterAliases(w) ==
    /\ work[w].at = "events"
    /\ aliasRows' = IF ledger[work[w].row].profile = Profile THEN {} ELSE aliasRows
    /\ \/ events' = events \ work[w].ids /\ Goto(w, "activity") /\ UNCHANGED faults
       \/ UNCHANGED events /\ Errs(w) /\ Faulty
    /\ UNCHANGED <<ledger, msgs, call, pgProfile, devices, activity, late,
                   chProfiles, claim>>

(* eraseClickHouse, one mutation per step, in its order.                   *)
EraseEvents(w) ==
    /\ work[w].at = "events"
    /\ events' = events \ work[w].ids
    /\ DoneOrLost(w, "activity")
    /\ UNCHANGED <<ledger, msgs, call, pgProfile, devices, activity, late,
                   aliasRows, chProfiles, claim>>

EraseActivity(w) ==
    /\ work[w].at = "activity"
    /\ activity' = activity \ work[w].ids
    /\ late' = late \ work[w].ids
    /\ DoneOrLost(w, "aliases")
    /\ UNCHANGED <<ledger, msgs, call, pgProfile, devices, events, aliasRows,
                   chProfiles, claim>>

EraseAliases(w) ==
    /\ work[w].at = "aliases"
    /\ aliasRows' = IF ledger[work[w].row].profile = Profile THEN {} ELSE aliasRows
    /\ DoneOrLost(w, "profiles")
    /\ UNCHANGED <<ledger, msgs, call, pgProfile, devices, events, activity, late,
                   chProfiles, claim>>

EraseProfiles(w) ==
    /\ work[w].at = "profiles"
    /\ chProfiles' = chProfiles \ work[w].ids
    /\ DoneOrLost(w, "complete")
    /\ UNCHANGED <<ledger, msgs, call, pgProfile, devices, events, activity, late,
                   aliasRows, claim>>

(* Mutant of Complete: a status the column's CHECK does not allow.         *)
CompleteAsDone(w) ==
    /\ work[w].at = "complete"
    /\ ledger' = [ledger EXCEPT ![work[w].row].status = "done"]
    /\ DoneOrLost(w, "ack")
    /\ UNCHANGED <<msgs, call, stores, claim>>

Complete(w) ==
    /\ work[w].at = "complete"
    /\ ledger' = [ledger EXCEPT ![work[w].row].status = "completed"]
    /\ DoneOrLost(w, "ack")
    /\ UNCHANGED <<msgs, call, stores, claim>>

(* The handler returned nil.  A lost ack leaves the message to be          *)
(* redelivered.                                                            *)
Ack(w) ==
    /\ work[w].at = "ack"
    /\ Idle(w)
    /\ \/ Settle(work[w].msg) /\ UNCHANGED faults
       \/ Faulty /\ UNCHANGED msgs
    /\ UNCHANGED <<ledger, call, stores, claim>>

(* MarkErasureFailed on the last delivery, then the dead letter and the    *)
(* Term.  It is best effort: when the write fails (the attempt's own       *)
(* deadline has often expired by then) the row keeps its status.           *)
MarkFailed(w) ==
    /\ work[w].at = "markfailed"
    /\ \/ /\ ledger' = [ledger EXCEPT ![work[w].row].status = "failed"]
          /\ UNCHANGED faults
       \/ UNCHANGED ledger /\ Faulty
    /\ Settle(work[w].msg)
    /\ Idle(w)
    /\ UNCHANGED <<call, stores, claim>>

(* A statement fails without effect.                                       *)
StepFails(w) ==
    /\ work[w].at \in Steps
    /\ Faulty
    /\ Errs(w)
    /\ UNCHANGED <<ledger, msgs, call, stores, claim>>

(* The worker process dies: nothing is acked, nak'd or recorded.           *)
Crash(w) ==
    /\ work[w].at # "idle"
    /\ Faulty
    /\ Idle(w)
    /\ UNCHANGED <<ledger, msgs, call, stores, claim>>

-----------------------------------------------------------------------------
CallerNext(c) ==
    \/ \E id \in Asked : Request(c, id, NoId)
    \/ Request(c, NoId, External)
    \/ ResolveExternal(c) \/ ResolveID(c) \/ Unresolved(c)
    \/ InsertRow(c) \/ InsertConflict(c)
    \/ Revive(c) \/ Publish(c) \/ CallFails(c)

Progress(w) ==
    \/ Load(w) \/ ResolveDistinctIDs(w) \/ Freeze(w)
    \/ HardDeletePostgres(w)
    \/ EraseEvents(w) \/ EraseActivity(w) \/ EraseAliases(w) \/ EraseProfiles(w)
    \/ Complete(w) \/ Ack(w) \/ MarkFailed(w)

Next ==
    \/ \E c \in Callers : CallerNext(c)
    \/ \E w \in Workers, m \in Msgs : Deliver(w, m)
    \/ \E w \in Workers : Progress(w) \/ StepFails(w) \/ Crash(w)
    \/ \E id \in LateIds : Arrive(id)

Spec == Init /\ [][Next]_vars

(* The consumer loop keeps running and JetStream keeps redelivering: a     *)
(* started step ends and a deliverable message is eventually delivered.    *)
(* Callers, faults and ingestion owe nothing.                              *)
Fairness ==
    /\ \A w \in Workers : WF_vars(Progress(w))
    /\ \A m \in Msgs : WF_vars(\E w \in Workers : Deliver(w, m))
FairSpec == Spec /\ Fairness

-----------------------------------------------------------------------------
(* Properties.                                                             *)

Completed(r) == ledger[r].status = "completed"

(* No completed request leaves an event or an activity row under an id it  *)
(* could name when it was made, however deliveries overlap: what makes it  *)
(* so is that eraseClickHouse drops the alias rows, from which the ids are *)
(* resolved, only after the events and the activity of every alias.        *)
CompletedErasesEvents ==
    \A r \in Rows : Completed(r) => claim[r] \cap (events \cup activity) = {}

(* A request that is not completed and whose frozen ids still name id: a   *)
(* redelivery or a re-drive of it deletes what is under id.                *)
LeftTo(id) == \E o \in Rows : ~Completed(o) /\ id \in ledger[o].ids

(* Nor the PostgreSQL profile or a device, nor a ClickHouse profile but    *)
(* one under an id that another request has frozen and not completed: the  *)
(* frozen ids are what "a redelivery after the aliases are deleted still   *)
(* cleans every store" (ExecuteErasure) rests on, and a row opened after   *)
(* the aliases are deleted cannot resolve them any more.                   *)
CompletedErasesProfiles ==
    \A r \in Rows : Completed(r) =>
        /\ \A id \in claim[r] \cap chProfiles : LeftTo(id)
        /\ Profile \in claim[r] => pgProfile = "none" /\ devices = "none"

(* Every id whose events are gone is named by a ledger row: distinct_ids   *)
(* is the audit record of what was erased (migration 015), through every   *)
(* crash, retry and re-drive.                                              *)
AuditNamesErased ==
    Ids \ events \subseteq UNION {ledger[r].ids : r \in Rows}

(* Events are only ever deleted under ids a ledger row already holds, also *)
(* when two deliveries freeze the same row one after the other.            *)
DeletesOnlyRecorded ==
    [][events \ events' \subseteq UNION {ledger[r].ids : r \in Rows}]_vars

(* While fewer statements fail than there are deliveries, a published      *)
(* erase message gets its request completed, through redelivery, lost acks *)
(* and overlapping attempts.                                               *)
DrivenCompletes ==
    \A m \in Msgs, r \in Rows :
        (msgs[m].row = r /\ msgs[m].deliveries = 0) ~> Completed(r)

(* What a completed request promised the subject, and what the audit can   *)
(* show of it, of deliveries that do not overlap: two that freeze one row  *)
(* can drop an alias from it.                                              *)
PromiseRecorded == CompletedErasesProfiles /\ AuditNamesErased
=============================================================================
