-------------------------------- MODULE Purge --------------------------------
(* The deletion of one project: the request that hides it, and the purge job's
   passes, which count its usage once more, queue its ClickHouse deletes, empty
   its PostgreSQL tables, and watch for rows that come back.

   The deletion ledger row is the job's only state.  Passes hold an advisory lock,
   which a dropped connection can lose, so Passes may have more than one element;
   what that does to the usage it counts is in Usage.
   clock counts the hours since the request.  A table's rows are the project's
   "own" and the "late" ones, written once it is being deleted.                 *)
EXTENDS Integers, FiniteSets

CONSTANTS
  Tables,      \* the ClickHouse tables rows are deleted from
  EventTable,  \* the one usage is counted in
  Rebuilt,     \* the ones rebuilt from another, never deleted
  Source,      \* the table they are rebuilt from
  Passes,
  Hold,        \* hours a deletion waits before it starts
  RoundEvery,  \* hours between two rounds of deletes
  WatchFor,    \* hours a done deletion is watched
  KeyLife,     \* hours the API-key cache answers after the request
  MaxAge,      \* hours a stream keeps a message
  Horizon, MaxLate, \* bounds: the last hour, the late writes
  None         \* no time

AllTables == Tables \cup Rebuilt

ASSUME PurgeAssumption ==
  /\ EventTable \in Tables /\ Source \in Tables /\ Tables \cap Rebuilt = {}
  /\ {Hold, RoundEvery, WatchFor, KeyLife, MaxAge, Horizon, MaxLate} \subseteq Nat
  /\ None \notin Nat

VARIABLES
  clock,
  project,   \* the projects row
  deletion,  \* the project_deletions row
  usage,     \* the project's usage_daily count
  rows,      \* ClickHouse rows by table
  deletes,   \* deletes queued or running by table
  covered,   \* the rows the last of them covers
  pg,        \* whether PostgreSQL rows are left
  late,      \* writes since the request
  pass,      \* each pass's progress
  passed,    \* whether a pass has run to its end this hour
  calm       \* whether failures are over

vars == <<clock, project, deletion, usage, rows, deletes, covered, pg, late, pass, passed, calm>>
store == <<rows, deletes, covered, pg, late>>

Hours == 0 .. Horizon
NoDeletion == [status |-> "none", org |-> FALSE, round |-> None, done |-> None]
Idle == [pc |-> "idle", d |-> NoDeletion, now |-> 0, check |-> "none",
         running |-> {}, waiting |-> {}, todo |-> {}, count |-> 0]

count == Cardinality(rows[EventTable])

TypeOK ==
  /\ clock \in Hours
  /\ project \in {"live", "hidden", "gone"}
  /\ deletion \in [status : {"none", "pending", "deleting", "done"}, org : BOOLEAN,
                   round : Hours \cup {None}, done : Hours \cup {None}]
  /\ deletion.status = "done" <=> deletion.done # None
  /\ usage \in Nat
  /\ rows \in [AllTables -> SUBSET {"own", "late"}]
  /\ covered \in [Tables -> SUBSET {"own", "late"}]
  /\ deletes \in [Tables -> Nat]
  /\ pg \in BOOLEAN /\ late \in 0 .. MaxLate /\ passed \in BOOLEAN /\ calm \in BOOLEAN
  /\ DOMAIN pass = Passes

(* A live project, or one deleted before deletions were recorded. *)
Init ==
  /\ clock = 0
  /\ project \in {"live", "gone"}
  /\ deletion = NoDeletion
  /\ usage = 0
  /\ rows = [t \in AllTables |-> {"own"}]
  /\ covered = [t \in Tables |-> {}]
  /\ deletes = [t \in Tables |-> 0]
  /\ pg = (project = "live")
  /\ late = 0
  /\ pass = [p \in Passes |-> Idle]
  /\ passed = FALSE /\ calm = FALSE
-----------------------------------------------------------------------------
(* The request, and what goes on beside the job. *)

(* DeleteProject: one transaction hides the project and records its deletion.
   The operator's command does the same, and for an id with no projects row it
   records the deletion alone.                                                *)
Request ==
  /\ deletion.status = "none"
  /\ deletion' = [NoDeletion EXCEPT !.status = "pending", !.org = (project = "live")]
  /\ project' = IF project = "live" THEN "hidden" ELSE project
  /\ UNCHANGED <<clock, usage, store, pass, passed, calm>>

(* The operator's command on a done deletion opens it again. *)
RequestAgain ==
  /\ deletion.status = "done"
  /\ deletion' = [deletion EXCEPT !.status = "deleting", !.done = None]
  /\ UNCHANGED <<clock, project, usage, store, pass, passed, calm>>

(* The usage pass counts live projects only. *)
Meter ==
  /\ project = "live"
  /\ usage' = count
  /\ UNCHANGED <<clock, project, deletion, store, pass, passed, calm>>

(* A worker writes a message of the project: it was accepted while a key still
   resolved, and the stream keeps it so long.                                 *)
MayWrite ==
  /\ late < MaxLate
  /\ project = "live" \/ (deletion.status # "none" /\ clock < KeyLife + MaxAge)

Write(t) ==
  /\ MayWrite
  /\ rows' = [rows EXCEPT ![t] = @ \cup {"late"}]
  /\ covered' = [covered EXCEPT ![t] = @ \ {"late"}]
  /\ late' = late + 1
  /\ UNCHANGED <<clock, project, deletion, usage, deletes, pg, pass, passed, calm>>

(* PostgreSQL rows reference the projects row. *)
WritePostgres ==
  /\ MayWrite /\ project # "gone"
  /\ pg' = TRUE /\ late' = late + 1
  /\ UNCHANGED <<clock, project, deletion, usage, rows, deletes, covered, pass, passed, calm>>

Rebuild(t) ==
  /\ rows' = [rows EXCEPT ![t] = rows[Source]]
  /\ UNCHANGED <<clock, project, deletion, usage, deletes, covered, pg, late, pass, passed, calm>>

(* ClickHouse applies a delete; of two on one table the first may leave the rows
   only the second covers.                                                      *)
Apply(t) ==
  /\ deletes[t] > 0
  /\ deletes' = [deletes EXCEPT ![t] = @ - 1]
  /\ \/ rows' = [rows EXCEPT ![t] = @ \ covered[t]]
     \/ deletes[t] > 1 /\ rows' = rows
  /\ UNCHANGED <<clock, project, deletion, usage, covered, pg, late, pass, passed, calm>>

(* The job is scheduled every few minutes: no hour goes by without a pass that
   runs to its end, and none takes an hour.                                     *)
Tick ==
  /\ clock < Horizon /\ deletion.status # "none"
  /\ passed /\ \A p \in Passes : pass[p].pc # "idle" => pass[p].now = clock
  /\ clock' = clock + 1
  /\ passed' = FALSE
  /\ UNCHANGED <<project, deletion, usage, store, pass, calm>>
-----------------------------------------------------------------------------
(* A pass.  It works from the row it listed. *)

Goto(p, next) == pass' = [pass EXCEPT ![p] = next]
End(p) == Goto(p, Idle) /\ passed' = TRUE
CheckFor(p, why) == [pass[p] EXCEPT !.pc = "running", !.check = why]

Waits(d, now) == d.status = "pending" /\ now < Hold
Watched(d, now) == d.status # "done" \/ d.done >= now - WatchFor

List(p) ==
  /\ pass[p].pc = "idle" /\ deletion.status # "none"
  /\ LET listed == [Idle EXCEPT !.d = deletion, !.now = clock]
     IN  IF Waits(deletion, clock) \/ ~Watched(deletion, clock) THEN End(p)
         ELSE /\ CASE deletion.status = "pending" -> Goto(p, [listed EXCEPT !.pc = "count"])
                   [] deletion.status = "deleting" ->
                        Goto(p, [listed EXCEPT !.pc = "running", !.check = "erase"])
                   [] deletion.status = "done" ->
                        Goto(p, [listed EXCEPT !.pc = "running", !.check = "watch"])
              /\ UNCHANGED passed
  /\ UNCHANGED <<clock, project, deletion, usage, store, calm>>

(* begin counts the usage before its transaction; with no org there is none. *)
Count(p) ==
  /\ pass[p].pc = "count"
  /\ Goto(p, [pass[p] EXCEPT !.pc = "start", !.count = IF @ = 0 /\ pass[p].d.org THEN count ELSE 0])
  /\ UNCHANGED <<clock, project, deletion, usage, store, passed, calm>>

(* begin's transaction, a no-op once another pass has started the deletion. *)
StartDeletion(p) ==
  /\ pass[p].pc = "start"
  /\ IF deletion.status = "pending"
     THEN /\ deletion' = [deletion EXCEPT !.status = "deleting"]
          /\ usage' = IF pass[p].count = 0 THEN usage ELSE pass[p].count
     ELSE UNCHANGED <<deletion, usage>>
  /\ Goto(p, CheckFor(p, "erase"))
  /\ UNCHANGED <<clock, project, store, passed, calm>>

ReadsNoRunning(p) ==
  /\ pass[p].pc = "running"
  /\ Goto(p, [pass[p] EXCEPT !.pc = "rows", !.running = {}])
  /\ UNCHANGED <<clock, project, deletion, usage, store, passed, calm>>

(* Check reads the running deletes before the rows: "one that finishes in between
   still reads as running".                                                      *)
ReadRunning(p) ==
  /\ pass[p].pc = "running"
  /\ Goto(p, [pass[p] EXCEPT !.pc = "rows", !.running = {t \in Tables : deletes[t] > 0}])
  /\ UNCHANGED <<clock, project, deletion, usage, store, passed, calm>>

full == {t \in AllTables : rows[t] # {}}

LeftAnyway(p) == full \ Rebuilt
Left(p) == (full \ pass[p].running) \ Rebuilt

(* eraseClickHouse goes on to a round when rows are left that no delete covers,
   and the last round is old enough.                                            *)
OneRound(d, now, left) == left # {} /\ d.round = None
NextRound(d, now, left) == left # {} /\ (d.round = None \/ now - d.round >= RoundEvery)

ReadRows(p) ==
  /\ pass[p].pc = "rows"
  /\ LET left == Left(p)
     IN  CASE pass[p].check = "watch" ->
                IF full = {} THEN End(p)
                ELSE Goto(p, [pass[p] EXCEPT !.pc = "reopen"]) /\ UNCHANGED passed
           [] pass[p].check = "erase" ->
                /\ Goto(p, [pass[p] EXCEPT
                     !.pc = IF NextRound(pass[p].d, pass[p].now, left) THEN "live" ELSE "postgres",
                     !.waiting = full \cup pass[p].running])
                /\ UNCHANGED passed
           [] pass[p].check = "start" ->
                /\ Goto(p, [pass[p] EXCEPT !.todo = left,
                                           !.pc = IF left = {} THEN "postgres" ELSE "queue"])
                /\ UNCHANGED passed
  /\ UNCHANGED <<clock, project, deletion, usage, store, calm>>

Reopen(p) ==
  /\ pass[p].pc = "reopen"
  /\ deletion' = IF deletion.status = "done"
                 THEN [deletion EXCEPT !.status = "deleting", !.done = None] ELSE deletion
  /\ Goto(p, CheckFor(p, "erase"))
  /\ UNCHANGED <<clock, project, usage, store, passed, calm>>

(* Start refuses a live project, and checks the tables again. *)
RefuseLive(p) ==
  /\ pass[p].pc = "live"
  /\ Goto(p, IF project = "live" THEN Idle ELSE CheckFor(p, "start"))
  /\ UNCHANGED <<clock, project, deletion, usage, store, passed, calm>>

(* One statement per table; the round is recorded once all are queued. *)
Queue(p, t) ==
  /\ pass[p].pc = "queue" /\ t \in pass[p].todo
  /\ deletes' = [deletes EXCEPT ![t] = @ + 1]
  /\ covered' = [covered EXCEPT ![t] = rows[t]]
  /\ Goto(p, [pass[p] EXCEPT !.todo = @ \ {t}, !.pc = IF pass[p].todo = {t} THEN "record" ELSE @])
  /\ UNCHANGED <<clock, project, deletion, usage, rows, pg, late, passed, calm>>

RecordRound(p) ==
  /\ pass[p].pc = "record"
  /\ deletion' = [deletion EXCEPT !.round = pass[p].now]
  /\ Goto(p, [pass[p] EXCEPT !.pc = "postgres"])
  /\ UNCHANGED <<clock, project, usage, store, passed, calm>>

(* erasePostgres: its batches may run out of time with rows left.  Nothing left
   anywhere, the deletion can be finished.                                     *)
Batches(p) == \E left \in {FALSE, pg} :
  /\ pass[p].pc = "postgres"
  /\ project # "live"
  /\ pg' = left
  /\ IF left \/ pass[p].waiting # {} THEN End(p)
     ELSE Goto(p, [pass[p] EXCEPT !.pc = "finish"]) /\ UNCHANGED passed
  /\ UNCHANGED <<clock, project, deletion, usage, rows, deletes, covered, late, calm>>

(* The projects row goes, with whatever still references it, and the deletion is
   done.                                                                         *)
Finish(p) ==
  /\ pass[p].pc = "finish"
  /\ project' = IF project = "hidden" THEN "gone" ELSE project
  /\ pg' = IF project = "hidden" THEN FALSE ELSE pg
  /\ deletion' = IF deletion.status = "deleting"
                 THEN [deletion EXCEPT !.status = "done", !.done = pass[p].now] ELSE deletion
  /\ End(p)
  /\ UNCHANGED <<clock, usage, rows, deletes, covered, late, calm>>

(* A statement fails, the pass runs out of time, or its process dies; until the
   failures are over.                                                          *)
Fail(p) ==
  /\ ~calm
  /\ pass[p].pc # "idle"
  /\ Goto(p, Idle)
  /\ UNCHANGED <<clock, project, deletion, usage, store, passed, calm>>

CalmDown ==
  /\ ~calm /\ calm' = TRUE
  /\ UNCHANGED <<clock, project, deletion, usage, store, pass, passed>>

Step(p) == List(p) \/ Count(p) \/ StartDeletion(p) \/ ReadRunning(p) \/ ReadRows(p)
           \/ Reopen(p) \/ RefuseLive(p) \/ (\E t \in Tables : Queue(p, t))
           \/ RecordRound(p) \/ Batches(p) \/ Finish(p)

World == Request \/ RequestAgain \/ Meter \/ WritePostgres \/ Tick \/ CalmDown
         \/ (\E t \in Tables : Write(t) \/ Apply(t)) \/ (\E t \in Rebuilt : Rebuild(t))

Next == World \/ \E p \in Passes : Step(p) \/ Fail(p)
Spec == Init /\ [][Next]_vars

(* The CronJob runs, failures end after any number of them, batches reach the
   last row, ClickHouse applies its deletes and rebuilds its views.  Nobody has to
   write or to ask.                                                               *)
FairSpec ==
  /\ Spec
  /\ \A p \in Passes : WF_vars(Step(p)) /\ SF_vars(Batches(p) /\ ~pg')
  /\ \A t \in Tables : WF_vars(Apply(t))
  /\ \A t \in Rebuilt : WF_vars(rows[t] # rows[Source] /\ Rebuild(t))
  /\ WF_vars(Tick) /\ WF_vars(CalmDown)
-----------------------------------------------------------------------------
(* "It never queues a second delete for the same table and project while one is
   running", as long as the lock holds.                                          *)
OneDeleteAtATime == \A t \in Tables : deletes[t] <= 1

(* A delete is queued, and its round recorded as rows that came back, only for a
   table that has rows: a delete finishing between the two reads of a check must
   not look like rows left behind.                                               *)
DeletesHaveRows ==
  [][\A t \in Tables : deletes'[t] > deletes[t] => rows[t] # {} /\ project # "live"]_vars

(* "Done means empty after every delete finished", and the watch outlasts the
   streams: once it is over nothing of the project is left, however late its
   messages were written.                                                       *)
NothingOutlivesTheWatch ==
  (deletion.status = "done" /\ ~Watched(deletion, clock)) =>
     /\ project = "gone" /\ ~pg
     /\ \A t \in Tables : rows[t] = {}

(* A requested deletion gets done: again and again, whatever came back and
   however often the operator asks for it anew, everything is gone.           *)
Erased == []<>(deletion.status # "none" =>
                 deletion.status = "done" /\ project = "gone" /\ ~pg /\ full = {})

(* Well typed, one delete of a table at a time, and the watch outlasts what can still
   be written: all three hold while the lock does.                                   *)
Inv == TypeOK /\ OneDeleteAtATime /\ NothingOutlivesTheWatch
==============================================================================
