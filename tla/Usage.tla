-------------------------------- MODULE Usage --------------------------------
(* The usage pass: it counts the events ClickHouse holds per project and day,
   stores the counts in PostgreSQL, and sums each org's current period.  Beside it
   events come late, are erased, and projects are deleted, their days kept as the
   purge job last counted them.

   Time moves by whole days, so a pass a day after a full one is full again.  A
   pass takes at most half an hour: it may see one midnight.  It holds the cron
   lock, which a dropped connection loses.  A count of 0 is no stored day: the
   query returns no empty group.                                                *)
EXTENDS Integers, FiniteSets, FiniteSetsExt

CONSTANTS
  Projects, Orgs, Passes,
  OrgOf,        \* the org of a project
  Anniversary,  \* the day an org's period rolls over
  MonthStart,   \* the day the calendar month does
  Rescan,       \* the days a trailing pass goes back
  Doomed,       \* the projects that may be deleted
  Earlier,      \* the events there are at first
  Horizon, MaxChanges, MaxFaults, \* bounds: the last day; events' arrivals and erasures; faults
  None          \* no day, no pass

ASSUME UsageAssumption ==
  /\ IsFiniteSet(Projects) /\ Doomed \subseteq Projects /\ Orgs # {} /\ OrgOf \in [Projects -> Orgs]
  /\ Anniversary \in [Orgs -> Nat] /\ Earlier \in [Projects -> Nat]
  /\ {MonthStart, Horizon, MaxChanges, MaxFaults} \subseteq Nat /\ Rescan \in Nat \ {0}
  /\ None \notin Nat \cup Passes

VARIABLES
  clock,
  events,   \* the events in ClickHouse by project and day
  changed,  \* the day each of these counts last changed
  changes,  \* the changes so far
  project,  \* a project's row and its deletion
  counted,  \* what purge passes counted and have not frozen
  stored,   \* usage_daily
  periods,  \* usage_periods by org and first day
  lastFull, \* cron_state of the full recompute
  lock,     \* the pass that holds the cron lock
  pass,     \* each pass's progress
  seen,     \* the ways a read or the lock went wrong so far
  faults    \* how often anything did

vars == <<clock, events, changed, changes, project, counted, stored, periods, lastFull,
          lock, pass, seen, faults>>
world == <<events, changed, changes>>
health == <<seen, faults>>
deletions == <<project, counted>>

Days == 0 .. Horizon
Counts == [Projects -> [Days -> Nat]]
NoCounts == [p \in Projects |-> [d \in Days |-> 0]]
NoPeriod == [total |-> 0, at |-> None, read |-> None]
Idle == [pc |-> "idle", now |-> 0, full |-> FALSE, cells |-> NoCounts, foreign |-> FALSE, todo |-> {}]

TypeOK ==
  /\ clock \in Days /\ changes \in 0 .. MaxChanges
  /\ events \in Counts /\ changed \in Counts /\ stored \in Counts
  /\ \A p \in Projects, d \in Days : changed[p][d] <= clock /\ (d > clock => stored[p][d] = 0)
  /\ project \in [Projects -> {"live", "pending", "deleting", "gone"}]
  /\ \A p \in Projects : counted[p] \subseteq [Days -> Nat]
  /\ \A o \in Orgs, s \in Days : LET row == periods[o][s] IN
       /\ row.total \in Nat /\ row.at \in Days \cup {None}
       /\ row.at # None => row.read \in {row.at - 1, row.at}
  /\ lastFull \in Days \cup {None}
  /\ lock \in Passes \cup {None}
  /\ DOMAIN pass = Passes
  /\ faults \in 0 .. MaxFaults
  /\ seen \subseteq {"truncated", "empty", "foreign", "unlocked"}

Init ==
  /\ clock = 0 /\ changes = 0
  /\ events = [p \in Projects |-> [d \in Days |-> IF d = 0 THEN Earlier[p] ELSE 0]]
  /\ changed = NoCounts /\ stored = NoCounts
  /\ project = [p \in Projects |-> "live"] /\ counted = [p \in Projects |-> {}]
  /\ periods = [o \in Orgs |-> [s \in Days |-> NoPeriod]]
  /\ lastFull = None /\ lock = None /\ seen = {} /\ faults = 0
  /\ pass = [x \in Passes |-> Idle]
-----------------------------------------------------------------------------
(* The periods and windows. *)

Live == {p \in Projects : project[p] = "live"}

(* A period runs from its anniversary, the one before from before day 0. *)
PeriodFor(o, now) == IF now < Anniversary[o] THEN 0 ELSE Anniversary[o]
PeriodDays(o, s) == {d \in Days : PeriodFor(o, d) = s}

MonthOf(now) == IF now < MonthStart THEN 0 ELSE MonthStart

FullRecomputeFrom(now, orgs) ==
  Min({now - Rescan, MonthOf(now)} \cup {PeriodFor(o, now) : o \in orgs})

meterFrom(full, now) == IF full THEN FullRecomputeFrom(now, Orgs) ELSE now - Rescan

(* What ClickHouse counts over [from, now), for these projects. *)
MeterWindow(from, now, ps) ==
  [p \in Projects |-> [d \in Days |-> IF p \in ps /\ from <= d /\ d <= now THEN events[p][d] ELSE 0]]
-----------------------------------------------------------------------------
(* What goes on beside the passes; on the last day nothing but erasing. *)

(* Midnight: no pass is longer than half an hour. *)
Tick ==
  /\ clock < Horizon
  /\ \A x \in Passes : pass[x].pc # "idle" => pass[x].now = clock
  /\ clock' = clock + 1
  /\ UNCHANGED <<world, deletions, stored, periods, lastFull, lock, pass, health>>

(* An event of a day arrives, on it or later; all of a day's are erased. *)
Change(p, d, n) ==
  /\ clock < Horizon /\ changes < MaxChanges /\ d <= clock
  /\ events' = [events EXCEPT ![p][d] = n]
  /\ changed' = [changed EXCEPT ![p][d] = clock]
  /\ changes' = changes + 1
  /\ UNCHANGED <<clock, deletions, stored, periods, lastFull, lock, pass, health>>

Arrive(p, d) == project[p] # "gone" /\ Change(p, d, events[p][d] + 1)
Erase(p, d) == project[p] = "live" /\ events[p][d] > 0 /\ Change(p, d, 0)

Delete(p) ==
  /\ clock < Horizon /\ p \in Doomed /\ project[p] = "live"
  /\ project' = [project EXCEPT ![p] = "pending"]
  /\ UNCHANGED <<clock, world, counted, stored, periods, lastFull, lock, pass, health>>

(* A purge pass counts the project's own period before its transaction. *)
CountForPurge(p) ==
  /\ clock < Horizon /\ project[p] = "pending"
  /\ LET from == FullRecomputeFrom(clock, {OrgOf[p]})
     IN  counted' = [counted EXCEPT ![p] = @ \cup {MeterWindow(from, clock, {p})[p]}]
  /\ UNCHANGED <<clock, world, project, stored, periods, lastFull, lock, pass, health>>

FreezeUsageDaily(p, days) ==
  [stored EXCEPT ![p] = [d \in Days |-> IF days[d] > 0 THEN days[d] ELSE @[d]]]

(* Mutant of Freeze: a pass that counted freezes, the deletion started or not. *)
FreezeTwice(p) == \E days \in counted[p] :
  /\ clock < Horizon /\ project[p] \in {"pending", "deleting"}
  /\ project' = [project EXCEPT ![p] = "deleting"]
  /\ stored' = FreezeUsageDaily(p, days)
  /\ UNCHANGED <<clock, world, counted, periods, lastFull, lock, pass, health>>

(* The transaction that starts the deletion freezes that count; of two passes the
   second finds it started and changes nothing.                                  *)
Freeze(p) == \E days \in counted[p] :
  /\ clock < Horizon /\ project[p] = "pending"
  /\ project' = [project EXCEPT ![p] = "deleting"]
  /\ stored' = FreezeUsageDaily(p, days)
  /\ UNCHANGED <<clock, world, counted, periods, lastFull, lock, pass, health>>

(* Its events go, and in the end its row. *)
Purge(p) ==
  /\ project[p] = "deleting"
  /\ events' = [events EXCEPT ![p] = NoCounts[p]]
  /\ project' = [project EXCEPT ![p] = "gone"]
  /\ UNCHANGED <<clock, changed, changes, counted, stored, periods, lastFull, lock, pass, health>>
-----------------------------------------------------------------------------
(* A pass. *)

Goto(x, next) == pass' = [pass EXCEPT ![x] = next]
At(x, pc) == pass[x].pc = pc
To(x, pc) == Goto(x, [pass[x] EXCEPT !.pc = pc])
End(x) == Goto(x, Idle) /\ lock' = IF lock = x THEN None ELSE lock

(* Something goes wrong; in the end nothing does. *)
Fault == clock < Horizon /\ faults < MaxFaults /\ faults' = faults + 1
NoFault == UNCHANGED faults

(* It takes the lock, and decides how far back to count. *)
Begin(x) ==
  /\ At(x, "idle") /\ lock = None
  /\ lock' = x
  /\ Goto(x, [Idle EXCEPT !.pc = "read", !.now = clock,
                          !.full = lastFull = None \/ clock > lastFull, !.todo = Orgs])
  /\ UNCHANGED <<clock, world, deletions, stored, periods, lastFull, health>>

(* ClickHouse answers; it may return nothing, leave a project out, or be the
   ClickHouse of another deployment, each with no error.                      *)
Read(x, cells, foreign, fault) ==
  /\ At(x, "read")
  /\ IF fault = {} THEN NoFault ELSE Fault
  /\ seen' = seen \cup fault
  /\ Goto(x, [pass[x] EXCEPT !.pc = "record", !.cells = cells, !.foreign = foreign])
  /\ UNCHANGED <<clock, world, deletions, stored, periods, lastFull, lock>>

ReadCounts(x) ==
  LET now == pass[x].now
      read(ps) == MeterWindow(meterFrom(pass[x].full, now), now, ps)
  IN  \/ Read(x, read(Projects), FALSE, {})
      \/ Read(x, NoCounts, FALSE, {"empty"})
      \/ Read(x, NoCounts, TRUE, {"foreign"})
      \/ \E p \in Projects : Read(x, read(Projects \ {p}), FALSE, {"truncated"})

(* A day of a project being deleted, or unknown, writes nothing. *)
Upsert(x, ps) ==
  [p \in Projects |-> [d \in Days |->
     IF p \in ps \cap Live /\ pass[x].cells[p][d] > 0 THEN pass[x].cells[p][d] ELSE stored[p][d]]]

(* The days are stored in chunks; one that fails ends the pass. *)
Record(x) == \E ps \in SUBSET Projects :
  /\ At(x, "record")
  /\ stored' = Upsert(x, ps)
  /\ IF ps = Projects THEN To(x, "check") /\ NoFault /\ UNCHANGED lock ELSE Fault /\ End(x)
  /\ UNCHANGED <<clock, world, deletions, periods, lastFull, seen>>

InWindow(x) ==
  {d \in Days : meterFrom(pass[x].full, pass[x].now) <= d /\ d <= pass[x].now}
CountStoredDays(x) == Cardinality({c \in Live \X InWindow(x) : stored[c[1]][c[2]] > 0})

metered(x) == {p \in Projects : \E d \in Days : pass[x].cells[p][d] > 0}
nothing(x) == metered(x) = {} /\ ~pass[x].foreign
KnownProjects(x) == {p \in metered(x) : project[p] # "gone"}

(* Mutant of Verified: nobody asks whether PostgreSQL knows the projects. *)
VerifiedUnasked(x) ==
  IF nothing(x) THEN CountStoredDays(x) = 0 ELSE TRUE

(* An empty read stands if nothing is stored over its window, another if
   PostgreSQL knows one of its projects.                                 *)
Verified(x) ==
  IF nothing(x) THEN CountStoredDays(x) = 0 ELSE KnownProjects(x) # {}

(* Mutant of Check: unverified, it refreshes the periods all the same. *)
CheckRefreshes(x) ==
  /\ At(x, "check")
  /\ To(x, IF ~Verified(x) \/ nothing(x) THEN "refresh" ELSE "reconcile")
  /\ UNCHANGED <<clock, world, deletions, stored, periods, lastFull, lock, health>>

(* Unverified, the pass reconciles nothing, refreshes nothing and ends well. *)
Check(x) ==
  /\ At(x, "check")
  /\ IF ~Verified(x) THEN End(x)
     ELSE To(x, IF nothing(x) THEN "refresh" ELSE "reconcile") /\ UNCHANGED lock
  /\ UNCHANGED <<clock, world, deletions, stored, periods, lastFull, health>>

(* The stored days of live projects that were not read are dropped. *)
DeleteUnmeteredDays(x) ==
  [p \in Projects |-> [d \in Days |->
     IF p \in Live /\ d \in InWindow(x) /\ pass[x].cells[p][d] = 0 THEN 0 ELSE stored[p][d]]]

Reconcile(x) ==
  /\ At(x, "reconcile")
  /\ stored' = DeleteUnmeteredDays(x)
  /\ To(x, "mark")
  /\ UNCHANGED <<clock, world, deletions, periods, lastFull, lock, health>>

(* A full recompute that read something is done for a day. *)
Mark(x) ==
  /\ At(x, "mark")
  /\ lastFull' = IF pass[x].full THEN pass[x].now ELSE lastFull
  /\ Goto(x, [pass[x] EXCEPT !.pc = "refresh", !.cells = NoCounts])
  /\ UNCHANGED <<clock, world, deletions, stored, periods, lock, health>>

Total(counts, cells) == MapThenSumSet(LAMBDA c : counts[c[1]][c[2]], cells)
OrgCells(o, days) == {p \in Projects : OrgOf[p] = o} \X days
Sum(o, days) == Total(stored, OrgCells(o, days))

(* An org's current period is summed and stamped; deleted projects count. *)
RefreshPeriodUsage(x, o) ==
  LET s == PeriodFor(o, pass[x].now)
  IN  [periods EXCEPT ![o][s] = [total |-> Sum(o, PeriodDays(o, s)), at |-> clock, read |-> pass[x].now]]

(* One that fails does not keep the others from it. *)
Refresh(x, o) ==
  /\ At(x, "refresh") /\ pass[x].todo # {} /\ o = CHOOSE org \in pass[x].todo : TRUE
  /\ \/ periods' = RefreshPeriodUsage(x, o) /\ NoFault
     \/ UNCHANGED periods /\ Fault
  /\ IF pass[x].todo = {o} THEN End(x)
     ELSE Goto(x, [pass[x] EXCEPT !.todo = @ \ {o}]) /\ UNCHANGED lock
  /\ UNCHANGED <<clock, world, deletions, stored, lastFull, seen>>

(* A statement fails, the pass runs out of time, or its process dies. *)
Fail(x) ==
  /\ pass[x].pc # "idle"
  /\ Fault /\ End(x)
  /\ UNCHANGED <<clock, world, deletions, stored, periods, lastFull, seen>>

(* The lock's connection drops; the pass goes on. *)
LoseLock ==
  /\ lock # None
  /\ Fault /\ lock' = None
  /\ seen' = seen \cup {"unlocked"}
  /\ UNCHANGED <<clock, world, deletions, stored, periods, lastFull, pass>>

Step(x) == Begin(x) \/ ReadCounts(x) \/ Record(x) \/ Check(x) \/ Reconcile(x) \/ Mark(x)
           \/ \E o \in Orgs : Refresh(x, o)

Beside == Tick \/ LoseLock
          \/ \E p \in Projects : \/ \E d \in Days : Arrive(p, d) \/ Erase(p, d)
                                 \/ Delete(p) \/ CountForPurge(p) \/ Freeze(p) \/ Purge(p)

Next == Beside \/ \E x \in Passes : Step(x) \/ Fail(x)

Spec == Init /\ [][Next]_vars
-----------------------------------------------------------------------------
(* The wide pass is what catches what the trailing one is too short for: once one
   is marked done, a live project's days of the period are what ClickHouse has, both
   ways, for every count that has not changed since the day before.  An empty read, or
   one of another deployment, must not undo it.                                  *)
FullPassCountsAll ==
  (lastFull # None /\ seen \cap {"truncated", "unlocked"} = {}) =>
    \A p \in Live : \A d \in PeriodDays(OrgOf[p], PeriodFor(OrgOf[p], lastFull)) :
      changed[p][d] < lastFull => stored[p][d] = events[p][d]

(* usage_computed_at vouches for the total beside it: what live projects had by the
   day before, on days a pass looks at, is in it.  Only a pass that reads nothing
   where nothing is stored may be wrong about it.                                  *)
FreshMeansCounted ==
  (seen \cap {"truncated", "empty", "unlocked"} = {}) =>
    \A o \in Orgs, s \in Days : LET row == periods[o][s] IN
      row.at # None =>
        LET sure == {c \in Live \X PeriodDays(o, s) :
                       /\ OrgOf[c[1]] = o /\ row.read - Rescan <= c[2]
                       /\ changed[c[1]][c[2]] < row.read}
        IN  row.total >= Total(events, sure)

(* The days of a deleted project are the org's record: once its deletion has started
   no pass changes them, whatever it read before, with or without the lock.         *)
KeptAsFrozen ==
  [][\A p \in Projects : project[p] \in {"deleting", "gone"} => stored'[p] = stored[p]]_vars

(* Counts converge, up and down: on a day without changes, once its wide pass is
   done and no other runs, every org's period is stamped with what ClickHouse has of
   live projects and what was kept of the others.                                 *)
PeriodsAreExact ==
  (/\ clock = Horizon /\ lastFull = Horizon /\ "unlocked" \notin seen
   /\ \A x \in Passes : pass[x].pc = "idle") =>
    \A o \in Orgs : LET s == PeriodFor(o, clock) IN
      /\ periods[o][s].at = clock
      /\ periods[o][s].total =
           Total([p \in Projects |-> IF p \in Live THEN events[p] ELSE stored[p]],
                 OrgCells(o, PeriodDays(o, s)))

(* Well typed, and the totals shown are those of the days they stand for. *)
Inv == TypeOK /\ FreshMeansCounted /\ PeriodsAreExact
==============================================================================
