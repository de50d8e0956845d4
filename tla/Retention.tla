------------------------------ MODULE Retention ------------------------------
(* The daily pass that moves an organization's retention length on and deletes the
   event history before its cut, with what it races: the organization starting and
   ending to pay, an operator setting an override or expiring a length, the billing
   switch, late events, and deletes of other jobs on the same table.

   The pass treats each org, project and table on its own, so one of each is enough;
   a table cut by key is one whose rows are dated by their key.  Time is counted in
   days from 1970.  A length of 0 keeps everything.  The pass holds the lock of its
   cron job.                                                                        *)
EXTENDS Integers, FiniteSets, FiniteSetsExt

CONSTANTS
  FreeDays, PaidDays,  \* the lengths of a free and of a paying org
  DefaultDays,         \* PUG_RETENTION_DAYS: the length with billing off
  Overrides,           \* bound: the lengths an operator sets
  Wait,                \* how long a shorter length waits
  Months,              \* the first days of the months
  Calendar,            \* the first days of real months, for the arithmetic of cuts
  MaxRescan,           \* the widest PUG_USAGE_RESCAN_DAYS the cut is safe for
  Start, Quiet,        \* bound: the first day; the day from which nothing changes
  Horizon,             \* bound: the last day
  MaxChanges,          \* bound: how often the org, its operators and its events act
  None

ShortestMonth == 28

(* The days from 1970 on begin with a month, and the first day is later than that. *)
ASSUME RetentionAssumption ==
  /\ FreeDays \in Nat \ {0} /\ PaidDays \in Nat \ {0} /\ DefaultDays \in Nat
  /\ Overrides \subseteq Nat \ {0} /\ Wait \in Nat \ {0} /\ MaxRescan \in Nat
  /\ Months \subseteq Nat /\ 0 \in Months /\ \E m \in Months : 0 < m /\ m <= Start
  /\ Calendar \subseteq Nat /\ 0 \in Calendar
  /\ \A m, n \in Calendar : m < n => n - m >= ShortestMonth
  /\ MaxRescan <= ShortestMonth
  /\ Start \in Nat /\ Quiet \in Nat /\ Horizon \in Nat /\ Start <= Horizon /\ MaxChanges \in Nat
  /\ None \notin Int

VARIABLES
  clock,
  org,      \* the override, whether a subscription is live, one ever was, or one is stored
            \* that never went live and did not fail
  config,   \* the deployment's billing switch and the switch on the deletes
  changes,
  state,    \* the org's retention_state row
  cmd,      \* an operator's expire between its read and its update
  table,    \* the oldest row, the oldest written since a delete was queued, the deletes
  pass, passed,
  asked,    \* history: an operator lowered the length since the org was seen paying
  seen      \* history: the lengths the passes of the last days resolved

world == <<org, config, changes>>
history == <<asked, seen>>
vars == <<clock, org, config, changes, state, cmd, table, pass, passed, asked, seen>>

Days == 0 .. Horizon
Lengths == {0, FreeDays, PaidDays, DefaultDays} \cup Overrides
State == [days : Lengths, pending : Lengths, since : Days \cup {None}, expired : BOOLEAN]

(* Zero days keeps everything, and so does an org with no row. *)
NoState == [days |-> 0, pending |-> 0, since |-> None, expired |-> FALSE]
Idle == [pc |-> "idle"]
NoCommand == [pc |-> "idle"]
-----------------------------------------------------------------------------
(* The cut. *)

firstOfMonth(months, day) == Max({m \in months : m <= day})
previousMonth(months, day) == Max({m \in months : m < firstOfMonth(months, day)})

(* Mutant of cut: only the length counts. *)
cutAtLength(months, now, days) ==
  IF days = 0 \/ days > now THEN None ELSE firstOfMonth(months, now - days)

(* The first of the month that holds now - days, never later than the first of the
   previous one; no cut for no length, nor for one that reaches back before 1970.   *)
cut(months, now, days) ==
  IF days = 0 \/ days > now THEN None
  ELSE Min({firstOfMonth(months, now - days), previousMonth(months, now)})

(* What usage and billing re-read: a rescan, the month, and the billing period, which
   starts on its anchor day or the month's last.                                    *)
anchored(months, first, anchor) ==
  Min({first + anchor - 1} \cup {m - 1 : m \in {n \in months : n > first}})

PeriodStart(months, now, anchor) ==
  LET this == anchored(months, firstOfMonth(months, now), anchor)
  IN  IF now < this THEN anchored(months, previousMonth(months, now), anchor) ELSE this

FullRecomputeFrom(months, now, rescan, anchor) ==
  Min({now - rescan, firstOfMonth(months, now), PeriodStart(months, now, anchor)})
-----------------------------------------------------------------------------
(* The state. *)

keeps(a, b) == a = 0 \/ (b # 0 /\ a >= b)

drops(s, days) == ~keeps(days, s.days) /\ days # s.pending

(* Mutants of nextState: a length back to what it was leaves the shorter one waiting;
   a wait never ends.                                                               *)
nextStillPending(s, days, lapsed, now) ==
  CASE days = s.days -> s
    [] days # s.days /\ keeps(days, s.days) -> [NoState EXCEPT !.days = days]
    [] drops(s, days) -> [NoState EXCEPT !.days = s.days, !.pending = days,
                                         !.since = IF lapsed THEN None ELSE now]
    [] ~keeps(days, s.days) /\ ~drops(s, days) ->
         IF s.since # None /\ now - s.since >= Wait THEN [NoState EXCEPT !.days = days] ELSE s
nextNeverApplies(s, days, lapsed, now) ==
  CASE keeps(days, s.days) -> [NoState EXCEPT !.days = days]
    [] drops(s, days) -> [NoState EXCEPT !.days = s.days, !.pending = days,
                                         !.since = IF lapsed THEN None ELSE now]
    [] ~keeps(days, s.days) /\ ~drops(s, days) -> s

(* A longer length applies at once, a shorter one after it waited unchanged; after a
   lapse its wait starts with an expire.                                            *)
nextState(s, days, lapsed, now) ==
  CASE keeps(days, s.days) -> [NoState EXCEPT !.days = days]
    [] drops(s, days) -> [NoState EXCEPT !.days = s.days, !.pending = days,
                                         !.since = IF lapsed THEN None ELSE now]
    [] ~keeps(days, s.days) /\ ~drops(s, days) ->
         IF s.since # None /\ now - s.since >= Wait THEN [NoState EXCEPT !.days = days] ELSE s

Resolve(override, live, billing) ==
  CASE override > 0 -> override
    [] override = 0 /\ billing -> IF live THEN PaidDays ELSE FreeDays
    [] override = 0 /\ ~billing -> DefaultDays

Length == Resolve(org.override, org.live, config.billing)

(* An org no pass has seen, or one that has long been paying. *)
Init ==
  /\ clock = Start /\ changes = 0
  /\ config \in [billing : BOOLEAN, enabled : {TRUE}]
  /\ \/ /\ org \in [override : {0}, live : {FALSE}, paid : BOOLEAN, begun : BOOLEAN]
        /\ state = NoState /\ asked = TRUE
     \/ /\ org = [override |-> 0, live |-> TRUE, paid |-> TRUE, begun |-> FALSE] /\ config.billing
        /\ state = [NoState EXCEPT !.days = PaidDays] /\ asked = FALSE
  /\ cmd = NoCommand
  /\ table = [oldest |-> 0, late |-> None, queued |-> None, other |-> FALSE]
  /\ pass = Idle /\ passed = FALSE
  /\ seen = {}
-----------------------------------------------------------------------------
(* What goes on beside the pass. *)

(* A pass sees at most one midnight, an operator's command none.  In the end every day
   has a pass that runs to its end.                                                 *)
Tick ==
  /\ clock < Horizon
  /\ pass # Idle => pass.now = clock
  /\ cmd = NoCommand
  /\ clock >= Quiet => passed
  /\ clock' = clock + 1
  /\ passed' = FALSE
  /\ seen' = {e \in seen : e.day >= clock - Wait}
  /\ UNCHANGED <<world, state, cmd, table, pass, asked>>

Changes == clock < Quiet /\ changes < MaxChanges /\ changes' = changes + 1

(* What the provider reports of a subscription is stored: one goes live or stops being
   so, or one that never did comes or fails.                                        *)
Pays == \E live, begun \in BOOLEAN :
  /\ Changes
  /\ org' = [org EXCEPT !.live = live, !.paid = @ \/ live, !.begun = begun]
  /\ org' # org
  /\ UNCHANGED <<clock, config, state, cmd, table, pass, passed, history>>

(* An operator sets or removes the org's own length. *)
SetOverride == \E days \in (Overrides \cup {0}) \ {org.override} :
  /\ Changes
  /\ org' = [org EXCEPT !.override = days]
  /\ asked' = TRUE
  /\ UNCHANGED <<clock, config, state, cmd, table, pass, passed, seen>>

SwitchBilling ==
  /\ Changes
  /\ config' = [config EXCEPT !.billing = ~@]
  /\ asked' = TRUE
  /\ UNCHANGED <<clock, org, state, cmd, table, pass, passed, seen>>

SwitchDeletes ==
  /\ Changes
  /\ config' = [config EXCEPT !.enabled = ~@]
  /\ UNCHANGED <<clock, org, state, cmd, table, pass, passed, history>>

(* An event comes in that a device dated back; a delete queued before leaves it. *)
Write == \E day \in Days :
  /\ Changes
  /\ day < table.oldest /\ (table.late # None => day < table.late)
  /\ table' = IF table.queued = None THEN [table EXCEPT !.oldest = day]
              ELSE [table EXCEPT !.late = day]
  /\ UNCHANGED <<clock, org, config, state, cmd, pass, passed, history>>

(* ClickHouse has rewritten the parts; or a purge's or an erasure's delete comes and
   goes.                                                                            *)
Apply ==
  /\ table.queued # None
  /\ table' = [table EXCEPT !.queued = None, !.late = None,
                 !.oldest = Min({Max({@, table.queued})} \cup ({table.late} \ {None}))]
  /\ UNCHANGED <<clock, world, state, cmd, pass, passed, history>>

OtherDelete ==
  /\ ~table.other /\ Changes
  /\ table' = [table EXCEPT !.other = TRUE]
  /\ UNCHANGED <<clock, org, config, state, cmd, pass, passed, history>>

OtherDone ==
  /\ table.other
  /\ table' = [table EXCEPT !.other = FALSE]
  /\ UNCHANGED <<clock, world, state, cmd, pass, passed, history>>

(* Expire refuses an org that pays, as it reads it, and updates only a drop that
   waits for it.                                                                    *)
Expire ==
  /\ cmd = NoCommand /\ Changes
  /\ ~(config.billing /\ org.live)
  /\ cmd' = [pc |-> "update", now |-> clock]
  /\ UNCHANGED <<clock, org, config, state, table, pass, passed, history>>

ExpireRetentionState ==
  /\ cmd # NoCommand
  /\ IF state.pending # 0 /\ state.since = None
     THEN /\ state' = [state EXCEPT !.since = cmd.now, !.expired = TRUE]
          /\ asked' = TRUE
     ELSE UNCHANGED <<state, asked>>
  /\ cmd' = NoCommand
  /\ UNCHANGED <<clock, world, table, pass, passed, seen>>
-----------------------------------------------------------------------------
(* The pass. *)

At(pc) == pass.pc = pc
Goto(pc) == pass' = [pass EXCEPT !.pc = pc]
End == pass' = Idle /\ passed' = (passed \/ pass.now = clock)

(* The states are read once, before the first org's turn.  The job is daily, and run
   again only where it failed.                                                      *)
ListStates ==
  /\ pass = Idle /\ (passed => clock = Horizon)
  /\ pass' = [pc |-> "entitlement", now |-> clock, cur |-> state, config |-> config,
              override |-> 0, days |-> 0, paying |-> FALSE, lapsed |-> FALSE, cut |-> None]
  /\ UNCHANGED <<clock, world, state, cmd, table, passed, history>>

(* GetEntitlement reads the org's row and then its live subscription. *)
ReadOverride ==
  /\ At("entitlement")
  /\ pass' = [pass EXCEPT !.pc = "subscription", !.override = org.override]
  /\ UNCHANGED <<clock, world, state, cmd, table, passed, history>>

ReadSubscription ==
  /\ At("subscription")
  /\ LET billing == pass.config.billing
         days == Resolve(pass.override, org.live, billing)
         free == billing /\ ~org.live
     IN  pass' = [pass EXCEPT !.days = days, !.paying = billing /\ org.live,
                              !.pc = IF drops(pass.cur, days) /\ free THEN "record" ELSE "store"]
  /\ UNCHANGED <<clock, world, state, cmd, table, passed, history>>

(* lapsed: an operator's own length is not free's. *)
ReadRecord ==
  /\ At("record")
  /\ Goto(IF org.override > 0 THEN "store" ELSE "history")
  /\ UNCHANGED <<clock, world, state, cmd, table, passed, history>>

(* Mutant of ReadHistory: a subscription that ended is none. *)
ReadHistoryLive ==
  /\ At("history")
  /\ pass' = [pass EXCEPT !.pc = "store", !.lapsed = org.live]
  /\ UNCHANGED <<clock, world, state, cmd, table, passed, history>>

(* lapsed: the org had a subscription that did not fail, whether or not it ever went
   live.                                                                            *)
ReadHistory ==
  /\ At("history")
  /\ pass' = [pass EXCEPT !.pc = "store", !.lapsed = org.paid \/ org.begun]
  /\ UNCHANGED <<clock, world, state, cmd, table, passed, history>>

(* A pass that finds the org paying, and nobody asking for less, starts the history
   over.                                                                            *)
Seen ==
  /\ seen' = seen \cup {[day |-> pass.now, days |-> pass.days]}
  /\ asked' = (asked /\ ~(pass.paying /\ pass.override = 0 /\ org.override = 0 /\ config.billing))

(* Mutant of Store: the row is written at every pass. *)
StoreAlways ==
  /\ At("store")
  /\ LET next == nextState(pass.cur, pass.days, pass.lapsed, pass.now)
         at == cut(Months, pass.now, next.days)
     IN  /\ state' = next
         /\ IF at = None THEN End
            ELSE pass' = [pass EXCEPT !.pc = "unfinished", !.cut = at] /\ UNCHANGED passed
  /\ Seen
  /\ UNCHANGED <<clock, world, cmd, table>>

(* The state is written only when it is another than the one read. *)
Store ==
  /\ At("store")
  /\ LET next == nextState(pass.cur, pass.days, pass.lapsed, pass.now)
         at == cut(Months, pass.now, next.days)
     IN  /\ state' = IF next # pass.cur THEN next ELSE state
         /\ IF at = None THEN End
            ELSE pass' = [pass EXCEPT !.pc = "unfinished", !.cut = at] /\ UNCHANGED passed
  /\ Seen
  /\ UNCHANGED <<clock, world, cmd, table>>

(* A table with any delete unfinished waits for a later pass. *)
ReadUnfinished ==
  /\ At("unfinished")
  /\ IF table.queued # None \/ table.other THEN End
     ELSE Goto("count") /\ UNCHANGED passed
  /\ UNCHANGED <<clock, world, state, cmd, table, history>>

(* Only logged with the switch off. *)
CountRows ==
  /\ At("count")
  /\ IF table.oldest < pass.cut /\ pass.config.enabled THEN Goto("queue") /\ UNCHANGED passed
     ELSE End
  /\ UNCHANGED <<clock, world, state, cmd, table, history>>

QueueDelete ==
  /\ At("queue")
  /\ table' = [table EXCEPT !.queued = pass.cut]
  /\ End
  /\ UNCHANGED <<clock, world, state, cmd, history>>

(* A read, a write or a delete fails, the pass is cut short, or its process dies. *)
Fail ==
  /\ clock < Quiet /\ pass # Idle
  /\ pass' = Idle
  /\ UNCHANGED <<clock, world, state, cmd, table, passed, history>>

Step == ListStates \/ ReadOverride \/ ReadSubscription \/ ReadRecord \/ ReadHistory
        \/ Store \/ ReadUnfinished \/ CountRows \/ QueueDelete
World == Tick \/ Pays \/ SetOverride \/ SwitchBilling \/ SwitchDeletes \/ Write \/ Apply
         \/ OtherDelete \/ OtherDone \/ Expire \/ ExpireRetentionState

Next == Step \/ Fail \/ World
Spec == Init /\ [][Next]_vars

(* The CronJob runs daily, and ClickHouse gets its deletes done. *)
FairSpec == Spec /\ WF_vars(Step) /\ WF_vars(Tick) /\ WF_vars(ExpireRetentionState)
                 /\ WF_vars(Apply) /\ WF_vars(OtherDone)
-----------------------------------------------------------------------------
TypeOK ==
  /\ clock \in Start .. Horizon /\ changes \in 0 .. MaxChanges
  /\ org \in [override : Overrides \cup {0}, live : BOOLEAN, paid : BOOLEAN, begun : BOOLEAN]
  /\ org.live => org.paid
  /\ config \in [billing : BOOLEAN, enabled : BOOLEAN]
  /\ state \in State /\ (state.pending = 0 => state.since = None)
  /\ cmd # NoCommand => cmd.now = clock
  /\ table \in [oldest : Days, late : Days \cup {None}, queued : Days \cup {None}, other : BOOLEAN]
  /\ pass # Idle => pass.now \in {clock - 1, clock} /\ pass.cur \in State /\ pass.days \in Lengths
  /\ asked \in BOOLEAN /\ passed \in BOOLEAN
  /\ seen \subseteq [day : Days, days : Lengths]

(* "Retention never changes a count or a bill": on the first, the middle and the
   last days of real months, whatever the length and wherever the billing period
   starts, nothing is cut that a full usage pass would count again.  A fact about the
   dates alone, shown in the first state.                                            *)
CutSparesRecount == Init =>
  \A first \in {m \in Calendar : \E l, n \in Calendar : l < n /\ n < m}, day \in {-1, 0, 14},
     days \in {1, 28, 31}, anchor \in {1, 2, 15, 28, 29, 30, 31} :
    LET now == first + day
    IN  cut(Calendar, now, days) <= FullRecomputeFrom(Calendar, now, MaxRescan, anchor)

(* Well typed, and no cut reaches what is counted again. *)
Inv == TypeOK /\ CutSparesRecount

(* "A shorter length waits 30 days, a longer one applies at once": a delete takes no
   event that a length any pass resolved within the wait would have kept, through
   lengths that come and go, failed passes, expires, and the switch on the deletes.  *)
NoticeGiven ==
  [][table'.queued # None /\ table'.queued # table.queued =>
       \A e \in seen : e.day > pass.now - Wait => e.days # 0 /\ table'.queued <= pass.now - e.days]_vars

(* "Paid history then goes only once an operator expires it": an org a pass saw paying
   keeps at least the paying length until an operator sets another or expires it,
   however it stops paying and whatever the pass reads of it meanwhile.             *)
PaidUntilAsked == ~asked => keeps(state.days, PaidDays)

(* "A run that read the row before an expire landed cannot undo it": only another
   length, or the end of the wait, takes an expire away.                            *)
ExpireStands ==
  [][state.expired /\ ~state'.expired =>
       At("store") /\ (pass.days # state.pending \/ pass.now - state.since >= Wait)]_vars

(* Once nothing changes, the org's length is the one in force, unless it waits for an
   expire, and no row older than its cut is left where deletes are switched on.       *)
Awaiting == state.pending # 0 /\ state.since = None
Enforced ==
  <>[](Awaiting \/ /\ state.days = Length
                   /\ config.enabled /\ cut(Months, clock, Length) # None =>
                        table.oldest >= cut(Months, clock, Length))
===============================================================================
