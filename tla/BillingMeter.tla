----------------------------- MODULE BillingMeter -----------------------------
(* The hourly pass that states one organization's metered usage to the payment
   provider, with everything that moves around it: the day cells the usage pass
   rewrites, the subscription the webhook and the reconcile pass replace, renew
   and prolong, and the provider's meters, which keep the largest value they were
   told for a period.

   One organization is enough, the pass treats each on its own. A provider
   period is named by the instant it starts at, as the ledger's key is. A
   subscription has its own customer at the provider, so a statement reaches no
   other subscription's meters. The pass holds the advisory lock of its cron job:
   there is one pass at a time. A pass that finds the usage counts stale, or no
   live subscription, does nothing and is not modelled.                        *)
EXTENDS Statement, FiniteSets

CONSTANTS
  Horizon,     \* bound: the last instant
  Cycle,       \* instants between two renewals
  Lag,         \* bound: how late a new subscription is reported
  MaxSubs,     \* bound: subscriptions the org ever holds
  MaxCount,    \* bound: events in one day cell
  Plans, TierUpTo,  \* the catalog: each plan's tier bounds
  Happens,     \* bound: which of "erase", "hold", "replan", "deal" the run has
  Allowances,  \* the event allowances a deal can be given
  Inputs       \* bound: the totals, allowances and tier bounds Split is tried on

ASSUME MeterAssumption ==
  /\ Horizon \in Nat /\ Cycle \in Nat \ {0} /\ Lag \in Nat
  /\ Lag + DayLength <= Cycle  \* reported a day or more before the period ends
  /\ MaxSubs \in Nat \ {0} /\ MaxCount \in Nat
  /\ Plans # {} /\ IsFiniteSet(Plans) /\ Allowances # {} /\ Allowances \subseteq Nat
  /\ TierUpTo \in [Plans -> Seq(Nat)]
  /\ \A p \in Plans : Rising(TierUpTo[p])  \* validateCatalog: strictly increasing
  /\ Inputs \subseteq [total : Nat, free : Nat, upTo : Seq(Nat)]

VARIABLES
  clock,
  cells,      \* usage_daily: the metered events of each day
  sub,        \* the org's live billing_subscriptions row, absent as no element
  subs,       \* how many subscriptions there have been
  allowance,  \* the events the entitlement includes
  ledger,     \* billing_meter_periods by period start
  held,       \* what the provider's max meters hold, by period start
  pass,       \* the running pass
  peak,       \* history: the most each day cell ever counted
  starts      \* history: the period starts the provider has used

vars == <<clock, cells, sub, subs, allowance, ledger, held, pass, peak, starts>>
orgVars == <<sub, subs, allowance, starts>>
usageVars == <<cells, peak>>

Instants == 0 .. Horizon
Days == 0 .. day(Horizon)
MaxTiers == 1 + Max({Len(TierUpTo[p]) : p \in Plans})
Counts == [1 .. MaxTiers -> Nat]
NoPass == [pc |-> "idle"]

Sub == [id : 1 .. MaxSubs, start : Instants, end : Nat, plan : Plans]
Row == [start : Nat, end : Nat, through : Nat, plan : Plans, allowance : Allowances,
        own : Seq(Nat), carry : Seq(Nat), sub : 1 .. MaxSubs, acked : BOOLEAN]

stated(row) == sumEach(row.own, row.carry)

(* The days of a row that a period of subscription id follows: all of its window
   across a renewal, and what was summed while it was live across a change.     *)
daysFor(row, id) ==
  [start |-> row.start, end |-> IF row.sub = id THEN row.end ELSE row.through]

(* Mutant of previous: the period that started last before this one. *)
previousByStart(start, id) ==
  LET earlier == {p \in DOMAIN ledger : p < start}
  IN  {p \in earlier : \A q \in earlier : q <= p}

(* The other period whose days end latest, the later period on a tie. *)
previous(start, id) ==
  LET others == DOMAIN ledger \ {start}
      ends(p) == daysFor(ledger[p], id).end
  IN  {p \in others : \A q \in others :
         ends(q) < ends(p) \/ (ends(q) = ends(p) /\ q <= p)}

Init ==
  /\ clock = 0
  /\ cells = [d \in Days |-> 0] /\ peak = cells
  /\ sub = {} /\ subs = 0 /\ starts = {}
  /\ allowance \in Allowances
  /\ ledger = <<>>
  /\ held = [p \in Instants |-> [k \in 1 .. MaxTiers |-> 0]]
  /\ pass = NoPass
-----------------------------------------------------------------------------
(* The world around the pass. *)

(* A pass is cut short half an hour in: it sees at most one instant go by. *)
Tick ==
  /\ clock < Horizon
  /\ pass # NoPass => clock = pass.now
  /\ clock' = clock + 1
  /\ UNCHANGED <<usageVars, orgVars, ledger, held, pass>>

(* The usage pass rewrites the cell of a day that has begun: events arrive, arrive
   late, or are erased.                                                         *)
Recount(d) == \E n \in 0 .. MaxCount :
  /\ d <= day(clock)
  /\ n > cells[d] \/ (n < cells[d] /\ "erase" \in Happens)
  /\ cells' = [cells EXCEPT ![d] = n]
  /\ peak' = [peak EXCEPT ![d] = Larger(@, n)]
  /\ UNCHANGED <<clock, orgVars, ledger, held, pass>>

(* An operator re-sets the org's deal. *)
SetAllowance == \E a \in Allowances \ {allowance} :
  /\ "deal" \in Happens
  /\ allowance' = a
  /\ UNCHANGED <<clock, usageVars, sub, subs, starts, ledger, held, pass>>

(* A purchase is reported, perhaps a little after it was made; the partial unique
   index admits one live subscription. Two periods never start at one instant.  *)
Subscribe == \E start \in Instants \ starts, p \in Plans :
  /\ sub = {} /\ subs < MaxSubs
  /\ clock - Lag <= start /\ start <= clock
  /\ sub' = {[id |-> subs + 1, start |-> start, end |-> start + Cycle, plan |-> p]}
  /\ subs' = subs + 1
  /\ starts' = starts \cup {start}
  /\ UNCHANGED <<clock, usageVars, allowance, ledger, held, pass>>

Cancel ==
  /\ sub # {}
  /\ sub' = {}
  /\ UNCHANGED <<clock, usageVars, subs, allowance, starts, ledger, held, pass>>

(* A renewal is reported once its period has begun, backdated to where the last
   one ended.                                                                   *)
Renew == \E s \in sub :
  /\ s.end <= clock /\ s.end \notin starts
  /\ sub' = {[s EXCEPT !.start = s.end, !.end = s.end + Cycle]}
  /\ starts' = starts \cup {s.end}
  /\ UNCHANGED <<clock, usageVars, subs, allowance, ledger, held, pass>>

(* Paying off a held renewal keeps the period's start and moves its end to one
   cycle after the payment.                                                     *)
PayOff == \E s \in sub :
  /\ "hold" \in Happens
  /\ s.start < clock /\ s.end < clock + Cycle
  /\ sub' = {[s EXCEPT !.end = clock + Cycle]}
  /\ UNCHANGED <<clock, usageVars, subs, allowance, starts, ledger, held, pass>>

(* The customer moves to another product in the provider's portal. *)
ChangePlan == \E s \in sub : \E p \in Plans \ {s.plan} :
  /\ "replan" \in Happens
  /\ sub' = {[s EXCEPT !.plan = p]}
  /\ UNCHANGED <<clock, usageVars, subs, allowance, starts, ledger, held, pass>>
-----------------------------------------------------------------------------
(* The pass. It lists the subscription and takes the time once, at its start. *)

(* Mutant of Frozen: the renewal instant itself is still stated into the period. *)
FrozenAfter(s, now) == now > s.end

Frozen(s, now) == now >= s.end

(* Mutant of Begin: an unacknowledged statement is left as it is. *)
BeginAfresh == \E s \in sub :
  /\ pass = NoPass
  /\ ~Frozen(s, clock)
  /\ pass' = [pc |-> "state", sub |-> s, now |-> clock]
  /\ UNCHANGED <<clock, usageVars, orgVars, ledger, held>>

(* A statement left unacknowledged is sent again before anything is computed. *)
Begin == \E s \in sub :
  /\ pass = NoPass
  /\ ~Frozen(s, clock)
  /\ pass' = [pc |-> IF s.start \in DOMAIN ledger /\ ~ledger[s.start].acked
                     THEN "resend" ELSE "state",
              sub |-> s, now |-> clock]
  /\ UNCHANGED <<clock, usageVars, orgVars, ledger, held>>

(* The listed subscription is still the org's, in the same period. *)
StillTheOrgs(s) == \E t \in sub : t.id = s.id /\ t.start = s.start

windowOf(s) ==
  windowFor(s.start, s.end,
            {ledger[p].start : p \in DOMAIN ledger \cap {s.start}},
            {daysFor(ledger[p], s.id).end : p \in previous(s.start, s.id)})

(* Mutant of carryInto: a change of plan carries too. *)
carryAnyPlan(s, plan, win) ==
  LET meets == {p \in previous(s.start, s.id) :
                  daysFor(ledger[p], s.id).end = win.start}
  IN  IF meets = {} THEN None(TierUpTo[plan])
      ELSE LET prev == ledger[Max(meets)]
               days == daysFor(prev, s.id)
           IN  carry(Split(sum(cells, days.start, days.end), prev.allowance, TierUpTo[plan]),
                     prev.own)

(* The days the period follows, counted again and split under the terms they were
   stated under, less what was stated as their own. Only where the two windows
   meet, and only within one plan.                                              *)
carryInto(s, plan, win) ==
  LET meets == {p \in previous(s.start, s.id) :
                  /\ daysFor(ledger[p], s.id).end = win.start
                  /\ ledger[p].plan = plan}
  IN  IF meets = {} THEN None(TierUpTo[plan])
      ELSE LET prev == ledger[Max(meets)]
               days == daysFor(prev, s.id)
           IN  carry(Split(sum(cells, days.start, days.end), prev.allowance, TierUpTo[plan]),
                     prev.own)

(* Mutant of Statement: the period's own count follows a recount down. *)
StatementAfresh(s, plan, now) ==
  LET win   == windowOf(s)
      own   == Split(sum(cells, win.start, throughDay(win, now)), allowance, TierUpTo[plan])
      carried == carryInto(s, plan, win)
  IN  [start |-> win.start, end |-> win.end, through |-> throughDay(win, now),
       plan |-> plan, allowance |-> allowance, own |-> own,
       carry |-> IF s.start \in DOMAIN ledger THEN maxEach(ledger[s.start].carry, carried)
                 ELSE carried,
       sub |-> s.id, acked |-> FALSE]

(* What this tick states: never below what the row already states. *)
Statement(s, plan, now) ==
  LET win   == windowOf(s)
      first == s.start \notin DOMAIN ledger
      own   == Split(sum(cells, win.start, throughDay(win, now)), allowance, TierUpTo[plan])
      carried == carryInto(s, plan, win)
  IN  [start |-> win.start, end |-> win.end, through |-> throughDay(win, now),
       plan |-> plan, allowance |-> allowance,
       own   |-> IF first THEN own ELSE maxEach(ledger[s.start].own, own),
       carry |-> IF first THEN carried ELSE maxEach(ledger[s.start].carry, carried),
       sub |-> s.id, acked |-> FALSE]

WriteAhead(p, row) ==
  ledger' = IF p \notin DOMAIN ledger
            THEN [q \in DOMAIN ledger \cup {p} |-> IF q = p THEN row ELSE ledger[q]]
            ELSE [ledger EXCEPT ![p] =
                    [row EXCEPT !.start = ledger[p].start,
                                !.through = Smaller(Larger(ledger[p].through, row.through), row.end)]]

(* A tick with nothing new to state still records how far it saw the
   subscription live, and where its period now ends.                          *)
Advance(p, row) ==
  LET end == Larger(ledger[p].end, row.end)
      through == Smaller(row.through, end)
  IN  ledger' = IF ledger[p].end < row.end \/ ledger[p].through < through
                THEN [ledger EXCEPT ![p].end = end, ![p].through = through]
                ELSE ledger

(* The entitlement is read, the statement computed and, if it says anything new,
   written ahead. The two sums read disjoint days and the write meets no other
   writer, so reading and writing at once loses no interleaving.              *)
State ==
  LET s == pass.sub
      known == s.start \in DOMAIN ledger
  IN  /\ pass.pc = "state"
      /\ StillTheOrgs(s)
      /\ \E t \in sub :
           LET row == Statement(s, t.plan, pass.now)
           IN  /\ known => ledger[s.start].plan = t.plan
               /\ IF known /\ row.own = ledger[s.start].own /\ row.carry = ledger[s.start].carry
                  THEN Advance(s.start, row) /\ pass' = NoPass
                  ELSE WriteAhead(s.start, row) /\ pass' = [pass EXCEPT !.pc = "ingest"]
      /\ UNCHANGED <<clock, usageVars, orgVars, held>>

(* The subscription changed since it was listed: left to the next tick. A period
   split under another plan cannot be restated.                               *)
Superseded ==
  /\ pass.pc = "state"
  /\ \/ ~StillTheOrgs(pass.sub)
     \/ \E t \in sub : /\ pass.sub.start \in DOMAIN ledger
                       /\ ledger[pass.sub.start].plan # t.plan
  /\ pass' = NoPass
  /\ UNCHANGED <<clock, usageVars, orgVars, ledger, held>>

(* Where a statement stamped now lands: in the period that covers it. Past the
   end, while the provider is renewing, in either period.                      *)
Land(s, now, told) == \E p \in (IF now < s.end THEN {s.start} ELSE {s.start, s.end} \cap Instants) :
  held' = [held EXCEPT ![p] =
             [k \in 1 .. MaxTiers |-> IF k \in DOMAIN told THEN Larger(told[k], @[k]) ELSE @[k]]]

(* The statement lands. A lost answer is this step and then Fail. *)
Ingest ==
  /\ pass.pc \in {"resend", "ingest"}
  /\ Land(pass.sub, pass.now, stated(ledger[pass.sub.start]))
  /\ pass' = [pass EXCEPT !.pc = IF pass.pc = "resend" THEN "resent" ELSE "stated"]
  /\ UNCHANGED <<clock, usageVars, orgVars, ledger>>

(* Under the lock the row is still the one that was sent: stated_at matches. *)
ack ==
  /\ pass.pc \in {"resent", "stated"}
  /\ ledger' = [ledger EXCEPT ![pass.sub.start].acked = TRUE]
  /\ pass' = IF pass.pc = "resent" THEN [pass EXCEPT !.pc = "state"] ELSE NoPass
  /\ UNCHANGED <<clock, usageVars, orgVars, held>>

(* A read, a write or a call fails, the pass is cut short, or its process dies. *)
Fail ==
  /\ pass # NoPass
  /\ pass' = NoPass
  /\ UNCHANGED <<clock, usageVars, orgVars, ledger, held>>

World == Tick \/ (\E d \in Days : Recount(d)) \/ SetAllowance \/ Subscribe \/ Cancel
         \/ Renew \/ PayOff \/ ChangePlan
Pass == Begin \/ State \/ Superseded \/ Ingest \/ ack \/ Fail

Next == World \/ Pass
Spec == Init /\ [][Next]_vars

(* The cron job runs hourly, every step of a pass is scheduled, and a call that is
   made again and again succeeds in the end.                                    *)
FairSpec == Spec /\ WF_vars(Begin) /\ WF_vars(Superseded)
                 /\ SF_vars(State) /\ SF_vars(Ingest) /\ SF_vars(ack)
-----------------------------------------------------------------------------
TypeOK ==
  /\ clock \in Instants
  /\ cells \in [Days -> 0 .. MaxCount] /\ peak \in [Days -> 0 .. MaxCount]
  /\ sub \subseteq Sub /\ subs \in 0 .. MaxSubs /\ starts \subseteq Instants
  /\ allowance \in Allowances
  /\ DOMAIN ledger \subseteq starts
  /\ \A p \in DOMAIN ledger :
       /\ ledger[p] \in Row
       /\ ledger[p].start <= ledger[p].through /\ ledger[p].through <= ledger[p].end
  /\ held \in [Instants -> Counts]
  /\ pass = NoPass \/ pass \in [pc : {"resend", "resent", "state", "ingest", "stated"},
                                sub : Sub, now : Instants]

(* "The ledger never understates what the provider holds": no meter holds more in
   a period than the row says, and an acknowledged row is what the meters hold.
   It takes writing ahead, never stating less, and never stating past the period's
   end, where the number would fall in the next period.                          *)
LedgerNeverUnderstates == \A p \in Instants :
  IF p \notin DOMAIN ledger THEN \A k \in 1 .. MaxTiers : held[p][k] = 0
  ELSE \A k \in DOMAIN stated(ledger[p]) :
         /\ held[p][k] <= stated(ledger[p])[k]
         /\ ledger[p].acked => held[p][k] = stated(ledger[p])[k]

(* "Every UTC day is stated at most once, across renewals, re-subscriptions and
   deal cutovers alike": no day is among those two periods count as their own, and
   the windows of one subscription are disjoint to their ends.                   *)
EachDayStatedOnce == \A p, q \in DOMAIN ledger : p # q =>
  LET a == daysFor(ledger[p], ledger[q].sub)
      b == daysFor(ledger[q], ledger[p].sub)
  IN  {} = (a.start .. a.end - 1) \cap (b.start .. b.end - 1)

(* The customer is never billed more events than were ever metered, whatever
   statements were lost, repeated or carried, and however the days and the
   allowance moved in between.                                                  *)
NeverOverbilled ==
  MapThenSumSet(LAMBDA p : SumFunction(held[p]), Instants) <= SumFunction(peak)

(* Split counts in every tier the events that fall in it, so none is billed twice,
   none past the allowance is missed, and no tier is ever negative.  It is a
   fact about Split alone, shown in the first state.                              *)
TiersCountTheirEvents == Init =>
  \A in \in Inputs : \A k \in Tiers(in.upTo) :
    Split(in.total, in.free, in.upTo)[k] =
      Cardinality({i \in 0 .. in.total - 1 : FallsIn(i, k, in.free, in.upTo)})

(* A statement never goes down, and a period's window starts once. *)
StatedNeverDown ==
  [][\A p \in DOMAIN ledger :
       /\ p \in DOMAIN ledger'
       /\ ledger'[p].start = ledger[p].start
       /\ ledger'[p].plan = ledger[p].plan
       /\ ledger'[p].end >= ledger[p].end /\ ledger'[p].through >= ledger[p].through
       /\ \A k \in DOMAIN ledger[p].own : /\ ledger'[p].own[k] >= ledger[p].own[k]
                                          /\ ledger'[p].carry[k] >= ledger[p].carry[k]]_vars

(* A period that is not waiting for its renewal, and has not been split under another
   plan, has been stated in full: its days and what it carries, and the provider
   holds it.                                                                      *)
Stated == \A s \in sub : ~Frozen(s, clock) =>
  /\ s.start \in DOMAIN ledger
  /\ ledger[s.start].plan = s.plan =>
       LET row == ledger[s.start]
           carried == carryInto(s, s.plan, [start |-> row.start, end |-> row.end])
           own == Split(sum(cells, row.start, throughDay(row, clock)), allowance, TierUpTo[row.plan])
       IN  \A k \in DOMAIN own : held[s.start][k] >= own[k] + carried[k]

(* Once the subscription and its usage rest, what they come to is stated: statements
   that fail, are cut short or are lost are made again until one is answered.       *)
UsageIsStated == <>[][~World]_vars => <>[]Stated

(* "Each window's shortfall is carried once, by the window after it", and on a tie the
   previous window is the one that "has carried the other already": of the periods
   whose windows start where the days of one end, at most one carries.             *)
CarriedOnce == \A p \in DOMAIN ledger :
  LET after == {q \in DOMAIN ledger \ {p} :
                  ledger[q].start = daysFor(ledger[p], ledger[q].sub).end}
  IN  \A q, r \in after : q # r =>
        \/ \A k \in DOMAIN ledger[q].carry : ledger[q].carry[k] = 0
        \/ \A k \in DOMAIN ledger[r].carry : ledger[r].carry[k] = 0

(* Well typed, and the ledger bounds what the provider holds. *)
Inv == TypeOK /\ LedgerNeverUnderstates
===============================================================================
