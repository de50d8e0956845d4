----------------------------- MODULE UsageProofs -----------------------------
(* What the usage pass promises, for any projects, orgs and passes, any calendar and
   any number of changes, deletions and faults.                                   *)
EXTENDS Usage, FiniteSetTheorems, WellFoundedInduction, TLAPS

PassRow == [pc : {"idle", "read", "record", "check", "reconcile", "mark", "refresh"},
            now : Days, full : BOOLEAN, cells : Counts, foreign : BOOLEAN, todo : SUBSET Orgs]

(* The types of what the counts depend on; the totals are sums of them. *)
Typed ==
  /\ clock \in Days
  /\ events \in Counts /\ changed \in Counts /\ stored \in Counts
  /\ project \in [Projects -> {"live", "pending", "deleting", "gone"}]
  /\ counted \in [Projects -> SUBSET [Days -> Nat]]
  /\ lastFull \in Days \cup {None}
  /\ lock \in Passes \cup {None}
  /\ pass \in [Passes -> PassRow]

(* No event, count or pass is of a day ahead. *)
Timely ==
  /\ lastFull # None => lastFull <= clock
  /\ \A p \in Projects, d \in Days : events[p][d] # 0 => d <= changed[p][d]
  /\ \A p \in Live, d \in Days : stored[p][d] # 0 => d <= clock
  /\ \A x \in Passes : /\ pass[x].now <= clock
                       /\ \A p \in Projects, d \in Days : pass[x].cells[p][d] # 0 => d \in InWindow(x)

(* No read left projects out, and no lock was lost. *)
Orderly == seen \cap {"truncated", "unlocked"} = {}

(* A pass that runs is the only one, and no earlier than what is stored. *)
Alone(x) ==
  pass[x].pc # "idle" =>
    /\ lock = x
    /\ lastFull # None => lastFull <= pass[x].now
    /\ \A p \in Live, d \in Days : stored[p][d] # 0 => d <= pass[x].now

(* What it read of live projects has not changed since the day before, or is nothing
   at all; a pass that reconciles has read something.                              *)
HasRead(x) ==
  pass[x].pc \in {"record", "check", "reconcile", "mark"} =>
    \/ pass[x].pc \in {"record", "check"} /\ pass[x].cells = NoCounts
    \/ \A p \in Live : \A d \in InWindow(x) :
         changed[p][d] < pass[x].now => pass[x].cells[p][d] = events[p][d]

(* What it read is stored, and in the end nothing else over its window. *)
HasStored(x) ==
  /\ pass[x].pc \in {"check", "reconcile", "mark"} =>
       \A p \in Live, d \in Days : pass[x].cells[p][d] # 0 => stored[p][d] = pass[x].cells[p][d]
  /\ pass[x].pc = "mark" =>
       \A p \in Live : \A d \in InWindow(x) : stored[p][d] = pass[x].cells[p][d]

IInv ==
  /\ Typed /\ Timely
  /\ Orderly => \A x \in Passes : Alone(x) /\ HasRead(x) /\ HasStored(x)
  /\ FullPassCountsAll
-----------------------------------------------------------------------------
(* The constants are what they should be. *)
LEMMA Constants ==
  /\ Horizon \in Nat /\ MonthStart \in Nat /\ Rescan \in Nat /\ 0 < Rescan
  /\ Orgs # {} /\ OrgOf \in [Projects -> Orgs] /\ Anniversary \in [Orgs -> Nat]
  /\ Earlier \in [Projects -> Nat] /\ None \notin Nat /\ None \notin Passes
BY UsageAssumption

LEMMA DaysAre == Days \subseteq Nat /\ 0 \in Days /\ NoCounts \in Counts /\ Idle \in PassRow
<1>1. Days \subseteq Nat /\ 0 \in Days
  BY Constants DEF Days
<1>2. NoCounts \in Counts
  BY <1>1 DEF NoCounts, Counts
<1>. QED  BY <1>1, <1>2 DEF Idle, PassRow

(* A set of natural numbers has a least one. *)
LEMMA Least ==
  ASSUME NEW T, T \subseteq Nat, T # {}
  PROVE  \E n \in T : \A m \in T : n <= m
<1>1. PICK n \in T : \A m \in T : <<m, n>> \notin OpToRel(<, Nat)
  BY NatLessThanWellFounded, WFMin
<1>2. \A m \in T : ~(m < n)
  BY <1>1 DEF OpToRel
<1>. QED  BY <1>2

(* A full pass goes back to the first day of every org's period, and as a trailing one. *)
LEMMA Reaches ==
  ASSUME NEW now \in Days, NEW o \in Orgs
  PROVE  /\ meterFrom(TRUE, now) \in Int
         /\ meterFrom(TRUE, now) <= PeriodFor(o, now) /\ meterFrom(TRUE, now) <= now - Rescan
<1>. DEFINE From == {now - Rescan, MonthOf(now)} \cup {PeriodFor(org, now) : org \in Orgs}
            Up == {f + Rescan : f \in From}
<1>1. now \in Nat /\ MonthOf(now) \in Nat /\ \A org \in Orgs : PeriodFor(org, now) \in Nat
  BY DaysAre, Constants DEF MonthOf, PeriodFor
<1>2. From \subseteq Int /\ \A f \in From : f + Rescan \in Nat
  BY <1>1, Constants
<1>3. now - Rescan \in From /\ PeriodFor(o, now) \in From
  OBVIOUS
<1>4. meterFrom(TRUE, now) = Min(From)
  BY DEF meterFrom, FullRecomputeFrom
<1>. HIDE DEF From
<1>5. Up \subseteq Nat /\ Up # {}
  BY <1>2, <1>3
<1>6. PICK u \in Up : \A v \in Up : u <= v
  <2>. HIDE DEF Up
  <2>. QED  BY <1>5, Least
<1>7. PICK f \in From : u = f + Rescan
  BY <1>6
<1>8. \A g \in From : f <= g
  <2>. SUFFICES ASSUME NEW g \in From PROVE f <= g
    OBVIOUS
  <2>1. f + Rescan <= g + Rescan
    BY <1>6, <1>7
  <2>2. f \in Int /\ g \in Int /\ Rescan \in Int
    BY <1>2, Constants
  <2>. QED  BY <2>1, <2>2
<1>9. Min(From) \in From /\ \A g \in From : Min(From) <= g
  BY <1>2, <1>8 DEF Min
<1>. QED  BY <1>2, <1>3, <1>4, <1>9

(* Such a pass looks at the days of the period that have come. *)
LEMMA PeriodSeen ==
  ASSUME Typed, NEW x \in Passes, pass[x].full, NEW o \in Orgs,
         NEW d \in PeriodDays(o, PeriodFor(o, pass[x].now)), d <= pass[x].now
  PROVE  d \in InWindow(x)
<1>1. pass[x].now \in Days /\ pass[x].full = TRUE
  BY DEF Typed, PassRow
<1>2. d \in Nat /\ d \in Days /\ PeriodFor(o, d) = PeriodFor(o, pass[x].now)
  <2>1. d \in Days /\ PeriodFor(o, d) = PeriodFor(o, pass[x].now)
    BY DEF PeriodDays
  <2>. QED  BY <2>1, DaysAre
<1>3. PeriodFor(o, d) \in Nat /\ PeriodFor(o, d) <= d
  BY <1>2, Constants DEF PeriodFor
<1>4. meterFrom(TRUE, pass[x].now) \in Int /\ meterFrom(TRUE, pass[x].now) <= PeriodFor(o, d)
  BY <1>1, <1>2, Reaches
<1>5. InWindow(x) = {e \in Days : meterFrom(TRUE, pass[x].now) <= e /\ e <= pass[x].now}
  BY <1>1 DEF InWindow
<1>6. meterFrom(TRUE, pass[x].now) <= d
  <2>1. ASSUME NEW m \in Int, NEW s \in Nat, m <= s, s <= d PROVE m <= d
    BY <1>2, <2>1
  <2>. QED  BY <1>3, <1>4, <2>1
<1>. QED  BY <1>2, <1>5, <1>6
-----------------------------------------------------------------------------
(* The initial states. *)
LEMMA InitOK == Init => IInv
<1>. SUFFICES ASSUME Init PROVE IInv
  OBVIOUS
<1>1. \A x \in Passes : pass[x] = Idle
  BY DEF Init
<1>2. Typed
  BY DaysAre, Constants DEF Init, Typed, Counts
<1>3. Timely
  BY <1>1, <1>2, DaysAre, Constants DEF Init, Timely, NoCounts, Idle, Live, Typed
<1>4. \A x \in Passes : Alone(x) /\ HasRead(x) /\ HasStored(x)
  BY <1>1 DEF Alone, HasRead, HasStored, Idle
<1>5. FullPassCountsAll
  BY DEF Init, FullPassCountsAll
<1>. QED  BY <1>2, <1>3, <1>4, <1>5 DEF IInv

(* The window of a pass that has not moved. *)
LEMMA SameWindow ==
  ASSUME NEW x \in Passes, pass'[x].now = pass[x].now, pass'[x].full = pass[x].full
  PROVE  InWindow(x)' = InWindow(x)
BY DEF InWindow

(* Midnight. *)
LEMMA TickKeeps == IInv /\ Tick => IInv'
<1>. SUFFICES ASSUME IInv, Tick PROVE IInv'
  OBVIOUS
<1>1. /\ clock \in Nat /\ clock' = clock + 1 /\ clock' \in Days
      /\ UNCHANGED <<events, changed, project, counted, stored, lastFull, lock, pass, seen>>
  BY DaysAre, Constants DEF Tick, IInv, Typed, Days, world, deletions, health
<1>2. Live' = Live /\ \A x \in Passes : InWindow(x)' = InWindow(x)
  BY <1>1 DEF Live, InWindow
<1>3. Typed'
  BY <1>1 DEF IInv, Typed
<1>4. Timely'
  <2>1. /\ lastFull # None => lastFull <= clock'
    BY <1>1, DaysAre DEF IInv, Timely, Typed
  <2>2. \A p \in Live, d \in Days : stored[p][d] # 0 => d <= clock'
    <3>. SUFFICES ASSUME NEW p \in Live, NEW d \in Days, stored[p][d] # 0 PROVE d <= clock'
      OBVIOUS
    <3>1. d \in Nat /\ d <= clock
      BY DaysAre DEF IInv, Timely
    <3>. QED  BY <1>1, <3>1
  <2>3. \A x \in Passes : pass[x].now <= clock'
    <3>. SUFFICES ASSUME NEW x \in Passes PROVE pass[x].now <= clock'
      OBVIOUS
    <3>1. pass[x].now \in Nat /\ pass[x].now <= clock
      BY DaysAre DEF IInv, Timely, Typed, PassRow
    <3>. QED  BY <1>1, <3>1
  <2>. QED  BY <1>1, <1>2, <2>1, <2>2, <2>3 DEF IInv, Timely
<1>5. Orderly' => \A x \in Passes : Alone(x)' /\ HasRead(x)' /\ HasStored(x)'
  BY <1>1, <1>2 DEF IInv, Orderly, Alone, HasRead, HasStored
<1>6. FullPassCountsAll'
  BY <1>1, <1>2 DEF IInv, FullPassCountsAll
<1>. QED  BY <1>3, <1>4, <1>5, <1>6 DEF IInv

(* Events arrive and are erased: the count changed today. *)
LEMMA ChangeKeeps ==
  ASSUME IInv, NEW q \in Projects, NEW e \in Days, NEW n \in Nat, Change(q, e, n)
  PROVE  IInv'
<1>1. /\ events' = [events EXCEPT ![q][e] = n] /\ changed' = [changed EXCEPT ![q][e] = clock]
      /\ e <= clock /\ clock \in Nat
      /\ UNCHANGED <<clock, project, counted, stored, lastFull, lock, pass, seen>>
  BY DaysAre DEF Change, deletions, health, IInv, Typed
<1>2. /\ events' \in Counts /\ changed' \in Counts
      /\ \A p \in Projects, d \in Days :
           \/ p = q /\ d = e /\ changed'[p][d] = clock
           \/ events'[p][d] = events[p][d] /\ changed'[p][d] = changed[p][d]
  BY <1>1 DEF IInv, Typed, Counts
<1>3. Live' = Live /\ \A x \in Passes : InWindow(x)' = InWindow(x)
  BY <1>1 DEF Live, InWindow
<1>4. Typed'
  BY <1>1, <1>2 DEF IInv, Typed
<1>5. Timely'
  BY <1>1, <1>2, <1>3 DEF IInv, Timely
<1>6. ASSUME NEW x \in Passes, HasRead(x)
      PROVE  HasRead(x)'
  <2>1. pass[x].now \in Nat /\ pass[x].now <= clock
    BY DaysAre DEF IInv, Timely, Typed, PassRow
  <2>2. \A d \in InWindow(x) : d \in Days
    BY DEF InWindow
  <2>3. \A p \in Live : p \in Projects
    BY DEF Live
  <2>. QED  BY <1>1, <1>2, <1>3, <1>6, <2>1, <2>2, <2>3 DEF HasRead
<1>7. Orderly' => \A x \in Passes : Alone(x)' /\ HasRead(x)' /\ HasStored(x)'
  <2>1. Orderly' => \A x \in Passes : Alone(x) /\ HasRead(x) /\ HasStored(x)
    BY <1>1 DEF IInv, Orderly
  <2>2. \A x \in Passes : (Alone(x) => Alone(x)') /\ (HasStored(x) => HasStored(x)')
    BY <1>1, <1>3 DEF Alone, HasStored
  <2>. QED  BY <1>6, <2>1, <2>2
<1>8. FullPassCountsAll'
  <2>. SUFFICES ASSUME lastFull # None, seen \cap {"truncated", "unlocked"} = {}, NEW p \in Live,
                       NEW d \in PeriodDays(OrgOf[p], PeriodFor(OrgOf[p], lastFull)),
                       changed'[p][d] < lastFull
                PROVE  stored[p][d] = events'[p][d]
    BY <1>1, <1>3 DEF FullPassCountsAll
  <2>1. lastFull \in Nat /\ lastFull <= clock /\ p \in Projects /\ d \in Days
    BY DaysAre DEF IInv, Timely, Typed, Live, PeriodDays
  <2>2. events'[p][d] = events[p][d] /\ changed'[p][d] = changed[p][d]
    BY <1>1, <1>2, <2>1
  <2>. QED  BY <2>1, <2>2 DEF IInv, FullPassCountsAll
<1>. QED  BY <1>4, <1>5, <1>7, <1>8 DEF IInv

(* A project's deletion changes nothing of the live ones. *)
LEMMA DeletionKeeps ==
  ASSUME IInv, NEW q \in Projects, Delete(q) \/ CountForPurge(q) \/ Freeze(q) \/ Purge(q)
  PROVE  IInv'
<1>1. UNCHANGED <<clock, changed, lastFull, lock, pass, seen>>
  BY DEF Delete, CountForPurge, Freeze, Purge, world, deletions, health
<1>2. /\ Live' \subseteq Live
      /\ project' \in [Projects -> {"live", "pending", "deleting", "gone"}]
  BY DEF Delete, CountForPurge, Freeze, Purge, deletions, Live, IInv, Typed
<1>3. counted' \in [Projects -> SUBSET [Days -> Nat]]
  <2>1. CASE CountForPurge(q)
    <3>1. PICK from : counted' = [counted EXCEPT ![q] = @ \cup {MeterWindow(from, clock, {q})[q]}]
      BY <2>1 DEF CountForPurge
    <3>2. MeterWindow(from, clock, {q})[q] \in [Days -> Nat]
      BY DEF MeterWindow, IInv, Typed, Counts
    <3>. QED  BY <3>1, <3>2 DEF IInv, Typed
  <2>2. CASE ~CountForPurge(q)
    BY <2>2 DEF Delete, Freeze, Purge, IInv, Typed, deletions
  <2>. QED  BY <2>1, <2>2
<1>4. /\ events' \in Counts
      /\ \A p \in Projects, d \in Days : events'[p][d] # 0 => events'[p][d] = events[p][d]
      /\ \A p \in Live' : events'[p] = events[p]
  <2>1. CASE Purge(q)
    <3>1. /\ events' = [events EXCEPT ![q] = NoCounts[q]] /\ q \notin Live'
      BY <2>1 DEF Purge, Live, IInv, Typed
    <3>. QED  BY <3>1, <1>2, DaysAre DEF IInv, Typed, Counts, Live, NoCounts
  <2>2. CASE ~Purge(q)
    BY <2>2 DEF Delete, Freeze, CountForPurge, IInv, Typed, world
  <2>. QED  BY <2>1, <2>2
<1>5. stored' \in Counts /\ \A p \in Live : stored'[p] = stored[p]
  <2>1. CASE Freeze(q)
    <3>1. PICK days \in counted[q] : stored' = FreezeUsageDaily(q, days)
      BY <2>1 DEF Freeze
    <3>2. days \in [Days -> Nat] /\ q \notin Live
      BY <2>1 DEF Freeze, Live, IInv, Typed
    <3>. QED  BY <3>1, <3>2 DEF FreezeUsageDaily, Live, IInv, Typed, Counts
  <2>2. CASE ~Freeze(q)
    BY <2>2 DEF Delete, Purge, CountForPurge, IInv, Typed
  <2>. QED  BY <2>1, <2>2
<1>6. \A x \in Passes : InWindow(x)' = InWindow(x)
  BY <1>1 DEF InWindow
<1>7. Typed'
  BY <1>1, <1>2, <1>3, <1>4, <1>5 DEF IInv, Typed
<1>8. Timely'
  BY <1>1, <1>2, <1>4, <1>5, <1>6 DEF IInv, Timely
<1>9. Orderly' => \A x \in Passes : Alone(x)' /\ HasRead(x)' /\ HasStored(x)'
  <2>1. Orderly' => \A x \in Passes : Alone(x) /\ HasRead(x) /\ HasStored(x)
    BY <1>1 DEF IInv, Orderly
  <2>2. \A x \in Passes : Alone(x) => Alone(x)'
    BY <1>1, <1>2, <1>5 DEF Alone
  <2>3. \A x \in Passes : HasRead(x) => HasRead(x)'
    BY <1>1, <1>2, <1>4, <1>6 DEF HasRead
  <2>4. \A x \in Passes : HasStored(x) => HasStored(x)'
    BY <1>1, <1>2, <1>5, <1>6 DEF HasStored
  <2>. QED  BY <2>1, <2>2, <2>3, <2>4
<1>10. FullPassCountsAll'
  BY <1>1, <1>2, <1>4, <1>5 DEF IInv, FullPassCountsAll
<1>. QED  BY <1>7, <1>8, <1>9, <1>10 DEF IInv
-----------------------------------------------------------------------------
(* One pass moves, the others stay. *)
LEMMA Moves ==
  ASSUME IInv, NEW x \in Passes, NEW r \in PassRow, Goto(x, r)
  PROVE  /\ pass' \in [Passes -> PassRow] /\ pass'[x] = r
         /\ \A y \in Passes \ {x} : pass'[y] = pass[y] /\ InWindow(y)' = InWindow(y)
BY DEF Goto, IInv, Typed, InWindow

(* In good order the others are idle, and have nothing to keep. *)
LEMMA Others ==
  ASSUME IInv, NEW x \in Passes, NEW r \in PassRow, Goto(x, r), pass[x].pc # "idle" \/ lock = None
  PROVE  Orderly => \A y \in Passes \ {x} : Alone(y)' /\ HasRead(y)' /\ HasStored(y)'
<1>. SUFFICES ASSUME Orderly, NEW y \in Passes \ {x} PROVE Alone(y)' /\ HasRead(y)' /\ HasStored(y)'
  OBVIOUS
<1>1. pass[y].pc = "idle"
  BY Constants DEF IInv, Alone
<1>2. pass'[y].pc = "idle"
  BY <1>1, Moves
<1>. QED  BY <1>2 DEF Alone, HasRead, HasStored

(* An idle pass has nothing to keep. *)
LEMMA IdleKeeps ==
  ASSUME NEW x \in Passes, pass'[x].pc = "idle"
  PROVE  Alone(x)' /\ HasRead(x)' /\ HasStored(x)'
BY DEF Alone, HasRead, HasStored

(* What is left to show of a pass's step. *)
LEMMA StepKeeps ==
  ASSUME IInv, NEW x \in Passes, NEW r \in PassRow, Goto(x, r), pass[x].pc # "idle" \/ lock = None,
         UNCHANGED <<clock, events, changed, project, counted>>, seen \subseteq seen',
         stored' \in Counts, lastFull' \in Days \cup {None}, lock' \in Passes \cup {None},
         \A p \in Live, d \in Days : stored'[p][d] # 0 => d <= clock,
         lastFull' # None => lastFull' <= clock,
         r.now <= clock,
         \A p \in Projects, d \in Days : r.cells[p][d] # 0 => d \in InWindow(x)',
         Orderly' => Alone(x)' /\ HasRead(x)' /\ HasStored(x)',
         FullPassCountsAll'
  PROVE  IInv'
<1>1. Live' = Live
  BY DEF Live
<1>2. Typed'
  BY Moves DEF IInv, Typed
<1>3. Timely'
  <2>1. \A y \in Passes : /\ pass'[y].now <= clock
                          /\ \A p \in Projects, d \in Days : pass'[y].cells[p][d] # 0 => d \in InWindow(y)'
    <3>. SUFFICES ASSUME NEW y \in Passes
                  PROVE  /\ pass'[y].now <= clock
                         /\ \A p \in Projects, d \in Days : pass'[y].cells[p][d] # 0 => d \in InWindow(y)'
      OBVIOUS
    <3>1. CASE y = x
      BY <3>1, Moves
    <3>2. CASE y # x
      <4>1. pass'[y] = pass[y] /\ InWindow(y)' = InWindow(y)
        BY <3>2, Moves
      <4>. QED  BY <4>1 DEF IInv, Timely
    <3>. QED  BY <3>1, <3>2
  <2>. QED  BY <1>1, <2>1 DEF IInv, Timely
<1>4. Orderly' => \A y \in Passes : Alone(y)' /\ HasRead(y)' /\ HasStored(y)'
  <2>1. Orderly' => Orderly
    BY DEF Orderly
  <2>. QED  BY <2>1, Others
<1>. QED  BY <1>2, <1>3, <1>4 DEF IInv

(* A pass ends: whatever it stored, the others and the lock are in order. *)
LEMMA EndKeeps ==
  ASSUME IInv, NEW x \in Passes, pass[x].pc # "idle", End(x),
         UNCHANGED <<clock, events, changed, project, counted, lastFull>>, seen \subseteq seen',
         stored' \in Counts, \A p \in Live, d \in Days : stored'[p][d] # 0 => d <= clock,
         FullPassCountsAll'
  PROVE  IInv'
<1>1. Idle \in PassRow /\ Goto(x, Idle) /\ lock' \in Passes \cup {None}
  BY DaysAre DEF End, IInv, Typed
<1>2. pass'[x] = Idle
  BY <1>1, Moves
<1>3. Alone(x)' /\ HasRead(x)' /\ HasStored(x)'
  BY <1>2, IdleKeeps DEF Idle
<1>4. Idle.now <= clock /\ \A p \in Projects, d \in Days : Idle.cells[p][d] = 0
  BY DaysAre DEF Idle, NoCounts, IInv, Typed
<1>5. lastFull' \in Days \cup {None} /\ (lastFull' # None => lastFull' <= clock)
  BY DEF IInv, Typed, Timely
<1>. QED  BY <1>1, <1>3, <1>4, <1>5, StepKeeps

(* Where nothing is stored, what a pass counted in full stays so. *)
LEMMA StillCounted ==
  ASSUME IInv, UNCHANGED <<events, changed, project, stored, lastFull>>, seen \subseteq seen'
  PROVE  /\ FullPassCountsAll'
         /\ stored' \in Counts /\ \A p \in Live, d \in Days : stored'[p][d] # 0 => d <= clock
         /\ lastFull' \in Days \cup {None} /\ (lastFull' # None => lastFull' <= clock)
<1>1. Live' = Live
  BY DEF Live
<1>2. FullPassCountsAll'
  BY <1>1 DEF IInv, FullPassCountsAll
<1>. QED  BY <1>2 DEF IInv, Typed, Timely

(* The step of a pass that only goes on. *)
LEMMA GoesOn ==
  ASSUME IInv, NEW x \in Passes, NEW r \in PassRow, Goto(x, r), pass[x].pc # "idle",
         r.pc # "idle", r.now = pass[x].now, r.full = pass[x].full,
         UNCHANGED <<clock, events, changed, project, counted, stored, lastFull, lock>>,
         seen \subseteq seen',
         \A p \in Projects, d \in Days : r.cells[p][d] # 0 => d \in InWindow(x),
         Orderly' => HasRead(x)' /\ HasStored(x)'
  PROVE  IInv'
<1>1. pass'[x] = r
  BY Moves
<1>2. InWindow(x)' = InWindow(x) /\ Live' = Live
  BY <1>1, SameWindow DEF Live
<1>3. Orderly' => Alone(x)'
  <2>1. Orderly' => Orderly
    BY DEF Orderly
  <2>. QED  BY <1>1, <1>2, <2>1 DEF IInv, Alone
<1>4. r.now <= clock /\ lock' \in Passes \cup {None}
  BY DEF IInv, Typed, Timely
<1>. QED  BY <1>2, <1>3, <1>4, StillCounted, StepKeeps
-----------------------------------------------------------------------------
(* A pass begins: no other runs, and nothing is stored of a day ahead. *)
LEMMA BeginKeeps == ASSUME IInv, NEW x \in Passes, Begin(x) PROVE IInv'
<1>. DEFINE r == [Idle EXCEPT !.pc = "read", !.now = clock,
                              !.full = lastFull = None \/ clock > lastFull, !.todo = Orgs]
<1>1. /\ lock = None /\ lock' = x /\ Goto(x, r)
      /\ UNCHANGED <<clock, events, changed, project, counted, stored, lastFull, seen>>
  BY DEF Begin, world, deletions, health
<1>2. /\ r \in PassRow /\ r.pc = "read" /\ r.now = clock
      /\ \A p \in Projects, d \in Days : r.cells[p][d] = 0
  BY DaysAre DEF Idle, PassRow, NoCounts, IInv, Typed
<1>. HIDE DEF r
<1>3. pass'[x] = r
  BY <1>1, <1>2, Moves
<1>4. Alone(x)'
  <2>1. Live' = Live
    BY <1>1 DEF Live
  <2>. QED  BY <1>1, <1>2, <1>3, <2>1 DEF Alone, IInv, Timely
<1>5. HasRead(x)' /\ HasStored(x)'
  BY <1>2, <1>3 DEF HasRead, HasStored
<1>6. clock <= clock
  BY DaysAre DEF IInv, Typed
<1>7. FullPassCountsAll' /\ stored' \in Counts
      /\ (\A p \in Live, d \in Days : stored'[p][d] # 0 => d <= clock)
      /\ lastFull' \in Days \cup {None} /\ (lastFull' # None => lastFull' <= clock)
  BY <1>1, StillCounted
<1>. QED  BY <1>1, <1>2, <1>4, <1>5, <1>6, <1>7, StepKeeps

(* A read is of the days of the window, of every live project unless one was left out. *)
LEMMA ReadKeeps == ASSUME IInv, NEW x \in Passes, ReadCounts(x) PROVE IInv'
<1>. DEFINE now == pass[x].now
            read(ps) == MeterWindow(meterFrom(pass[x].full, now), now, ps)
<1>1. \A ps : read(ps) \in Counts /\ \A p \in Projects, d \in Days :
        read(ps)[p][d] = IF p \in ps /\ d \in InWindow(x) THEN events[p][d] ELSE 0
  BY DEF MeterWindow, InWindow, Counts, IInv, Typed
<1>2. PICK cells, foreign, fault :
        /\ Read(x, cells, foreign, fault) /\ foreign \in BOOLEAN
        /\ \/ cells = NoCounts
           \/ cells = read(Projects)
           \/ fault = {"truncated"} /\ \E p \in Projects : cells = read(Projects \ {p})
  BY Zenon DEF ReadCounts
<1>. DEFINE r == [pass[x] EXCEPT !.pc = "record", !.cells = cells, !.foreign = foreign]
<1>3. /\ pass[x].pc = "read" /\ Goto(x, r) /\ seen' = seen \cup fault
      /\ UNCHANGED <<clock, events, changed, project, counted, stored, lastFull, lock>>
  BY <1>2 DEF Read, At, world, deletions
<1>4. /\ cells \in Counts
      /\ \A p \in Projects, d \in Days : cells[p][d] # 0 => d \in InWindow(x)
  <2>1. CASE cells = NoCounts
    BY <2>1, DaysAre DEF NoCounts
  <2>2. CASE \E ps : cells = read(ps)
    BY <1>1, <2>2
  <2>. QED  BY <1>2, <2>1, <2>2
<1>5. /\ r \in PassRow /\ r.pc = "record" /\ r.now = now /\ r.full = pass[x].full /\ r.cells = cells
  BY <1>2, <1>4 DEF IInv, Typed, PassRow
<1>. HIDE DEF r
<1>6. pass'[x] = r
  BY <1>3, <1>5, Moves
<1>7. Orderly' => HasRead(x)' /\ HasStored(x)'
  <2>. SUFFICES ASSUME Orderly' PROVE HasRead(x)' /\ HasStored(x)'
    OBVIOUS
  <2>1. "truncated" \notin fault
    BY <1>3 DEF Orderly
  <2>2. InWindow(x)' = InWindow(x) /\ Live' = Live
    BY <1>3, <1>5, <1>6, SameWindow DEF Live
  <2>3. \A p \in Live : p \in Projects
    BY DEF Live
  <2>4. \A d \in InWindow(x) : d \in Days
    BY DEF InWindow
  <2>5. \/ cells = NoCounts
        \/ \A p \in Live : \A d \in InWindow(x) : cells[p][d] = events[p][d]
    BY <1>1, <1>2, <2>1, <2>3, <2>4
  <2>. QED  BY <1>3, <1>5, <1>6, <2>2, <2>5 DEF HasRead, HasStored
<1>. QED  BY <1>3, <1>4, <1>5, <1>7, GoesOn
-----------------------------------------------------------------------------
(* What a pass stores of live projects is what ClickHouse had, and has still where
   nothing changed.                                                              *)
LEMMA RecordKeeps == ASSUME IInv, NEW x \in Passes, Record(x) PROVE IInv'
<1>1. PICK ps \in SUBSET Projects :
        /\ pass[x].pc = "record" /\ stored' = Upsert(x, ps)
        /\ IF ps = Projects THEN To(x, "check") /\ UNCHANGED lock ELSE End(x)
  BY DEF Record, At
<1>2. UNCHANGED <<clock, events, changed, project, counted, lastFull, seen>>
  BY DEF Record, world, deletions
<1>3. /\ pass[x] \in PassRow /\ pass[x].cells \in Counts /\ pass[x].now \in Nat /\ pass[x].now <= clock
      /\ clock \in Nat
  BY DaysAre DEF IInv, Typed, Timely, PassRow
<1>4. Live' = Live /\ \A p \in Live : p \in Projects
  BY <1>2 DEF Live
<1>5. /\ stored' \in Counts
      /\ \A p \in Live, d \in Days :
           \/ stored'[p][d] = stored[p][d] /\ (p \in ps => pass[x].cells[p][d] = 0)
           \/ stored'[p][d] = pass[x].cells[p][d] /\ pass[x].cells[p][d] # 0
  <2>1. stored' = [p \in Projects |-> [d \in Days |->
                     IF p \in ps \cap Live /\ pass[x].cells[p][d] > 0 THEN pass[x].cells[p][d] ELSE stored[p][d]]]
    BY <1>1 DEF Upsert
  <2>2. \A p \in Projects, d \in Days : pass[x].cells[p][d] \in Nat /\ stored[p][d] \in Nat
    BY <1>3 DEF IInv, Typed, Counts
  <2>. QED  BY <1>4, <2>1, <2>2 DEF Counts
<1>6. \A d \in InWindow(x) : d \in Nat /\ d <= pass[x].now
  BY DaysAre DEF InWindow
<1>7. \A p \in Live, d \in Days : stored'[p][d] # 0 => d <= clock
  <2>. SUFFICES ASSUME NEW p \in Live, NEW d \in Days, stored'[p][d] # 0 PROVE d <= clock
    OBVIOUS
  <2>1. CASE stored'[p][d] = stored[p][d]
    BY <2>1 DEF IInv, Timely
  <2>2. CASE pass[x].cells[p][d] # 0
    <3>1. d \in InWindow(x)
      BY <1>4, <2>2 DEF IInv, Timely
    <3>. QED  BY <1>3, <1>6, <3>1
  <2>. QED  BY <1>5, <2>1, <2>2
<1>8. FullPassCountsAll'
  <2>. SUFFICES ASSUME lastFull # None, seen \cap {"truncated", "unlocked"} = {}, NEW p \in Live,
                       NEW d \in PeriodDays(OrgOf[p], PeriodFor(OrgOf[p], lastFull)),
                       changed[p][d] < lastFull
                PROVE  stored'[p][d] = events[p][d]
    BY <1>2, <1>4 DEF FullPassCountsAll
  <2>1. d \in Days /\ lastFull \in Nat /\ changed[p][d] \in Nat
    BY DaysAre, <1>4 DEF PeriodDays, IInv, Typed, Counts
  <2>2. stored[p][d] = events[p][d]
    BY DEF IInv, FullPassCountsAll
  <2>3. CASE pass[x].cells[p][d] # 0 /\ stored'[p][d] = pass[x].cells[p][d]
    <3>1. d \in InWindow(x) /\ pass[x].cells # NoCounts
      BY <1>4, <2>1, <2>3 DEF IInv, Timely, NoCounts
    <3>2. lastFull <= pass[x].now
      BY <1>1 DEF IInv, Orderly, Alone
    <3>3. changed[p][d] < pass[x].now
      BY <1>3, <2>1, <3>2
    <3>4. pass[x].cells[p][d] = events[p][d]
      BY <1>1, <3>1, <3>3 DEF IInv, Orderly, HasRead
    <3>. QED  BY <2>3, <3>4
  <2>. QED  BY <1>5, <2>1, <2>2, <2>3
<1>9. CASE ps # Projects
  <2>1. End(x)
    BY <1>1, <1>9
  <2>. QED  BY <1>1, <1>2, <1>5, <1>7, <1>8, <2>1, EndKeeps
<1>10. CASE ps = Projects
  <2>. DEFINE r == [pass[x] EXCEPT !.pc = "check"]
  <2>1. Goto(x, r) /\ UNCHANGED lock
    BY <1>1, <1>10 DEF To
  <2>2. /\ r \in PassRow /\ r.pc = "check" /\ r.now = pass[x].now /\ r.full = pass[x].full
        /\ r.cells = pass[x].cells
    BY <1>3 DEF PassRow
  <2>. HIDE DEF r
  <2>3. pass'[x] = r
    BY <2>1, <2>2, Moves
  <2>4. InWindow(x)' = InWindow(x)
    BY <2>2, <2>3, SameWindow
  <2>5. Orderly' => Alone(x)' /\ HasRead(x)' /\ HasStored(x)'
    <3>. SUFFICES ASSUME Orderly PROVE Alone(x)' /\ HasRead(x)' /\ HasStored(x)'
      BY <1>2 DEF Orderly
    <3>1. Alone(x) /\ HasRead(x)
      BY DEF IInv
    <3>2. Alone(x)'
      <4>. SUFFICES ASSUME NEW p \in Live, NEW d \in Days, stored'[p][d] # 0 PROVE d <= pass[x].now
        BY <1>1, <1>2, <1>4, <2>1, <2>2, <2>3, <3>1 DEF Alone
      <4>1. CASE stored'[p][d] = stored[p][d]
        BY <1>1, <3>1, <4>1 DEF Alone
      <4>2. CASE pass[x].cells[p][d] # 0
        BY <1>4, <1>6, <4>2 DEF IInv, Timely
      <4>. QED  BY <1>5, <4>1, <4>2
    <3>3. HasRead(x)'
      BY <1>1, <1>2, <1>4, <2>2, <2>3, <2>4, <3>1 DEF HasRead
    <3>4. HasStored(x)'
      <4>1. \A p \in Live, d \in Days : pass[x].cells[p][d] # 0 => stored'[p][d] = pass[x].cells[p][d]
        BY <1>4, <1>5, <1>10
      <4>. QED  BY <1>4, <2>2, <2>3, <4>1 DEF HasStored
    <3>. QED  BY <3>2, <3>3, <3>4
  <2>6. \A p \in Projects, d \in Days : r.cells[p][d] # 0 => d \in InWindow(x)'
    BY <2>2, <2>4 DEF IInv, Timely
  <2>7. /\ lastFull' \in Days \cup {None} /\ (lastFull' # None => lastFull' <= clock)
        /\ lock' \in Passes \cup {None} /\ r.now <= clock
    BY <1>2, <1>3, <2>1, <2>2 DEF IInv, Typed, Timely
  <2>. QED  BY <1>1, <1>2, <1>5, <1>7, <1>8, <2>1, <2>2, <2>5, <2>6, <2>7, StepKeeps
<1>. QED  BY <1>9, <1>10

(* A read that stands, and is not nothing, has counts. *)
LEMMA CheckKeeps == ASSUME IInv, NEW x \in Passes, Check(x) PROVE IInv'
<1>1. /\ pass[x].pc = "check"
      /\ UNCHANGED <<clock, events, changed, project, counted, stored, lastFull, seen>>
  BY DEF Check, At, world, deletions, health
<1>2. CASE ~Verified(x)
  <2>1. End(x)
    BY <1>2 DEF Check
  <2>. QED  BY <1>1, <2>1, EndKeeps, StillCounted
<1>3. CASE Verified(x)
  <2>. DEFINE next == IF nothing(x) THEN "refresh" ELSE "reconcile"
              r == [pass[x] EXCEPT !.pc = next]
  <2>1. Goto(x, r) /\ UNCHANGED lock
    BY <1>3 DEF Check, To
  <2>2. pass[x] \in PassRow
    BY DEF IInv, Typed
  <2>3. /\ r \in PassRow /\ r.pc = next /\ r.now = pass[x].now /\ r.full = pass[x].full
        /\ r.cells = pass[x].cells
    BY <2>2 DEF PassRow
  <2>. HIDE DEF r
  <2>4. pass'[x] = r
    BY <2>1, <2>3, Moves
  <2>5. InWindow(x)' = InWindow(x) /\ Live' = Live
    BY <1>1, <2>3, <2>4, SameWindow DEF Live
  <2>6. next = "reconcile" => pass[x].cells # NoCounts
    <3>. SUFFICES ASSUME ~nothing(x) PROVE pass[x].cells # NoCounts
      OBVIOUS
    <3>1. metered(x) # {}
      BY <1>3 DEF Verified, KnownProjects
    <3>. QED  BY <3>1 DEF metered, NoCounts
  <2>7. Orderly' => HasRead(x)' /\ HasStored(x)'
    <3>. SUFFICES ASSUME Orderly PROVE HasRead(x)' /\ HasStored(x)'
      BY <1>1 DEF Orderly
    <3>1. HasRead(x) /\ HasStored(x)
      BY DEF IInv
    <3>2. HasRead(x)'
      BY <1>1, <2>3, <2>4, <2>5, <2>6, <3>1 DEF HasRead
    <3>3. HasStored(x)'
      BY <1>1, <2>3, <2>4, <2>5, <3>1 DEF HasStored
    <3>. QED  BY <3>2, <3>3
  <2>8. \A p \in Projects, d \in Days : r.cells[p][d] # 0 => d \in InWindow(x)
    BY <2>3 DEF IInv, Timely
  <2>9. r.pc # "idle"
    BY <2>3
  <2>. QED  BY <1>1, <2>1, <2>3, <2>7, <2>8, <2>9, GoesOn
<1>. QED  BY <1>2, <1>3

(* Reconciled, live projects have what was read, over the whole window. *)
LEMMA ReconcileKeeps == ASSUME IInv, NEW x \in Passes, Reconcile(x) PROVE IInv'
<1>. DEFINE r == [pass[x] EXCEPT !.pc = "mark"]
<1>1. /\ pass[x].pc = "reconcile" /\ Goto(x, r) /\ stored' = DeleteUnmeteredDays(x)
      /\ UNCHANGED <<clock, events, changed, project, counted, lastFull, lock, seen>>
  BY DEF Reconcile, At, To, world, deletions, health
<1>2. /\ pass[x] \in PassRow /\ pass[x].now \in Nat /\ pass[x].now <= clock /\ pass[x].cells \in Counts
  BY DaysAre DEF IInv, Typed, Timely, PassRow
<1>3. /\ r \in PassRow /\ r.pc = "mark" /\ r.now = pass[x].now /\ r.full = pass[x].full
      /\ r.cells = pass[x].cells
  BY <1>2 DEF PassRow
<1>. HIDE DEF r
<1>4. pass'[x] = r
  BY <1>1, <1>3, Moves
<1>5. /\ InWindow(x)' = InWindow(x) /\ Live' = Live /\ \A p \in Live : p \in Projects
      /\ \A d \in InWindow(x) : d \in Days
  BY <1>1, <1>3, <1>4, SameWindow DEF Live, InWindow
<1>6. /\ stored' \in Counts
      /\ \A p \in Live, d \in Days :
           stored'[p][d] = IF d \in InWindow(x) /\ pass[x].cells[p][d] = 0 THEN 0 ELSE stored[p][d]
  BY <1>1, <1>5 DEF DeleteUnmeteredDays, IInv, Typed, Counts
<1>7. \A p \in Live, d \in Days : stored'[p][d] # 0 => stored[p][d] # 0
  BY <1>6
<1>8. FullPassCountsAll'
  <2>. SUFFICES ASSUME lastFull # None, seen \cap {"truncated", "unlocked"} = {}, NEW p \in Live,
                       NEW d \in PeriodDays(OrgOf[p], PeriodFor(OrgOf[p], lastFull)),
                       changed[p][d] < lastFull
                PROVE  stored'[p][d] = events[p][d]
    BY <1>1, <1>5 DEF FullPassCountsAll
  <2>1. d \in Days /\ lastFull \in Nat /\ changed[p][d] \in Nat
    BY DaysAre, <1>5 DEF PeriodDays, IInv, Typed, Counts
  <2>2. stored[p][d] = events[p][d]
    BY DEF IInv, FullPassCountsAll
  <2>3. CASE d \in InWindow(x) /\ pass[x].cells[p][d] = 0
    <3>1. lastFull <= pass[x].now
      BY <1>1 DEF IInv, Orderly, Alone
    <3>2. changed[p][d] < pass[x].now
      BY <1>2, <2>1, <3>1
    <3>3. pass[x].cells[p][d] = events[p][d]
      BY <1>1, <2>3, <3>2 DEF IInv, Orderly, HasRead
    <3>. QED  BY <1>6, <2>1, <2>3, <3>3
  <2>. QED  BY <1>6, <2>1, <2>2, <2>3
<1>9. Orderly' => Alone(x)' /\ HasRead(x)' /\ HasStored(x)'
  <2>. SUFFICES ASSUME Orderly PROVE Alone(x)' /\ HasRead(x)' /\ HasStored(x)'
    BY <1>1 DEF Orderly
  <2>1. Alone(x) /\ HasRead(x) /\ HasStored(x)
    BY DEF IInv
  <2>2. Alone(x)'
    BY <1>1, <1>3, <1>4, <1>5, <1>7, <2>1 DEF Alone
  <2>3. HasRead(x)'
    BY <1>1, <1>3, <1>4, <1>5, <2>1 DEF HasRead
  <2>4. \A p \in Live, d \in Days : pass[x].cells[p][d] # 0 => stored'[p][d] = pass[x].cells[p][d]
    BY <1>1, <1>6, <2>1 DEF HasStored
  <2>5. \A p \in Live : \A d \in InWindow(x) : stored'[p][d] = pass[x].cells[p][d]
    BY <1>5, <1>6, <2>4
  <2>. QED  BY <1>3, <1>4, <1>5, <2>2, <2>3, <2>4, <2>5 DEF HasStored
<1>10. \A p \in Projects, d \in Days : r.cells[p][d] # 0 => d \in InWindow(x)'
  BY <1>3, <1>5 DEF IInv, Timely
<1>11. /\ lastFull' \in Days \cup {None} /\ (lastFull' # None => lastFull' <= clock)
       /\ lock' \in Passes \cup {None} /\ r.now <= clock
       /\ \A p \in Live, d \in Days : stored'[p][d] # 0 => d <= clock
  BY <1>1, <1>2, <1>3, <1>7 DEF IInv, Typed, Timely
<1>. QED  BY <1>1, <1>3, <1>6, <1>8, <1>9, <1>10, <1>11, StepKeeps

(* Marked done, a full pass has counted the whole period of every org. *)
LEMMA MarkKeeps == ASSUME IInv, NEW x \in Passes, Mark(x) PROVE IInv'
<1>. DEFINE r == [pass[x] EXCEPT !.pc = "refresh", !.cells = NoCounts]
<1>1. /\ pass[x].pc = "mark" /\ Goto(x, r)
      /\ lastFull' = IF pass[x].full THEN pass[x].now ELSE lastFull
      /\ UNCHANGED <<clock, events, changed, project, counted, stored, lock, seen>>
  BY DEF Mark, At, world, deletions, health
<1>2. /\ pass[x] \in PassRow /\ pass[x].now \in Days /\ pass[x].now \in Nat /\ pass[x].now <= clock
  BY DaysAre DEF IInv, Typed, Timely, PassRow
<1>3. /\ r \in PassRow /\ r.pc = "refresh" /\ r.now = pass[x].now /\ r.cells = NoCounts
  BY <1>2, DaysAre DEF PassRow
<1>. HIDE DEF r
<1>4. pass'[x] = r
  BY <1>1, <1>3, Moves
<1>5. Live' = Live /\ \A p \in Live : p \in Projects
  BY <1>1 DEF Live
<1>6. /\ lastFull' \in Days \cup {None} /\ (lastFull' # None => lastFull' <= clock)
      /\ Orderly => (lastFull' # None => lastFull' <= pass[x].now)
  <2>1. Orderly => (lastFull # None => lastFull <= pass[x].now)
    BY <1>1 DEF IInv, Alone
  <2>2. pass[x].now <= pass[x].now
    BY <1>2
  <2>. QED  BY <1>1, <1>2, <2>1, <2>2 DEF IInv, Typed, Timely
<1>7. Orderly' => Alone(x)' /\ HasRead(x)' /\ HasStored(x)'
  <2>. SUFFICES ASSUME Orderly PROVE Alone(x)' /\ HasRead(x)' /\ HasStored(x)'
    BY <1>1 DEF Orderly
  <2>1. Alone(x)
    BY DEF IInv
  <2>. QED  BY <1>1, <1>3, <1>4, <1>5, <1>6, <2>1 DEF Alone, HasRead, HasStored
<1>8. FullPassCountsAll'
  <2>1. CASE ~pass[x].full
    BY <1>1, <2>1, StillCounted
  <2>2. CASE pass[x].full
    <3>. SUFFICES ASSUME Orderly, NEW p \in Live,
                         NEW d \in PeriodDays(OrgOf[p], PeriodFor(OrgOf[p], pass[x].now)),
                         changed[p][d] < pass[x].now
                  PROVE  stored[p][d] = events[p][d]
      BY <1>1, <1>5, <2>2 DEF FullPassCountsAll, Orderly
    <3>1. d \in Days /\ d \in Nat /\ changed[p][d] \in Nat /\ OrgOf[p] \in Orgs
      BY DaysAre, <1>5, Constants DEF PeriodDays, IInv, Typed, Counts
    <3>2. CASE d <= pass[x].now
      <4>1. d \in InWindow(x)
        BY <2>2, <3>1, <3>2, PeriodSeen DEF IInv
      <4>2. pass[x].cells[p][d] = events[p][d]
        BY <1>1, <4>1 DEF IInv, HasRead
      <4>3. stored[p][d] = pass[x].cells[p][d]
        BY <1>1, <4>1 DEF IInv, HasStored
      <4>. QED  BY <4>2, <4>3
    <3>3. CASE ~(d <= pass[x].now)
      <4>1. stored[p][d] = 0
        BY <1>1, <3>1, <3>3 DEF IInv, Alone
      <4>2. ~(d <= changed[p][d])
        BY <1>2, <3>1, <3>3
      <4>3. events[p][d] = 0
        BY <1>5, <3>1, <4>2 DEF IInv, Timely
      <4>. QED  BY <4>1, <4>3
    <3>. QED  BY <3>2, <3>3
  <2>. QED  BY <2>1, <2>2
<1>9. \A p \in Projects, d \in Days : r.cells[p][d] = 0
  BY <1>3 DEF NoCounts
<1>10. /\ stored' \in Counts /\ lock' \in Passes \cup {None} /\ r.now <= clock
       /\ \A p \in Live, d \in Days : stored'[p][d] # 0 => d <= clock
  BY <1>1, <1>2, <1>3 DEF IInv, Typed, Timely
<1>. QED  BY <1>1, <1>3, <1>6, <1>7, <1>8, <1>9, <1>10, StepKeeps

(* Sums touch no count. *)
LEMMA RefreshKeeps == ASSUME IInv, NEW x \in Passes, NEW o \in Orgs, Refresh(x, o) PROVE IInv'
<1>1. /\ pass[x].pc = "refresh"
      /\ UNCHANGED <<clock, events, changed, project, counted, stored, lastFull, seen>>
  BY DEF Refresh, At, world, deletions
<1>2. CASE pass[x].todo = {o}
  <2>1. End(x)
    BY <1>2 DEF Refresh
  <2>. QED  BY <1>1, <2>1, EndKeeps, StillCounted
<1>3. CASE pass[x].todo # {o}
  <2>. DEFINE r == [pass[x] EXCEPT !.todo = @ \ {o}]
  <2>1. Goto(x, r) /\ UNCHANGED lock
    BY <1>3 DEF Refresh
  <2>2. pass[x] \in PassRow
    BY DEF IInv, Typed
  <2>3. /\ r \in PassRow /\ r.pc = "refresh" /\ r.now = pass[x].now /\ r.full = pass[x].full
        /\ r.cells = pass[x].cells
    BY <1>1, <2>2 DEF PassRow
  <2>. HIDE DEF r
  <2>4. pass'[x] = r
    BY <2>1, <2>3, Moves
  <2>5. HasRead(x)' /\ HasStored(x)'
    BY <2>3, <2>4 DEF HasRead, HasStored
  <2>6. \A p \in Projects, d \in Days : r.cells[p][d] # 0 => d \in InWindow(x)
    BY <2>3 DEF IInv, Timely
  <2>. QED  BY <1>1, <2>1, <2>3, <2>5, <2>6, GoesOn
<1>. QED  BY <1>2, <1>3

LEMMA FailKeeps == ASSUME IInv, NEW x \in Passes, Fail(x) PROVE IInv'
<1>1. /\ pass[x].pc # "idle" /\ End(x)
      /\ UNCHANGED <<clock, events, changed, project, counted, stored, lastFull, seen>>
  BY DEF Fail, world, deletions
<1>. QED  BY <1>1, EndKeeps, StillCounted

(* A lost lock ends the good order. *)
LEMMA LoseLockKeeps == IInv /\ LoseLock => IInv'
<1>. SUFFICES ASSUME IInv, LoseLock PROVE IInv'
  OBVIOUS
<1>1. /\ lock' = None /\ "unlocked" \in seen' /\ seen \subseteq seen'
      /\ UNCHANGED <<clock, events, changed, project, counted, stored, lastFull, pass>>
  BY DEF LoseLock, world, deletions
<1>2. ~Orderly' /\ Live' = Live /\ \A x \in Passes : InWindow(x)' = InWindow(x)
  BY <1>1 DEF Orderly, Live, InWindow
<1>3. FullPassCountsAll'
  BY <1>1 DEF FullPassCountsAll
<1>. QED  BY <1>1, <1>2, <1>3 DEF IInv, Typed, Timely

LEMMA StutterKeeps == IInv /\ UNCHANGED vars => IInv'
<1>. SUFFICES ASSUME IInv, UNCHANGED vars PROVE IInv'
  OBVIOUS
<1>1. UNCHANGED <<clock, events, changed, project, counted, stored, lastFull, lock, pass, seen>>
  BY DEF vars
<1>2. Live' = Live /\ \A x \in Passes : InWindow(x)' = InWindow(x)
  BY <1>1 DEF Live, InWindow
<1>. QED  BY <1>1, <1>2 DEF IInv, Typed, Timely, Orderly, Alone, HasRead, HasStored, FullPassCountsAll

LEMMA NextKeeps == IInv /\ [Next]_vars => IInv'
<1>. SUFFICES ASSUME IInv, [Next]_vars PROVE IInv'
  OBVIOUS
<1>1. CASE Beside
  <2>1. CASE \E p \in Projects, d \in Days : Arrive(p, d) \/ Erase(p, d)
    <3>1. PICK p \in Projects, d \in Days : Arrive(p, d) \/ Erase(p, d)
      BY <2>1
    <3>2. events[p][d] + 1 \in Nat
      BY DEF IInv, Typed, Counts
    <3>. QED  BY <3>1, <3>2, ChangeKeeps DEF Arrive, Erase
  <2>. QED  BY <1>1, <2>1, TickKeeps, LoseLockKeeps, DeletionKeeps DEF Beside
<1>2. ASSUME NEW x \in Passes, Step(x) \/ Fail(x) PROVE IInv'
  BY <1>2, BeginKeeps, ReadKeeps, RecordKeeps, CheckKeeps, ReconcileKeeps, MarkKeeps, RefreshKeeps,
     FailKeeps DEF Step
<1>. QED  BY <1>1, <1>2, StutterKeeps DEF Next
-----------------------------------------------------------------------------
(* The invariant of the pass, in every reachable state. *)
THEOREM UsageInStep == Spec => []IInv
<1>. QED  BY InitOK, NextKeeps, PTL DEF Spec

(* Once a full pass is marked done, live projects have stored what ClickHouse has over
   the current periods, but for what changed since the day before: nothing an empty
   read or another deployment's database does takes it back.                        *)
THEOREM UsageCountsAll == Spec => []FullPassCountsAll
<1>1. IInv => FullPassCountsAll
  BY DEF IInv
<1>. QED  BY <1>1, UsageInStep, PTL

(* The days of a deleted project stay as its purge froze them, whatever passes do that
   read them before, with or without the lock.                                        *)
THEOREM UsageKeepsFrozen == Spec => KeptAsFrozen
<1>. DEFINE A == \A p \in Projects : project[p] \in {"deleting", "gone"} => stored'[p] = stored[p]
<1>1. IInv /\ [Next]_vars => [A]_vars
  <2>. SUFFICES ASSUME IInv, Next, NEW p \in Projects, project[p] \in {"deleting", "gone"}
                PROVE  stored'[p] = stored[p]
    OBVIOUS
  <2>1. stored \in Counts /\ p \notin Live
    BY DEF IInv, Typed, Live
  <2>2. stored[p] = [d \in Days |-> stored[p][d]]
    BY <2>1 DEF Counts
  <2>3. CASE \E x \in Passes : Record(x)
    <3>1. PICK x \in Passes, ps \in SUBSET Projects : stored' = Upsert(x, ps)
      BY <2>3 DEF Record
    <3>2. stored'[p] = [d \in Days |-> stored[p][d]]
      BY <2>1, <3>1 DEF Upsert
    <3>. QED  BY <2>2, <3>2
  <2>4. CASE \E x \in Passes : Reconcile(x)
    <3>1. PICK x \in Passes : stored' = DeleteUnmeteredDays(x)
      BY <2>4 DEF Reconcile
    <3>2. stored'[p] = [d \in Days |-> stored[p][d]]
      BY <2>1, <3>1 DEF DeleteUnmeteredDays
    <3>. QED  BY <2>2, <3>2
  <2>5. CASE \E q \in Projects : Freeze(q)
    <3>1. PICK q \in Projects : Freeze(q)
      BY <2>5
    <3>2. PICK days \in counted[q] : stored' = FreezeUsageDaily(q, days)
      BY <3>1 DEF Freeze
    <3>3. q # p
      BY <3>1 DEF Freeze
    <3>. QED  BY <2>1, <3>2, <3>3 DEF FreezeUsageDaily, Counts
  <2>6. CASE /\ \A x \in Passes : ~Record(x) /\ ~Reconcile(x)
             /\ \A q \in Projects : ~Freeze(q)
    <3>1. Beside => UNCHANGED stored
      BY <2>6 DEF Beside, Tick, LoseLock, Arrive, Erase, Change, Delete, CountForPurge, Purge
    <3>2. \A x \in Passes : Step(x) \/ Fail(x) => UNCHANGED stored
      BY <2>6 DEF Step, Begin, ReadCounts, Read, Check, Mark, Refresh, Fail
    <3>. QED  BY <3>1, <3>2 DEF Next
  <2>. QED  BY <2>3, <2>4, <2>5, <2>6
<1>. QED  BY <1>1, UsageInStep, PTL DEF Spec, KeptAsFrozen
-----------------------------------------------------------------------------
(* The rest of the types: what the rows show, and how long a pass takes. *)
PeriodRow == [total : Nat, at : Days \cup {None}, read : Days \cup {None}]

Stamped(row) == row.read \in Days /\ row.at <= clock /\ row.read \in {row.at - 1, row.at}

Shown ==
  /\ changes \in 0 .. MaxChanges /\ faults \in 0 .. MaxFaults
  /\ seen \subseteq {"truncated", "empty", "foreign", "unlocked"}
  /\ \A p \in Projects, d \in Days : changed[p][d] <= clock /\ (d > clock => stored[p][d] = 0)
  /\ \A p \in Projects : \A days \in counted[p] : \A d \in Days : d > clock => days[d] = 0
  /\ periods \in [Orgs -> [Days -> PeriodRow]]
  /\ \A o \in Orgs, s \in Days : periods[o][s].at # None => Stamped(periods[o][s])
  /\ \A x \in Passes : pass[x].pc # "idle" => clock <= pass[x].now + 1

(* Neither did a read of the database come back empty. *)
Sound == seen \cap {"truncated", "empty", "unlocked"} = {}

(* Another deployment's read is not taken for one of its own. *)
Foreign(x) == pass[x].foreign => pass[x].cells = NoCounts /\ pass[x].pc \in {"record", "check"}

ReadAll(x) ==
  pass[x].pc \in {"record", "check", "reconcile", "mark"} /\ ~pass[x].foreign =>
    \A p \in Live : \A d \in InWindow(x) :
      changed[p][d] < pass[x].now => pass[x].cells[p][d] = events[p][d]

(* What a pass refreshes from has all that ClickHouse had the day before. *)
HasCounted(x) ==
  pass[x].pc = "refresh" =>
    \A p \in Live : \A d \in InWindow(x) :
      changed[p][d] < pass[x].now => stored[p][d] >= events[p][d]

Counted ==
  /\ \A x \in Passes : Foreign(x)
  /\ Sound => \A x \in Passes : ReadAll(x) /\ HasCounted(x)
  /\ FreshMeansCounted

(* No lock was lost: passes go one by one, also where a read left projects out. *)
OneByOne(x) ==
  /\ pass[x].pc # "idle" => lock = x /\ (lastFull # None => lastFull <= pass[x].now)
  /\ pass[x].pc \notin {"idle", "refresh"} => pass[x].todo = Orgs

(* On the last day ClickHouse changes no more of a live project, and a pass of that
   day reads all of it and stores it.                                               *)
ReadExactly(x) ==
  pass[x].now = Horizon /\ pass[x].pc \in {"record", "check", "reconcile", "mark"} =>
    /\ ~pass[x].foreign
    /\ \A p \in Live : \A d \in InWindow(x) : pass[x].cells[p][d] = events[p][d]

StoredExactly(x) ==
  pass[x].now = Horizon =>
    /\ pass[x].pc \in {"check", "reconcile", "mark"} =>
         \A p \in Live, d \in Days : pass[x].cells[p][d] # 0 => stored[p][d] = pass[x].cells[p][d]
    /\ pass[x].pc = "mark" =>
         \A p \in Live : \A d \in InWindow(x) : stored[p][d] = pass[x].cells[p][d]

(* Its full pass is done: the days of the current periods are exact, and so are the
   totals, but of the orgs whose turn is yet to come.                               *)
Done == clock = Horizon /\ lastFull = Horizon /\ "unlocked" \notin seen

Kept == [p \in Projects |-> IF p \in Live THEN events[p] ELSE stored[p]]

Exact(o) ==
  LET s == PeriodFor(o, Horizon)
  IN  periods[o][s].at = Horizon /\ periods[o][s].total = Total(Kept, OrgCells(o, PeriodDays(o, s)))

Awaited(o) == \E x \in Passes : pass[x].pc = "refresh" /\ o \in pass[x].todo

DaysExact ==
  \A p \in Live : \A d \in PeriodDays(OrgOf[p], PeriodFor(OrgOf[p], Horizon)) : stored[p][d] = events[p][d]

InTurn(x) == OneByOne(x) /\ ReadExactly(x) /\ StoredExactly(x)

Settled ==
  /\ "unlocked" \notin seen => \A x \in Passes : InTurn(x)
  /\ Done => DaysExact /\ \A o \in Orgs : Exact(o) \/ Awaited(o)
-----------------------------------------------------------------------------
(* Totals.  A set of finite sets has one from which no element can be taken. *)
LEMMA Smallest ==
  ASSUME NEW S, IsFiniteSet(S), NEW Bad \in SUBSET SUBSET S, Bad # {}
  PROVE  \E s \in Bad : \A c \in s : s \ {c} \notin Bad
<1>. DEFINE Sizes == {Cardinality(s) : s \in Bad}
<1>1. \A s \in Bad : IsFiniteSet(s) /\ Cardinality(s) \in Nat
  BY FS_Subset, FS_CardinalityType
<1>2. Sizes \subseteq Nat /\ Sizes # {}
  BY <1>1
<1>3. PICK n \in Sizes : \A m \in Sizes : n <= m
  <2>. HIDE DEF Sizes
  <2>. QED  BY <1>2, Least
<1>4. PICK s \in Bad : n = Cardinality(s)
  BY <1>3
<1>5. ASSUME NEW c \in s, s \ {c} \in Bad PROVE FALSE
  <2>1. Cardinality(s \ {c}) = Cardinality(s) - 1
    BY <1>1, FS_RemoveElement
  <2>2. n <= Cardinality(s \ {c}) /\ n \in Nat
    BY <1>2, <1>3, <1>5
  <2>. QED  BY <1>4, <2>1, <2>2
<1>. QED  BY <1>5

(* The cell a total takes next, and its count. *)
pick(s) == CHOOSE c \in s : TRUE
at(counts, c) == counts[c[1]][c[2]]

(* The recursion a total follows, on the sets of a collection. *)
Follows(g, counts, C) ==
  g = [s \in C |-> IF s = {} THEN 0 ELSE at(counts, pick(s)) + g[s \ {pick(s)}]]

LEMMA TotalIs ==
  ASSUME NEW counts, NEW S
  PROVE  Total(counts, S) = (CHOOSE g : Follows(g, counts, SUBSET S))[S]
BY DEF Total, MapThenSumSet, MapThenFoldSet, Follows, pick, at

(* A function on the subsets of a finite set follows it. *)
LEMMA FollowsExists ==
  ASSUME NEW counts, NEW S, IsFiniteSet(S)
  PROVE  \E g : Follows(g, counts, SUBSET S)
<1>. DEFINE Upto(n) == {s \in SUBSET S : Cardinality(s) <= n}
            Bad == {n \in Nat : ~ \E g : Follows(g, counts, Upto(n))}
<1>1. \A s \in SUBSET S : /\ Cardinality(s) \in Nat /\ (Cardinality(s) = 0 <=> s = {})
                          /\ s # {} => Cardinality(s \ {pick(s)}) = Cardinality(s) - 1
  <2>. SUFFICES ASSUME NEW s \in SUBSET S
                PROVE  /\ Cardinality(s) \in Nat /\ (Cardinality(s) = 0 <=> s = {})
                       /\ s # {} => Cardinality(s \ {pick(s)}) = Cardinality(s) - 1
    OBVIOUS
  <2>1. IsFiniteSet(s) /\ Cardinality(s) \in Nat
    BY FS_Subset, FS_CardinalityType
  <2>2. s # {} => pick(s) \in s
    BY DEF pick
  <2>. QED  BY <2>1, <2>2, FS_EmptySet, FS_RemoveElement
<1>2. \E g : Follows(g, counts, Upto(0))
  <2>. DEFINE g == [s \in Upto(0) |-> 0]
  <2>1. \A s \in Upto(0) : s = {}
    <3>. SUFFICES ASSUME NEW s \in SUBSET S, Cardinality(s) <= 0 PROVE s = {}
      OBVIOUS
    <3>1. Cardinality(s) \in Nat /\ (Cardinality(s) = 0 <=> s = {})
      BY <1>1
    <3>. QED  BY <3>1
  <2>2. Follows(g, counts, Upto(0))
    BY <2>1 DEF Follows
  <2>. QED  BY <2>2
<1>3. ASSUME NEW n \in Nat, NEW g, Follows(g, counts, Upto(n))
      PROVE  \E h : Follows(h, counts, Upto(n + 1))
  <2>. DEFINE h == [s \in Upto(n + 1) |-> IF s = {} THEN 0 ELSE at(counts, pick(s)) + g[s \ {pick(s)}]]
  <2>1. Upto(n) \subseteq Upto(n + 1)
    <3>. SUFFICES ASSUME NEW s \in SUBSET S, Cardinality(s) <= n PROVE Cardinality(s) <= n + 1
      OBVIOUS
    <3>1. Cardinality(s) \in Nat
      BY <1>1
    <3>. QED  BY <3>1
  <2>2. \A s \in Upto(n) : g[s] = IF s = {} THEN 0 ELSE at(counts, pick(s)) + g[s \ {pick(s)}]
    BY <1>3 DEF Follows
  <2>3. \A s \in Upto(n) : h[s] = g[s]
    BY <2>1, <2>2
  <2>4. \A s \in Upto(n + 1) : s # {} => s \ {pick(s)} \in Upto(n)
    BY <1>1
  <2>5. \A s \in Upto(n + 1) : h[s] = IF s = {} THEN 0 ELSE at(counts, pick(s)) + h[s \ {pick(s)}]
    BY <2>3, <2>4
  <2>6. h = [s \in Upto(n + 1) |-> IF s = {} THEN 0 ELSE at(counts, pick(s)) + h[s \ {pick(s)}]]
    <3>1. h = [s \in Upto(n + 1) |-> h[s]]
      OBVIOUS
    <3>. HIDE DEF h, Upto
    <3>. QED  BY <2>5, <3>1
  <2>. QED  BY <2>6 DEF Follows
<1>4. Bad = {}
  <2>1. SUFFICES ASSUME Bad # {} PROVE FALSE
    OBVIOUS
  <2>2. Bad \subseteq Nat
    OBVIOUS
  <2>. HIDE DEF Bad
  <2>3. PICK n \in Bad : \A m \in Bad : n <= m
    BY <2>1, <2>2, Least
  <2>. USE DEF Bad
  <2>. HIDE DEF Upto
  <2>4. n # 0
    BY <1>2
  <2>5. n - 1 \in Nat /\ n - 1 \notin Bad /\ (n - 1) + 1 = n
    BY <2>2, <2>3, <2>4
  <2>6. \E h : Follows(h, counts, Upto((n - 1) + 1))
    BY <1>3, <2>5
  <2>. QED  BY <2>3, <2>5, <2>6
<1>5. Cardinality(S) \in Nat /\ Upto(Cardinality(S)) = SUBSET S
  <2>1. \A s \in SUBSET S : Cardinality(s) <= Cardinality(S)
    BY FS_Subset
  <2>. QED  BY <2>1, FS_CardinalityType
<1>. HIDE DEF Upto
<1>6. \E g : Follows(g, counts, Upto(Cardinality(S)))
  BY <1>4, <1>5
<1>. QED  BY <1>5, <1>6

(* The totals of the sets of cells, whichever cell is taken first. *)
Totals(g, counts, S) ==
  /\ Total(counts, S) = g[S] /\ g[{}] = 0
  /\ \A s \in SUBSET S : g[s] \in Nat
  /\ \A s \in SUBSET S : \A c \in s : g[s] = at(counts, c) + g[s \ {c}]

(* Of natural numbers there are such totals. *)
LEMMA TotalFollows ==
  ASSUME NEW counts, NEW S, IsFiniteSet(S), \A c \in S : at(counts, c) \in Nat
  PROVE  \E g : Totals(g, counts, S)
<1>. DEFINE g == CHOOSE h : Follows(h, counts, SUBSET S)
<1>1. Follows(g, counts, SUBSET S) /\ Total(counts, S) = g[S]
  BY FollowsExists, TotalIs
<1>. HIDE DEF g
<1>2. /\ \A s \in SUBSET S : s # {} => pick(s) \in s /\ g[s] = at(counts, pick(s)) + g[s \ {pick(s)}]
      /\ g[{}] = 0
  <2>1. \A s \in SUBSET S : g[s] = IF s = {} THEN 0 ELSE at(counts, pick(s)) + g[s \ {pick(s)}]
    BY <1>1 DEF Follows
  <2>2. \A s \in SUBSET S : s # {} => pick(s) \in s
    BY DEF pick
  <2>. QED  BY <2>1, <2>2
<1>3. \A s \in SUBSET S : g[s] \in Nat
  <2>. DEFINE Bad == {s \in SUBSET S : g[s] \notin Nat}
  <2>1. SUFFICES ASSUME Bad # {} PROVE FALSE
    OBVIOUS
  <2>2. PICK s \in Bad : \A c \in s : s \ {c} \notin Bad
    <3>1. Bad \in SUBSET SUBSET S
      OBVIOUS
    <3>. HIDE DEF Bad
    <3>. QED  BY <2>1, <3>1, Smallest
  <2>3. s # {}
    BY <1>2
  <2>4. at(counts, pick(s)) \in Nat /\ g[s \ {pick(s)}] \in Nat
    BY <1>2, <2>2, <2>3
  <2>. QED  BY <1>2, <2>3, <2>4
<1>4. \A s \in SUBSET S : \A c \in s : g[s] = at(counts, c) + g[s \ {c}]
  <2>. DEFINE Bad == {s \in SUBSET S : ~ \A c \in s : g[s] = at(counts, c) + g[s \ {c}]}
  <2>1. SUFFICES ASSUME Bad # {} PROVE FALSE
    OBVIOUS
  <2>2. PICK s \in Bad : \A c \in s : s \ {c} \notin Bad
    <3>1. Bad \in SUBSET SUBSET S
      OBVIOUS
    <3>. HIDE DEF Bad
    <3>. QED  BY <2>1, <3>1, Smallest
  <2>3. PICK c \in s : g[s] # at(counts, c) + g[s \ {c}]
    BY <2>2
  <2>. DEFINE p == pick(s)
  <2>4. p \in s /\ g[s] = at(counts, p) + g[s \ {p}] /\ p # c /\ s \in SUBSET S
    BY <1>2, <2>2, <2>3
  <2>. HIDE DEF p
  <2>5. g[s \ {p}] = at(counts, c) + g[(s \ {p}) \ {c}]
    BY <2>2, <2>4
  <2>6. g[s \ {c}] = at(counts, p) + g[(s \ {c}) \ {p}]
    BY <2>2, <2>4
  <2>7. (s \ {c}) \ {p} = (s \ {p}) \ {c}
    OBVIOUS
  <2>8. at(counts, p) \in Nat /\ at(counts, c) \in Nat /\ g[(s \ {p}) \ {c}] \in Nat
    BY <1>3, <2>4
  <2>. HIDE DEF Bad
  <2>. QED  BY <2>3, <2>4, <2>5, <2>6, <2>7, <2>8
<1>. QED  BY <1>1, <1>2, <1>3, <1>4 DEF Totals

(* More cells, and more in each, make no smaller total. *)
LEMMA TotalGrows ==
  ASSUME NEW a, NEW b, NEW S, IsFiniteSet(S), NEW T \in SUBSET S,
         \A c \in S : at(b, c) \in Nat, \A c \in T : at(a, c) \in Nat /\ at(a, c) <= at(b, c)
  PROVE  Total(a, T) \in Nat /\ Total(b, S) \in Nat /\ Total(a, T) <= Total(b, S)
<1>1. IsFiniteSet(T)
  BY FS_Subset
<1>2. PICK g : Totals(g, b, S)
  BY TotalFollows
<1>3. PICK h : Totals(h, a, T)
  BY <1>1, TotalFollows
<1>. DEFINE Bad == {s \in SUBSET S : ~(h[s \cap T] <= g[s])}
<1>4. Bad = {}
  <2>1. SUFFICES ASSUME Bad # {} PROVE FALSE
    OBVIOUS
  <2>2. PICK s \in Bad : \A c \in s : s \ {c} \notin Bad
    <3>1. Bad \in SUBSET SUBSET S
      OBVIOUS
    <3>. HIDE DEF Bad
    <3>. QED  BY <2>1, <3>1, Smallest
  <2>3. s # {}
    <3>1. {} \cap T = {} /\ h[{}] <= g[{}]
      BY <1>2, <1>3 DEF Totals
    <3>2. ~(h[s \cap T] <= g[s])
      BY <2>2
    <3>. QED  BY <3>1, <3>2
  <2>4. PICK c \in s : TRUE
    BY <2>3
  <2>5. /\ s \ {c} \in SUBSET S /\ c \in S /\ h[(s \ {c}) \cap T] <= g[s \ {c}]
        /\ g[s] = at(b, c) + g[s \ {c}] /\ at(b, c) \in Nat /\ g[s \ {c}] \in Nat
        /\ h[(s \ {c}) \cap T] \in Nat /\ h[s \cap T] \in Nat
    BY <1>2, <1>3, <2>2, <2>4 DEF Totals
  <2>6. ~(h[s \cap T] <= g[s])
    BY <2>2
  <2>. HIDE DEF Bad
  <2>7. CASE c \in T
    <3>1. (s \cap T) \ {c} = (s \ {c}) \cap T /\ c \in s \cap T /\ s \cap T \in SUBSET T
      BY <2>4, <2>7
    <3>2. h[s \cap T] = at(a, c) + h[(s \ {c}) \cap T]
      BY <1>3, <3>1 DEF Totals
    <3>3. at(a, c) \in Nat /\ at(a, c) <= at(b, c)
      BY <2>7
    <3>. QED  BY <2>5, <2>6, <3>2, <3>3
  <2>8. CASE c \notin T
    <3>1. s \cap T = (s \ {c}) \cap T
      BY <2>8
    <3>. QED  BY <2>5, <2>6, <3>1
  <2>. QED  BY <2>7, <2>8
<1>5. h[S \cap T] <= g[S] /\ S \cap T = T
  BY <1>4
<1>. QED  BY <1>2, <1>3, <1>5 DEF Totals

(* Equal counts make equal totals. *)
LEMMA TotalSame ==
  ASSUME NEW a, NEW b, NEW S, IsFiniteSet(S), \A c \in S : at(b, c) \in Nat /\ at(a, c) = at(b, c)
  PROVE  Total(a, S) = Total(b, S) /\ Total(a, S) \in Nat
<1>1. \A c \in S : at(a, c) \in Nat /\ at(b, c) \in Nat /\ at(a, c) <= at(b, c) /\ at(b, c) <= at(a, c)
  OBVIOUS
<1>2. Total(a, S) \in Nat /\ Total(b, S) \in Nat /\ Total(a, S) <= Total(b, S)
  BY <1>1, TotalGrows
<1>3. Total(b, S) <= Total(a, S)
  BY <1>1, TotalGrows
<1>. QED  BY <1>2, <1>3

(* An org's cells are finitely many. *)
LEMMA CellsFinite ==
  ASSUME NEW o \in Orgs, NEW s
  PROVE  IsFiniteSet(OrgCells(o, PeriodDays(o, s)))
<1>1. IsFiniteSet(Days) /\ IsFiniteSet(Projects)
  BY Constants, FS_Interval, UsageAssumption DEF Days
<1>2. PeriodDays(o, s) \subseteq Days
  BY DEF PeriodDays
<1>3. IsFiniteSet(PeriodDays(o, s)) /\ IsFiniteSet({p \in Projects : OrgOf[p] = o})
  BY <1>1, <1>2, FS_Subset
<1>. QED  BY <1>3, FS_Product DEF OrgCells
-----------------------------------------------------------------------------
(* The types of the rows.  A pass looks a day back at most over its time. *)
LEMMA InitShown == Init => Shown
<1>. SUFFICES ASSUME Init PROVE Shown
  OBVIOUS
<1>1. MaxChanges \in Nat /\ MaxFaults \in Nat
  BY UsageAssumption
<1>2. NoPeriod \in PeriodRow /\ NoPeriod.at = None
  BY DEF NoPeriod, PeriodRow
<1>3. 0 <= 0
  OBVIOUS
<1>. QED  BY <1>1, <1>2, <1>3, DaysAre DEF Init, Shown, NoCounts, Idle

(* What stays as it was is as it was. *)
LEMMA SameShown ==
  ASSUME Shown, UNCHANGED <<clock, changed>>,
         changes' \in 0 .. MaxChanges, faults' \in 0 .. MaxFaults,
         seen' \subseteq {"truncated", "empty", "foreign", "unlocked"},
         \A p \in Projects, d \in Days : d > clock => stored'[p][d] = 0,
         \A p \in Projects : \A days \in counted'[p] : \A d \in Days : d > clock => days[d] = 0,
         periods' \in [Orgs -> [Days -> PeriodRow]],
         \A o \in Orgs, s \in Days : periods'[o][s].at # None => Stamped(periods'[o][s]),
         \A x \in Passes : pass'[x].pc # "idle" => clock <= pass'[x].now + 1
  PROVE  Shown'
BY DEF Shown, Stamped

(* A fault counts. *)
LEMMA FaultShown == ASSUME Shown, Fault \/ NoFault PROVE faults' \in 0 .. MaxFaults
<1>1. MaxFaults \in Nat /\ faults \in 0 .. MaxFaults
  BY UsageAssumption DEF Shown
<1>. QED  BY <1>1 DEF Fault, NoFault

(* No pass is slower for another's step. *)
LEMMA StillSlow ==
  ASSUME IInv, Shown, NEW x \in Passes, NEW r \in PassRow, Goto(x, r),
         \/ r.pc = "idle"
         \/ r.now = pass[x].now /\ pass[x].pc # "idle"
  PROVE  \A y \in Passes : pass'[y].pc # "idle" => clock <= pass'[y].now + 1
<1>. SUFFICES ASSUME NEW y \in Passes, pass'[y].pc # "idle" PROVE clock <= pass'[y].now + 1
  OBVIOUS
<1>1. CASE y = x
  <2>1. pass'[y] = r
    BY <1>1, Moves
  <2>2. r.now = pass[x].now /\ pass[x].pc # "idle"
    BY <2>1
  <2>. QED  BY <2>1, <2>2 DEF Shown
<1>2. CASE y # x
  <2>1. pass'[y] = pass[y]
    BY <1>2, Moves
  <2>. QED  BY <2>1 DEF Shown
<1>. QED  BY <1>1, <1>2

LEMMA TickShown == IInv /\ Shown /\ Tick => Shown'
<1>. SUFFICES ASSUME IInv, Shown, Tick PROVE Shown'
  OBVIOUS
<1>1. /\ clock \in Nat /\ clock' = clock + 1
      /\ \A x \in Passes : pass[x].pc # "idle" => pass[x].now = clock
      /\ UNCHANGED <<events, changed, changes, project, counted, stored, periods, pass, seen, faults>>
  BY DaysAre DEF Tick, IInv, Typed, world, deletions, health
<1>2. ASSUME NEW n \in Nat, n <= clock PROVE n <= clock'
  BY <1>1, <1>2
<1>3. ASSUME NEW d \in Days, d > clock' PROVE d > clock
  BY <1>1, <1>3, DaysAre
<1>4. \A p \in Projects, d \in Days : changed[p][d] <= clock'
  BY <1>2 DEF Shown, IInv, Typed, Counts
<1>5. \A o \in Orgs, s \in Days : periods[o][s].at # None => Stamped(periods[o][s])'
  <2>. SUFFICES ASSUME NEW o \in Orgs, NEW s \in Days, periods[o][s].at # None
                PROVE  Stamped(periods[o][s])'
    OBVIOUS
  <2>1. periods[o][s].at \in Nat /\ Stamped(periods[o][s])
    <3>1. periods[o][s] \in PeriodRow /\ Stamped(periods[o][s])
      BY DEF Shown
    <3>. QED  BY <3>1, DaysAre DEF PeriodRow
  <2>. QED  BY <1>1, <1>2, <2>1 DEF Stamped
<1>6. \A x \in Passes : pass[x].pc # "idle" => clock' <= pass[x].now + 1
  BY <1>1
<1>. QED  BY <1>1, <1>3, <1>4, <1>5, <1>6 DEF Shown

LEMMA ChangeShown ==
  ASSUME IInv, Shown, NEW q \in Projects, NEW e \in Days, NEW n \in Nat, Change(q, e, n)
  PROVE  Shown'
<1>1. /\ changed' = [changed EXCEPT ![q][e] = clock] /\ clock \in Nat
      /\ changes < MaxChanges /\ changes' = changes + 1
      /\ UNCHANGED <<clock, project, counted, stored, periods, pass, seen, faults>>
  BY DaysAre DEF Change, deletions, health, IInv, Typed
<1>2. changes' \in 0 .. MaxChanges
  <2>1. MaxChanges \in Nat /\ changes \in 0 .. MaxChanges
    BY UsageAssumption DEF Shown
  <2>. QED  BY <1>1, <2>1
<1>3. \A p \in Projects, d \in Days : changed'[p][d] <= clock
  <2>1. \A p \in Projects, d \in Days : changed'[p][d] = clock \/ changed'[p][d] = changed[p][d]
    BY <1>1 DEF IInv, Typed, Counts
  <2>2. clock <= clock
    BY <1>1
  <2>. QED  BY <2>1, <2>2 DEF Shown
<1>. QED  BY <1>1, <1>2, <1>3 DEF Shown, Stamped

LEMMA DeletionShown ==
  ASSUME IInv, Shown, NEW q \in Projects, Delete(q) \/ CountForPurge(q) \/ Freeze(q) \/ Purge(q)
  PROVE  Shown'
<1>1. UNCHANGED <<clock, changed, changes, periods, pass, seen, faults>>
  BY DEF Delete, CountForPurge, Freeze, Purge, world, deletions, health
<1>2. \A p \in Projects, d \in Days : d > clock => stored'[p][d] = 0
  <2>1. CASE Freeze(q)
    <3>1. PICK days \in counted[q] : stored' = FreezeUsageDaily(q, days)
      BY <2>1 DEF Freeze
    <3>2. \A p \in Projects, d \in Days :
            stored'[p][d] = IF p = q /\ days[d] > 0 THEN days[d] ELSE stored[p][d]
      BY <3>1 DEF FreezeUsageDaily, IInv, Typed, Counts
    <3>. QED  BY <3>2 DEF Shown
  <2>2. CASE ~Freeze(q)
    BY <2>2 DEF Delete, Purge, CountForPurge, Shown
  <2>. QED  BY <2>1, <2>2
<1>3. \A p \in Projects : \A days \in counted'[p] : \A d \in Days : d > clock => days[d] = 0
  <2>1. CASE CountForPurge(q)
    <3>1. PICK from : counted' = [counted EXCEPT ![q] = @ \cup {MeterWindow(from, clock, {q})[q]}]
      BY <2>1 DEF CountForPurge
    <3>2. \A d \in Days : d > clock => MeterWindow(from, clock, {q})[q][d] = 0
      <4>1. \A d \in Days : d > clock => ~(d <= clock)
        BY DaysAre DEF IInv, Typed
      <4>. QED  BY <4>1 DEF MeterWindow
    <3>. QED  BY <3>1, <3>2 DEF IInv, Typed, Shown
  <2>2. CASE ~CountForPurge(q)
    BY <2>2 DEF Delete, Freeze, Purge, Shown, deletions
  <2>. QED  BY <2>1, <2>2
<1>. QED  BY <1>1, <1>2, <1>3, SameShown DEF Shown

LEMMA LoseLockShown == IInv /\ Shown /\ LoseLock => Shown'
<1>. SUFFICES ASSUME IInv, Shown, LoseLock PROVE Shown'
  OBVIOUS
<1>1. /\ UNCHANGED <<clock, changed, changes, counted, stored, periods, pass>>
      /\ seen' = seen \cup {"unlocked"} /\ Fault
  BY DEF LoseLock, world, deletions
<1>. QED  BY <1>1, FaultShown, SameShown DEF Shown

(* A pass's steps: it stores nothing of a day ahead, and stamps a row as it ends. *)
LEMMA BeginShown == ASSUME IInv, Shown, NEW x \in Passes, Begin(x) PROVE Shown'
<1>. DEFINE r == [Idle EXCEPT !.pc = "read", !.now = clock,
                              !.full = lastFull = None \/ clock > lastFull, !.todo = Orgs]
<1>1. /\ Goto(x, r) /\ UNCHANGED <<clock, changed, changes, counted, stored, periods, seen, faults>>
  BY DEF Begin, world, deletions, health
<1>2. r \in PassRow /\ r.now = clock /\ clock \in Nat
  BY DaysAre DEF Idle, PassRow, NoCounts, IInv, Typed
<1>. HIDE DEF r
<1>3. \A y \in Passes : pass'[y].pc # "idle" => clock <= pass'[y].now + 1
  <2>1. clock <= clock + 1
    BY <1>2
  <2>2. \A y \in Passes : pass'[y] = r \/ pass'[y] = pass[y]
    BY <1>1, <1>2, Moves
  <2>. QED  BY <1>2, <2>1, <2>2 DEF Shown
<1>. QED  BY <1>1, <1>3, SameShown DEF Shown

(* Whether a pass goes on or ends, it is no slower. *)
LEMMA StepSlow ==
  ASSUME IInv, Shown, NEW x \in Passes, pass[x].pc # "idle",
         \/ End(x)
         \/ \E r \in PassRow : r.now = pass[x].now /\ Goto(x, r)
  PROVE  \A y \in Passes : pass'[y].pc # "idle" => clock <= pass'[y].now + 1
<1>1. Idle \in PassRow /\ Idle.pc = "idle"
  BY DaysAre DEF Idle
<1>. QED  BY <1>1, StillSlow DEF End

LEMMA ReadShown == ASSUME IInv, Shown, NEW x \in Passes, ReadCounts(x) PROVE Shown'
<1>1. PICK cells \in Counts, foreign \in BOOLEAN, fault \in SUBSET {"truncated", "empty", "foreign"} :
        Read(x, cells, foreign, fault)
  <2>. DEFINE read(ps) == MeterWindow(meterFrom(pass[x].full, pass[x].now), pass[x].now, ps)
  <2>1. \A ps : read(ps) \in Counts
    BY DEF MeterWindow, Counts, IInv, Typed
  <2>2. \/ Read(x, read(Projects), FALSE, {})
        \/ Read(x, NoCounts, FALSE, {"empty"})
        \/ Read(x, NoCounts, TRUE, {"foreign"})
        \/ \E p \in Projects : Read(x, read(Projects \ {p}), FALSE, {"truncated"})
    BY DEF ReadCounts
  <2>. HIDE DEF read
  <2>3. NoCounts \in Counts
    BY DaysAre
  <2>4. CASE Read(x, read(Projects), FALSE, {})
    <3>1. read(Projects) \in Counts /\ FALSE \in BOOLEAN /\ {} \in SUBSET {"truncated", "empty", "foreign"}
      BY <2>1
    <3>. USE <3>1
    <3>. WITNESS read(Projects) \in Counts, FALSE \in BOOLEAN, {} \in SUBSET {"truncated", "empty", "foreign"}
    <3>. QED  BY <2>4
  <2>5. CASE Read(x, NoCounts, FALSE, {"empty"})
    BY <2>3, <2>5
  <2>6. CASE Read(x, NoCounts, TRUE, {"foreign"})
    BY <2>3, <2>6
  <2>7. ASSUME NEW p \in Projects, Read(x, read(Projects \ {p}), FALSE, {"truncated"})
        PROVE  \E cells \in Counts, foreign \in BOOLEAN, fault \in SUBSET {"truncated", "empty", "foreign"} :
                 Read(x, cells, foreign, fault)
    BY <2>1, <2>7
  <2>. QED  BY <2>2, <2>4, <2>5, <2>6, <2>7
<1>. DEFINE r == [pass[x] EXCEPT !.pc = "record", !.cells = cells, !.foreign = foreign]
<1>2. /\ pass[x].pc = "read" /\ Goto(x, r) /\ seen' = seen \cup fault /\ (Fault \/ NoFault)
      /\ UNCHANGED <<clock, changed, changes, counted, stored, periods>>
  BY <1>1 DEF Read, At, world, deletions
<1>3. r \in PassRow /\ r.now = pass[x].now
  <2>1. pass[x] \in PassRow /\ cells \in Counts /\ foreign \in BOOLEAN
    BY <1>1 DEF IInv, Typed
  <2>. QED  BY <2>1 DEF PassRow
<1>. HIDE DEF r
<1>4. \A y \in Passes : pass'[y].pc # "idle" => clock <= pass'[y].now + 1
  BY <1>2, <1>3, StepSlow
<1>5. seen' \subseteq {"truncated", "empty", "foreign", "unlocked"}
  BY <1>1, <1>2 DEF Shown
<1>. QED  BY <1>2, <1>4, <1>5, FaultShown, SameShown DEF Shown

LEMMA RecordShown == ASSUME IInv, Shown, NEW x \in Passes, Record(x) PROVE Shown'
<1>1. PICK ps \in SUBSET Projects :
        /\ pass[x].pc = "record" /\ stored' = Upsert(x, ps)
        /\ IF ps = Projects THEN To(x, "check") /\ NoFault ELSE Fault /\ End(x)
        /\ UNCHANGED <<clock, changed, changes, counted, periods, seen>>
  BY DEF Record, At, world, deletions
<1>2. [pass[x] EXCEPT !.pc = "check"] \in PassRow /\ [pass[x] EXCEPT !.pc = "check"].now = pass[x].now
  BY DEF IInv, Typed, PassRow
<1>3. \A y \in Passes : pass'[y].pc # "idle" => clock <= pass'[y].now + 1
  BY <1>1, <1>2, StepSlow DEF To
<1>4. \A p \in Projects, d \in Days : d > clock => stored'[p][d] = 0
  <2>. SUFFICES ASSUME NEW p \in Projects, NEW d \in Days, d > clock PROVE stored'[p][d] = 0
    OBVIOUS
  <2>1. pass[x].now \in Nat /\ clock \in Nat /\ d \in Nat /\ pass[x].now <= clock
    BY DaysAre DEF IInv, Typed, Timely, PassRow
  <2>2. d \notin InWindow(x)
    BY <2>1 DEF InWindow
  <2>3. pass[x].cells[p][d] = 0
    BY <2>2 DEF IInv, Timely
  <2>4. stored'[p][d] = stored[p][d]
    BY <1>1, <2>3 DEF Upsert
  <2>. QED  BY <2>4 DEF Shown
<1>5. faults' \in 0 .. MaxFaults
  BY <1>1, FaultShown
<1>. QED  BY <1>1, <1>3, <1>4, <1>5, SameShown DEF Shown

LEMMA CheckShown == ASSUME IInv, Shown, NEW x \in Passes, Check(x) PROVE Shown'
<1>1. /\ pass[x].pc = "check" /\ (End(x) \/ To(x, "refresh") \/ To(x, "reconcile"))
      /\ UNCHANGED <<clock, changed, changes, counted, stored, periods, seen, faults>>
  BY DEF Check, At, world, deletions, health
<1>2. \A pc \in {"refresh", "reconcile"} :
        [pass[x] EXCEPT !.pc = pc] \in PassRow /\ [pass[x] EXCEPT !.pc = pc].now = pass[x].now
  BY DEF IInv, Typed, PassRow
<1>3. \A y \in Passes : pass'[y].pc # "idle" => clock <= pass'[y].now + 1
  BY <1>1, <1>2, StepSlow DEF To
<1>. QED  BY <1>1, <1>3, SameShown DEF Shown

LEMMA ReconcileShown == ASSUME IInv, Shown, NEW x \in Passes, Reconcile(x) PROVE Shown'
<1>1. /\ pass[x].pc = "reconcile" /\ To(x, "mark") /\ stored' = DeleteUnmeteredDays(x)
      /\ UNCHANGED <<clock, changed, changes, counted, periods, seen, faults>>
  BY DEF Reconcile, At, world, deletions, health
<1>2. [pass[x] EXCEPT !.pc = "mark"] \in PassRow /\ [pass[x] EXCEPT !.pc = "mark"].now = pass[x].now
  BY DEF IInv, Typed, PassRow
<1>3. \A y \in Passes : pass'[y].pc # "idle" => clock <= pass'[y].now + 1
  BY <1>1, <1>2, StepSlow DEF To
<1>4. \A p \in Projects, d \in Days : stored'[p][d] = 0 \/ stored'[p][d] = stored[p][d]
  BY <1>1 DEF DeleteUnmeteredDays
<1>. QED  BY <1>1, <1>3, <1>4, SameShown DEF Shown

LEMMA MarkShown == ASSUME IInv, Shown, NEW x \in Passes, Mark(x) PROVE Shown'
<1>. DEFINE r == [pass[x] EXCEPT !.pc = "refresh", !.cells = NoCounts]
<1>1. /\ pass[x].pc = "mark" /\ Goto(x, r)
      /\ UNCHANGED <<clock, changed, changes, counted, stored, periods, seen, faults>>
  BY DEF Mark, At, world, deletions, health
<1>2. r \in PassRow /\ r.now = pass[x].now
  BY DaysAre DEF IInv, Typed, PassRow
<1>. HIDE DEF r
<1>3. \A y \in Passes : pass'[y].pc # "idle" => clock <= pass'[y].now + 1
  BY <1>1, <1>2, StepSlow
<1>. QED  BY <1>1, <1>3, SameShown DEF Shown

(* The row a refresh writes. *)
LEMMA RefreshedRow ==
  ASSUME IInv, Shown, NEW x \in Passes, NEW o \in Orgs, Refresh(x, o)
  PROVE  /\ PeriodFor(o, pass[x].now) \in Days /\ pass[x].pc = "refresh"
         /\ Sum(o, PeriodDays(o, PeriodFor(o, pass[x].now))) \in Nat
         /\ \/ periods' = RefreshPeriodUsage(x, o) /\ NoFault
            \/ periods' = periods /\ Fault
         /\ UNCHANGED <<clock, events, changed, changes, project, counted, stored, lastFull, seen>>
<1>1. pass[x].now \in Days /\ pass[x].now \in Nat /\ pass[x].now <= Horizon
  BY Constants DEF IInv, Typed, PassRow, Days
<1>2. PeriodFor(o, pass[x].now) \in Days
  BY <1>1, Constants DEF PeriodFor, Days
<1>. DEFINE S == OrgCells(o, PeriodDays(o, PeriodFor(o, pass[x].now)))
<1>3. \A c \in S : at(stored, c) \in Nat
  <2>. SUFFICES ASSUME NEW c \in S PROVE at(stored, c) \in Nat
    OBVIOUS
  <2>1. c[1] \in Projects /\ c[2] \in Days
    BY DEF OrgCells, PeriodDays
  <2>. QED  BY <2>1 DEF at, IInv, Typed, Counts
<1>4. IsFiniteSet(S)
  BY CellsFinite
<1>. HIDE DEF S
<1>5. Total(stored, S) \in Nat
  BY <1>3, <1>4, TotalSame
<1>. QED  BY <1>2, <1>5 DEF Sum, S, Refresh, At, world, deletions

LEMMA RefreshShown == ASSUME IInv, Shown, NEW x \in Passes, NEW o \in Orgs, Refresh(x, o) PROVE Shown'
<1>. DEFINE s == PeriodFor(o, pass[x].now)
            total == Sum(o, PeriodDays(o, s))
            row == [total |-> total, at |-> clock, read |-> pass[x].now]
<1>1. /\ s \in Days /\ total \in Nat /\ pass[x].pc = "refresh"
      /\ \/ periods' = [periods EXCEPT ![o][s] = row] /\ NoFault
         \/ periods' = periods /\ Fault
      /\ UNCHANGED <<clock, events, changed, changes, project, counted, stored, lastFull, seen>>
  BY RefreshedRow DEF RefreshPeriodUsage
<1>. HIDE DEF s, total
<1>2. /\ clock \in Nat /\ clock \in Days /\ pass[x].now \in Days /\ pass[x].now \in Nat
      /\ pass[x].now <= clock /\ clock <= pass[x].now + 1
  BY <1>1, DaysAre DEF IInv, Typed, PassRow, Timely, Shown
<1>3. row \in PeriodRow /\ Stamped(row)
  BY <1>1, <1>2 DEF PeriodRow, Stamped
<1>4. /\ periods' \in [Orgs -> [Days -> PeriodRow]]
      /\ \A org \in Orgs, t \in Days : periods'[org][t] = row \/ periods'[org][t] = periods[org][t]
  <2>. HIDE DEF row
  <2>1. periods \in [Orgs -> [Days -> PeriodRow]] /\ row \in PeriodRow
    BY <1>3 DEF Shown
  <2>2. CASE periods' = periods
    BY <2>1, <2>2
  <2>3. CASE periods' = [periods EXCEPT ![o][s] = row]
    BY <1>1, <2>1, <2>3
  <2>. QED  BY <1>1, <2>2, <2>3
<1>5. \A org \in Orgs, t \in Days : periods'[org][t].at # None => Stamped(periods'[org][t])
  <2>. HIDE DEF row
  <2>. QED  BY <1>3, <1>4 DEF Shown
<1>6. [pass[x] EXCEPT !.todo = @ \ {o}] \in PassRow /\ [pass[x] EXCEPT !.todo = @ \ {o}].now = pass[x].now
  BY DEF IInv, Typed, PassRow
<1>7. \A y \in Passes : pass'[y].pc # "idle" => clock <= pass'[y].now + 1
  <2>1. End(x) \/ Goto(x, [pass[x] EXCEPT !.todo = @ \ {o}])
    BY DEF Refresh
  <2>. QED  BY <1>1, <1>6, <2>1, StepSlow
<1>8. faults' \in 0 .. MaxFaults
  BY <1>1, FaultShown
<1>. QED  BY <1>1, <1>4, <1>5, <1>7, <1>8, SameShown DEF Shown

LEMMA FailShown == ASSUME IInv, Shown, NEW x \in Passes, Fail(x) PROVE Shown'
<1>1. /\ pass[x].pc # "idle" /\ End(x) /\ Fault
      /\ UNCHANGED <<clock, changed, changes, counted, stored, periods, seen>>
  BY DEF Fail, world, deletions
<1>. QED  BY <1>1, StepSlow, FaultShown, SameShown DEF Shown

LEMMA NextShown == IInv /\ Shown /\ [Next]_vars => Shown'
<1>. SUFFICES ASSUME IInv, Shown, [Next]_vars PROVE Shown'
  OBVIOUS
<1>1. CASE Beside
  <2>1. CASE \E p \in Projects, d \in Days : Arrive(p, d) \/ Erase(p, d)
    <3>1. PICK p \in Projects, d \in Days : Arrive(p, d) \/ Erase(p, d)
      BY <2>1
    <3>2. events[p][d] + 1 \in Nat
      BY DEF IInv, Typed, Counts
    <3>. QED  BY <3>1, <3>2, ChangeShown DEF Arrive, Erase
  <2>. QED  BY <1>1, <2>1, TickShown, LoseLockShown, DeletionShown DEF Beside
<1>2. ASSUME NEW x \in Passes, Step(x) \/ Fail(x) PROVE Shown'
  BY <1>2, BeginShown, ReadShown, RecordShown, CheckShown, ReconcileShown, MarkShown, RefreshShown,
     FailShown DEF Step
<1>3. CASE UNCHANGED vars
  BY <1>3 DEF vars, Shown, Stamped
<1>. QED  BY <1>1, <1>2, <1>3 DEF Next

(* Well typed, in every reachable state: no day ahead is stored or frozen, and a row was
   read on the day it is stamped with or the one before.                               *)
THEOREM UsageTypes == Spec => []TypeOK
<1>1. Spec => []Shown
  BY InitShown, NextShown, UsageInStep, PTL DEF Spec
<1>2. IInv /\ Shown => TypeOK
  <2>. SUFFICES ASSUME IInv, Shown PROVE TypeOK
    OBVIOUS
  <2>1. \A o \in Orgs, s \in Days :
          /\ periods[o][s].total \in Nat /\ periods[o][s].at \in Days \cup {None}
          /\ periods[o][s].at # None => periods[o][s].read \in {periods[o][s].at - 1, periods[o][s].at}
    BY DEF Shown, PeriodRow, Stamped
  <2>2. \A p \in Projects, d \in Days : changed[p][d] <= clock /\ (d > clock => stored[p][d] = 0)
    BY DEF Shown
  <2>. QED  BY <2>1, <2>2 DEF IInv, Typed, Shown, TypeOK
<1>. QED  BY <1>1, <1>2, UsageInStep, PTL
-----------------------------------------------------------------------------
(* What a stamp vouches for: the counts of an org's live projects on days a pass looks
   at that had not changed since the day before it read.                             *)
Sure(o, s, read) ==
  {c \in Live \X PeriodDays(o, s) :
     /\ OrgOf[c[1]] = o /\ read - Rescan <= c[2]
     /\ changed[c[1]][c[2]] < read}

Fresh(o, s) ==
  periods[o][s].at # None => periods[o][s].total >= Total(events, Sure(o, s, periods[o][s].read))

LEMMA FreshIs == FreshMeansCounted <=> (Sound => \A o \in Orgs, s \in Days : Fresh(o, s))
BY DEF FreshMeansCounted, Sound, Fresh, Sure

LEMMA SureCells ==
  ASSUME NEW o \in Orgs, NEW s, NEW read
  PROVE  /\ IsFiniteSet(Sure(o, s, read)) /\ Sure(o, s, read) \subseteq OrgCells(o, PeriodDays(o, s))
         /\ \A c \in Sure(o, s, read) : c[1] \in Live /\ c[1] \in Projects /\ c[2] \in Days
<1>1. \A c \in Sure(o, s, read) :
        /\ c[1] \in Live /\ c[1] \in Projects /\ c[2] \in Days
        /\ c \in OrgCells(o, PeriodDays(o, s))
  BY DEF Sure, Live, PeriodDays, OrgCells
<1>. QED  BY <1>1, CellsFinite, FS_Subset

(* A stamp vouches for no more as events come and go. *)
LEMMA FreshKeeps ==
  ASSUME IInv, Shown, Counted, Sound, NEW o \in Orgs, NEW s \in Days,
         periods'[o][s] = periods[o][s], Live' \subseteq Live,
         \A p \in Live', d \in Days :
           \/ events'[p][d] = events[p][d] /\ changed'[p][d] = changed[p][d]
           \/ changed'[p][d] = clock
  PROVE  Fresh(o, s)'
<1>. DEFINE row == periods[o][s]
            S == Sure(o, s, row.read)
            T == Sure(o, s, row.read)'
<1>1. SUFFICES ASSUME row.at # None PROVE row.total >= Total(events', T)
  BY DEF Fresh
<1>2. row \in PeriodRow /\ row.total \in Nat /\ row.read \in Nat /\ row.read <= clock /\ clock \in Nat
  <2>1. row \in PeriodRow /\ Stamped(row) /\ clock \in Nat
    BY <1>1, DaysAre DEF Shown, IInv, Typed
  <2>2. row.at \in Nat /\ row.read \in Nat
    BY <1>1, <2>1, DaysAre DEF PeriodRow, Stamped
  <2>. QED  BY <2>1, <2>2 DEF PeriodRow, Stamped
<1>3. row.total >= Total(events, S)
  BY <1>1, FreshIs DEF Counted, Fresh
<1>4. \A c \in T : c \in S /\ at(events', c) = at(events, c)
  <2>. SUFFICES ASSUME NEW c \in T PROVE c \in S /\ at(events', c) = at(events, c)
    OBVIOUS
  <2>1. /\ c \in Live' \X PeriodDays(o, s) /\ OrgOf[c[1]] = o /\ row.read - Rescan <= c[2]
        /\ changed'[c[1]][c[2]] < row.read
    BY DEF Sure, PeriodDays
  <2>2. c[1] \in Live' /\ c[1] \in Live /\ c[2] \in Days /\ c \in Live \X PeriodDays(o, s)
    BY <2>1 DEF PeriodDays
  <2>3. changed'[c[1]][c[2]] # clock
    BY <1>2, <2>1
  <2>4. changed'[c[1]][c[2]] = changed[c[1]][c[2]] /\ events'[c[1]][c[2]] = events[c[1]][c[2]]
    BY <2>2, <2>3
  <2>. QED  BY <2>1, <2>2, <2>4 DEF Sure, at
<1>5. \A c \in S : at(events, c) \in Nat
  BY SureCells DEF at, IInv, Typed, Counts
<1>6. IsFiniteSet(S)
  BY SureCells
<1>. HIDE DEF S, T, row
<1>7. \A c \in T : at(events', c) \in Nat /\ at(events', c) <= at(events, c)
  <2>. SUFFICES ASSUME NEW c \in T PROVE at(events', c) \in Nat /\ at(events', c) <= at(events, c)
    OBVIOUS
  <2>1. at(events', c) = at(events, c) /\ at(events, c) \in Nat
    BY <1>4, <1>5
  <2>. QED  BY <2>1
<1>8. T \in SUBSET S
  BY <1>4
<1>9. Total(events', T) \in Nat /\ Total(events, S) \in Nat /\ Total(events', T) <= Total(events, S)
  BY <1>5, <1>6, <1>7, <1>8, TotalGrows
<1>. QED  BY <1>2, <1>3, <1>9

(* Beside the passes: what passes know of live projects stays true. *)
LEMMA BesideCounted ==
  ASSUME IInv, Shown, Counted, UNCHANGED <<pass, periods>>, seen \subseteq seen', Live' \subseteq Live,
         \A p \in Live', d \in Days :
           /\ stored'[p][d] = stored[p][d]
           /\ \/ events'[p][d] = events[p][d] /\ changed'[p][d] = changed[p][d]
              \/ changed'[p][d] = clock
  PROVE  Counted'
<1>1. Sound' => Sound
  BY DEF Sound
<1>2. \A x \in Passes : /\ InWindow(x)' = InWindow(x) /\ InWindow(x) \subseteq Days
                        /\ pass[x].now \in Nat /\ pass[x].now <= clock /\ clock \in Nat
  BY DaysAre DEF InWindow, IInv, Typed, PassRow, Timely
<1>3. \A x \in Passes : Foreign(x)'
  BY DEF Counted, Foreign
<1>4. ASSUME Sound, NEW x \in Passes PROVE ReadAll(x)' /\ HasCounted(x)'
  <2>1. ReadAll(x) /\ HasCounted(x)
    BY <1>4 DEF Counted
  <2>2. \A p \in Live' : \A d \in InWindow(x) :
          changed'[p][d] < pass[x].now =>
            changed[p][d] < pass[x].now /\ events'[p][d] = events[p][d] /\ stored'[p][d] = stored[p][d]
    <3>. SUFFICES ASSUME NEW p \in Live', NEW d \in InWindow(x), changed'[p][d] < pass[x].now
                  PROVE  changed[p][d] < pass[x].now /\ events'[p][d] = events[p][d] /\ stored'[p][d] = stored[p][d]
      OBVIOUS
    <3>1. d \in Days /\ changed'[p][d] # clock
      BY <1>2
    <3>. QED  BY <3>1
  <2>3. ReadAll(x)'
    BY <1>2, <2>1, <2>2 DEF ReadAll
  <2>4. HasCounted(x)'
    BY <1>2, <2>1, <2>2 DEF HasCounted
  <2>. QED  BY <2>3, <2>4
<1>5. FreshMeansCounted'
  <2>1. Sound => \A o \in Orgs, s \in Days : Fresh(o, s)'
    BY FreshKeeps
  <2>2. FreshMeansCounted' <=> (Sound' => \A o \in Orgs, s \in Days : Fresh(o, s)')
    BY DEF FreshMeansCounted, Sound, Fresh, Sure
  <2>. QED  BY <1>1, <2>1, <2>2
<1>. QED  BY <1>1, <1>3, <1>4, <1>5 DEF Counted

(* A pass's step: the others are idle, and know nothing. *)
LEMMA PassCounted ==
  ASSUME IInv, Shown, Counted, NEW x \in Passes, NEW r \in PassRow, Goto(x, r),
         pass[x].pc # "idle" \/ lock = None,
         seen \subseteq seen', UNCHANGED <<clock, events, changed, project>>,
         Foreign(x)', Sound' => ReadAll(x)' /\ HasCounted(x)',
         Sound => \A o \in Orgs, s \in Days : Fresh(o, s)'
  PROVE  Counted'
<1>1. Sound' => Sound /\ Orderly
  BY DEF Sound, Orderly
<1>2. ASSUME NEW y \in Passes \ {x} PROVE Foreign(y)' /\ (Sound' => ReadAll(y)' /\ HasCounted(y)')
  <2>1. pass'[y] = pass[y]
    BY Moves
  <2>2. Orderly => pass[y].pc = "idle"
    BY Constants DEF IInv, Alone
  <2>. QED  BY <1>1, <2>1, <2>2 DEF Counted, Foreign, ReadAll, HasCounted
<1>3. FreshMeansCounted' <=> (Sound' => \A o \in Orgs, s \in Days : Fresh(o, s)')
  BY DEF FreshMeansCounted, Sound, Fresh, Sure
<1>. QED  BY <1>1, <1>2, <1>3 DEF Counted

(* It stamps nothing, unless it refreshes. *)
LEMMA StampsKeep ==
  ASSUME IInv, Shown, Counted, Sound, UNCHANGED <<events, changed, project, periods>>
  PROVE  \A o \in Orgs, s \in Days : Fresh(o, s)'
<1>1. Live' \subseteq Live
  BY DEF Live
<1>. QED  BY <1>1, FreshKeeps

(* A pass that ends knows nothing. *)
LEMMA EndCounted ==
  ASSUME IInv, Shown, Counted, NEW x \in Passes, pass[x].pc # "idle", End(x), seen \subseteq seen',
         UNCHANGED <<clock, events, changed, project>>,
         Sound => \A o \in Orgs, s \in Days : Fresh(o, s)'
  PROVE  Counted'
<1>1. Idle \in PassRow /\ Goto(x, Idle)
  BY DaysAre DEF End
<1>2. pass'[x] = Idle
  BY <1>1, Moves
<1>3. Foreign(x)' /\ ReadAll(x)' /\ HasCounted(x)'
  BY <1>2 DEF Foreign, ReadAll, HasCounted, Idle
<1>. QED  BY <1>1, <1>3, PassCounted
-----------------------------------------------------------------------------
LEMMA InitCounted == Init => Counted
<1>. SUFFICES ASSUME Init PROVE Counted
  OBVIOUS
<1>1. \A x \in Passes : pass[x] = Idle
  BY DEF Init
<1>2. FreshMeansCounted
  <2>1. \A o \in Orgs, s \in Days : periods[o][s].at = None
    BY DEF Init, NoPeriod
  <2>. QED  BY <2>1 DEF FreshMeansCounted
<1>. QED  BY <1>1, <1>2 DEF Counted, Foreign, ReadAll, HasCounted, Idle

LEMMA TickCounted == IInv /\ Shown /\ Counted /\ Tick => Counted'
<1>. SUFFICES ASSUME IInv, Shown, Counted, Tick PROVE Counted'
  OBVIOUS
<1>1. UNCHANGED <<events, changed, project, stored, periods, pass, seen>>
  BY DEF Tick, world, deletions, health
<1>2. Live' = Live
  BY <1>1 DEF Live
<1>. QED  BY <1>1, <1>2, BesideCounted

LEMMA ChangeCounted ==
  ASSUME IInv, Shown, Counted, NEW q \in Projects, NEW e \in Days, NEW n \in Nat, Change(q, e, n)
  PROVE  Counted'
<1>1. /\ events' = [events EXCEPT ![q][e] = n] /\ changed' = [changed EXCEPT ![q][e] = clock]
      /\ UNCHANGED <<project, stored, periods, pass, seen>>
  BY DEF Change, deletions, health
<1>2. \A p \in Projects, d \in Days :
        \/ events'[p][d] = events[p][d] /\ changed'[p][d] = changed[p][d]
        \/ changed'[p][d] = clock
  BY <1>1 DEF IInv, Typed, Counts
<1>3. Live' \subseteq Live /\ \A p \in Live' : p \in Projects
  BY <1>1 DEF Live
<1>. QED  BY <1>1, <1>2, <1>3, BesideCounted

LEMMA DeletionCounted ==
  ASSUME IInv, Shown, Counted, NEW q \in Projects,
         Delete(q) \/ CountForPurge(q) \/ Freeze(q) \/ Purge(q)
  PROVE  Counted'
<1>1. UNCHANGED <<changed, periods, pass, seen>>
  BY DEF Delete, CountForPurge, Freeze, Purge, world, deletions, health
<1>2. Live' \subseteq Live
  BY DEF Delete, CountForPurge, Freeze, Purge, deletions, Live, IInv, Typed
<1>3. \A p \in Live' : p \in Projects /\ (project[q] # "live" => p # q)
  BY <1>2 DEF Live
<1>4. \A p \in Live' : events'[p] = events[p] /\ stored'[p] = stored[p]
  <2>1. CASE Purge(q)
    <3>1. events' = [events EXCEPT ![q] = NoCounts[q]] /\ UNCHANGED stored /\ project[q] # "live"
      BY <2>1 DEF Purge
    <3>. QED  BY <1>3, <3>1 DEF IInv, Typed, Counts
  <2>2. CASE Freeze(q)
    <3>1. PICK days \in counted[q] : stored' = FreezeUsageDaily(q, days)
      BY <2>2 DEF Freeze
    <3>2. events' = events /\ project[q] # "live"
      BY <2>2 DEF Freeze, world
    <3>. QED  BY <1>3, <3>1, <3>2 DEF FreezeUsageDaily, IInv, Typed, Counts
  <2>3. CASE Delete(q) \/ CountForPurge(q)
    BY <2>3 DEF Delete, CountForPurge, world
  <2>. QED  BY <2>1, <2>2, <2>3
<1>. QED  BY <1>1, <1>2, <1>4, BesideCounted

LEMMA LoseLockCounted == IInv /\ Shown /\ Counted /\ LoseLock => Counted'
<1>. SUFFICES ASSUME IInv, Shown, Counted, LoseLock PROVE Counted'
  OBVIOUS
<1>1. UNCHANGED <<events, changed, project, stored, periods, pass>> /\ seen \subseteq seen'
  BY DEF LoseLock, world, deletions
<1>2. Live' = Live
  BY <1>1 DEF Live
<1>. QED  BY <1>1, <1>2, BesideCounted
-----------------------------------------------------------------------------
(* The steps of a pass. *)
LEMMA BeginCounted == ASSUME IInv, Shown, Counted, NEW x \in Passes, Begin(x) PROVE Counted'
<1>. DEFINE r == [Idle EXCEPT !.pc = "read", !.now = clock,
                              !.full = lastFull = None \/ clock > lastFull, !.todo = Orgs]
<1>1. /\ lock = None /\ Goto(x, r) /\ UNCHANGED <<clock, events, changed, project, stored, periods, seen>>
  BY DEF Begin, world, deletions, health
<1>2. r \in PassRow /\ r.pc = "read" /\ r.foreign = FALSE
  BY DaysAre DEF Idle, PassRow, NoCounts, IInv, Typed
<1>. HIDE DEF r
<1>3. pass'[x] = r
  BY <1>1, <1>2, Moves
<1>4. Foreign(x)' /\ ReadAll(x)' /\ HasCounted(x)'
  BY <1>2, <1>3 DEF Foreign, ReadAll, HasCounted
<1>. QED  BY <1>1, <1>2, <1>4, StampsKeep, PassCounted

(* A sound read of its own database is of all there is. *)
LEMMA ReadCounted == ASSUME IInv, Shown, Counted, NEW x \in Passes, ReadCounts(x) PROVE Counted'
<1>. DEFINE now == pass[x].now
            read(ps) == MeterWindow(meterFrom(pass[x].full, now), now, ps)
<1>1. \A ps : read(ps) \in Counts /\ \A p \in Projects, d \in Days :
        read(ps)[p][d] = IF p \in ps /\ d \in InWindow(x) THEN events[p][d] ELSE 0
  BY DEF MeterWindow, InWindow, Counts, IInv, Typed
<1>2. PICK cells, foreign, fault :
        /\ Read(x, cells, foreign, fault) /\ foreign \in BOOLEAN
        /\ \/ cells = read(Projects) /\ foreign = FALSE
           \/ cells = NoCounts /\ foreign = FALSE /\ fault = {"empty"}
           \/ cells = NoCounts /\ foreign = TRUE
           \/ foreign = FALSE /\ fault = {"truncated"} /\ \E p \in Projects : cells = read(Projects \ {p})
  BY Zenon DEF ReadCounts
<1>. DEFINE r == [pass[x] EXCEPT !.pc = "record", !.cells = cells, !.foreign = foreign]
<1>3. /\ pass[x].pc = "read" /\ Goto(x, r) /\ seen' = seen \cup fault
      /\ UNCHANGED <<clock, events, changed, project, stored, periods>>
  BY <1>2 DEF Read, At, world, deletions
<1>4. cells \in Counts
  BY <1>1, <1>2, DaysAre
<1>5. /\ r \in PassRow /\ r.pc = "record" /\ r.now = now /\ r.full = pass[x].full
      /\ r.cells = cells /\ r.foreign = foreign
  BY <1>2, <1>4 DEF IInv, Typed, PassRow
<1>. HIDE DEF r
<1>6. pass'[x] = r
  BY <1>3, <1>5, Moves
<1>7. Foreign(x)' /\ HasCounted(x)'
  BY <1>2, <1>5, <1>6 DEF Foreign, HasCounted
<1>8. Sound' => ReadAll(x)'
  <2>. SUFFICES ASSUME Sound', ~foreign PROVE ReadAll(x)'
    BY <1>5, <1>6 DEF ReadAll
  <2>1. "truncated" \notin fault /\ "empty" \notin fault
    BY <1>3 DEF Sound
  <2>2. cells = read(Projects)
    BY <1>2, <2>1
  <2>3. InWindow(x)' = InWindow(x) /\ Live' = Live
    BY <1>3, <1>5, <1>6, SameWindow DEF Live
  <2>4. \A p \in Live : \A d \in InWindow(x) : cells[p][d] = events[p][d]
    BY <1>1, <2>2 DEF Live, InWindow
  <2>. QED  BY <1>3, <1>5, <1>6, <2>3, <2>4 DEF ReadAll
<1>. QED  BY <1>3, <1>5, <1>7, <1>8, StampsKeep, PassCounted

(* A pass that goes on to reconcile knows what it knew. *)
LEMMA GoesOnCounted ==
  ASSUME IInv, Shown, Counted, NEW x \in Passes, pass[x].pc \in {"record", "check", "reconcile"},
         NEW pc \in {"check", "reconcile", "mark"}, To(x, pc), pc # "check" => ~pass[x].foreign,
         UNCHANGED <<clock, events, changed, project, periods, seen>>
  PROVE  Counted'
<1>. DEFINE r == [pass[x] EXCEPT !.pc = pc]
<1>1. Goto(x, r)
  BY DEF To
<1>2. /\ r \in PassRow /\ r.pc = pc /\ r.now = pass[x].now /\ r.full = pass[x].full
      /\ r.cells = pass[x].cells /\ r.foreign = pass[x].foreign
  BY DEF IInv, Typed, PassRow
<1>. HIDE DEF r
<1>3. pass'[x] = r
  BY <1>1, <1>2, Moves
<1>4. InWindow(x)' = InWindow(x) /\ Live' = Live
  BY <1>2, <1>3, SameWindow DEF Live
<1>5. Foreign(x)' /\ HasCounted(x)'
  BY <1>2, <1>3 DEF Counted, Foreign, HasCounted
<1>6. Sound' => ReadAll(x)'
  BY <1>2, <1>3, <1>4 DEF Counted, Sound, ReadAll
<1>. QED  BY <1>1, <1>2, <1>5, <1>6, StampsKeep, PassCounted

LEMMA RecordCounted == ASSUME IInv, Shown, Counted, NEW x \in Passes, Record(x) PROVE Counted'
<1>1. pass[x].pc = "record" /\ UNCHANGED <<clock, events, changed, project, periods, seen>>
  BY DEF Record, At, world, deletions
<1>2. End(x) \/ To(x, "check")
  BY DEF Record
<1>. QED  BY <1>1, <1>2, StampsKeep, EndCounted, GoesOnCounted

(* Nothing of its own was read where nothing is stored: of what stays, nothing was there. *)
LEMMA CheckCounted == ASSUME IInv, Shown, Counted, NEW x \in Passes, Check(x) PROVE Counted'
<1>1. pass[x].pc = "check" /\ UNCHANGED <<clock, events, changed, project, stored, periods, seen>>
  BY DEF Check, At, world, deletions, health
<1>2. CASE ~Verified(x)
  BY <1>1, <1>2, StampsKeep, EndCounted DEF Check
<1>3. CASE Verified(x) /\ ~nothing(x)
  <2>1. pass[x].cells # NoCounts
    BY <1>3 DEF Verified, KnownProjects, metered, NoCounts
  <2>2. ~pass[x].foreign
    BY <2>1 DEF Counted, Foreign
  <2>. QED  BY <1>1, <1>3, <2>2, GoesOnCounted DEF Check
<1>4. CASE Verified(x) /\ nothing(x)
  <2>. DEFINE r == [pass[x] EXCEPT !.pc = "refresh"]
  <2>1. Goto(x, r)
    BY <1>4 DEF Check, To
  <2>2. /\ r \in PassRow /\ r.pc = "refresh" /\ r.now = pass[x].now /\ r.full = pass[x].full
        /\ r.cells = pass[x].cells /\ r.foreign = FALSE
    BY <1>4 DEF IInv, Typed, PassRow, nothing
  <2>. HIDE DEF r
  <2>3. pass'[x] = r
    BY <2>1, <2>2, Moves
  <2>4. InWindow(x)' = InWindow(x) /\ Live' = Live
    BY <1>1, <2>2, <2>3, SameWindow DEF Live
  <2>5. Foreign(x)' /\ ReadAll(x)'
    BY <2>2, <2>3 DEF Foreign, ReadAll
  <2>6. Sound' => HasCounted(x)'
    <3>. SUFFICES ASSUME Sound, NEW p \in Live, NEW d \in InWindow(x), changed[p][d] < pass[x].now
                  PROVE  stored[p][d] >= events[p][d]
      BY <1>1, <2>2, <2>3, <2>4 DEF HasCounted, Sound
    <3>1. p \in Projects /\ d \in Days
      BY DEF Live, InWindow
    <3>2. pass[x].cells[p][d] = events[p][d]
      BY <1>1, <1>4 DEF Counted, ReadAll, nothing
    <3>3. pass[x].cells[p][d] \in Nat /\ stored[p][d] \in Nat /\ ~(pass[x].cells[p][d] > 0)
      BY <1>4, <3>1 DEF nothing, metered, IInv, Typed, PassRow, Counts
    <3>. QED  BY <3>2, <3>3
  <2>. QED  BY <1>1, <2>1, <2>2, <2>5, <2>6, StampsKeep, PassCounted
<1>. QED  BY <1>2, <1>3, <1>4

LEMMA ReconcileCounted == ASSUME IInv, Shown, Counted, NEW x \in Passes, Reconcile(x) PROVE Counted'
<1>1. /\ pass[x].pc = "reconcile" /\ To(x, "mark")
      /\ UNCHANGED <<clock, events, changed, project, periods, seen>>
  BY DEF Reconcile, At, world, deletions, health
<1>2. ~pass[x].foreign
  BY <1>1 DEF Counted, Foreign
<1>. QED  BY <1>1, <1>2, GoesOnCounted

LEMMA MarkCounted == ASSUME IInv, Shown, Counted, NEW x \in Passes, Mark(x) PROVE Counted'
<1>. DEFINE r == [pass[x] EXCEPT !.pc = "refresh", !.cells = NoCounts]
<1>1. /\ pass[x].pc = "mark" /\ Goto(x, r)
      /\ UNCHANGED <<clock, events, changed, project, stored, periods, seen>>
  BY DEF Mark, At, world, deletions, health
<1>2. /\ r \in PassRow /\ r.pc = "refresh" /\ r.now = pass[x].now /\ r.full = pass[x].full
      /\ r.foreign = pass[x].foreign
  BY DaysAre DEF IInv, Typed, PassRow
<1>. HIDE DEF r
<1>3. pass'[x] = r
  BY <1>1, <1>2, Moves
<1>4. InWindow(x)' = InWindow(x) /\ Live' = Live
  BY <1>1, <1>2, <1>3, SameWindow DEF Live
<1>5. ~pass[x].foreign
  BY <1>1 DEF Counted, Foreign
<1>6. Foreign(x)' /\ ReadAll(x)'
  BY <1>2, <1>3, <1>5 DEF Foreign, ReadAll
<1>7. Sound' => HasCounted(x)'
  <2>. SUFFICES ASSUME Sound, NEW p \in Live, NEW d \in InWindow(x), changed[p][d] < pass[x].now
                PROVE  stored[p][d] >= events[p][d]
    BY <1>1, <1>2, <1>3, <1>4 DEF HasCounted, Sound
  <2>1. p \in Projects /\ d \in Days /\ stored[p][d] \in Nat
    BY DEF Live, InWindow, IInv, Typed, Counts
  <2>2. pass[x].cells[p][d] = events[p][d]
    BY <1>1, <1>5 DEF Counted, ReadAll
  <2>3. stored[p][d] = pass[x].cells[p][d]
    BY <1>1 DEF IInv, Orderly, Sound, HasStored
  <2>. QED  BY <2>1, <2>2, <2>3
<1>. QED  BY <1>1, <1>2, <1>6, <1>7, StampsKeep, PassCounted

(* A pass looks at the days a stamp vouches for, if they have come. *)
LEMMA SureSeen ==
  ASSUME Typed, NEW x \in Passes, NEW d \in Days, pass[x].now - Rescan <= d, d <= pass[x].now
  PROVE  d \in InWindow(x)
<1>1. pass[x].now \in Days /\ pass[x].now \in Nat /\ pass[x].full \in BOOLEAN /\ d \in Nat
  BY DaysAre DEF Typed, PassRow
<1>2. PICK o \in Orgs : TRUE
  BY Constants
<1>3. meterFrom(pass[x].full, pass[x].now) \in Int
      /\ meterFrom(pass[x].full, pass[x].now) <= pass[x].now - Rescan
  <2>1. CASE pass[x].full = TRUE
    BY <1>1, <1>2, <2>1, Reaches
  <2>2. CASE pass[x].full = FALSE
    BY <1>1, <2>2, Constants DEF meterFrom
  <2>. QED  BY <1>1, <2>1, <2>2
<1>4. meterFrom(pass[x].full, pass[x].now) <= d
  <2>1. pass[x].now - Rescan \in Int
    BY <1>1, Constants
  <2>2. ASSUME NEW m \in Int, NEW n \in Int, m <= n, n <= d PROVE m <= d
    BY <1>1, <2>2
  <2>. QED  BY <1>3, <2>1, <2>2
<1>. QED  BY <1>4 DEF InWindow

(* A refresh sums no less than the stamp it writes vouches for. *)
LEMMA RefreshStamps ==
  ASSUME IInv, Shown, Counted, Sound, NEW x \in Passes, NEW o \in Orgs, Refresh(x, o)
  PROVE  \A org \in Orgs, t \in Days : Fresh(org, t)'
<1>1. PICK now \in Days, s \in Days : now = pass[x].now /\ s = PeriodFor(o, now)
  <2>1. pass[x].now \in Days /\ PeriodFor(o, pass[x].now) \in Days
    BY RefreshedRow DEF IInv, Typed, PassRow
  <2>. QED  BY <2>1
<1>. DEFINE S == OrgCells(o, PeriodDays(o, s))
            T == Sure(o, s, now)
            row == [total |-> Total(stored, S), at |-> clock, read |-> now]
<1>2. /\ pass[x].pc = "refresh" /\ now \in Nat
      /\ periods' = [periods EXCEPT ![o][s] = row] \/ periods' = periods
      /\ UNCHANGED <<clock, events, changed, project>>
  BY <1>1, RefreshedRow, DaysAre DEF RefreshPeriodUsage, Sum
<1>3. Live' = Live
  BY <1>2 DEF Live
<1>4. \A c \in T : at(events, c) \in Nat /\ at(events, c) <= at(stored, c)
  <2>. SUFFICES ASSUME NEW c \in T PROVE at(events, c) \in Nat /\ at(events, c) <= at(stored, c)
    OBVIOUS
  <2>. DEFINE p == c[1]
              d == c[2]
  <2>1. p \in Live /\ p \in Projects /\ d \in Days
    BY SureCells
  <2>2. now - Rescan <= d /\ changed[p][d] < now
    BY DEF Sure
  <2>3. at(events, c) = events[p][d] /\ at(stored, c) = stored[p][d]
    BY DEF at
  <2>. HIDE DEF T, S, row, p, d
  <2>4. events \in Counts /\ stored \in Counts /\ changed \in Counts
    BY DEF IInv, Typed
  <2>5. events[p][d] \in Nat /\ stored[p][d] \in Nat /\ changed[p][d] \in Nat /\ d \in Nat
    BY <2>1, <2>4, DaysAre DEF Counts
  <2>6. CASE d <= now
    <3>1. d \in InWindow(x)
      BY <1>1, <2>1, <2>2, <2>6, SureSeen DEF IInv
    <3>2. stored[p][d] >= events[p][d]
      BY <1>1, <1>2, <2>1, <2>2, <3>1 DEF Counted, HasCounted
    <3>. QED  BY <2>3, <2>5, <3>2
  <2>7. CASE ~(d <= now)
    <3>1. ~(d <= changed[p][d])
      BY <1>2, <2>2, <2>5, <2>7
    <3>2. events[p][d] = 0
      BY <2>1, <3>1 DEF IInv, Timely
    <3>. QED  BY <2>3, <2>5, <3>2
  <2>. QED  BY <2>6, <2>7
<1>5. \A c \in S : at(stored, c) \in Nat
  <2>. SUFFICES ASSUME NEW c \in S PROVE at(stored, c) \in Nat
    OBVIOUS
  <2>1. c[1] \in Projects /\ c[2] \in Days
    BY DEF OrgCells, PeriodDays
  <2>. QED  BY <2>1 DEF at, IInv, Typed, Counts
<1>6. IsFiniteSet(S) /\ T \in SUBSET S
  BY CellsFinite, SureCells
<1>7. Total(events, T) \in Nat /\ Total(stored, S) \in Nat /\ Total(events, T) <= Total(stored, S)
  <2>. HIDE DEF S, T
  <2>. QED  BY <1>4, <1>5, <1>6, TotalGrows
<1>8. ASSUME periods'[o][s] = row PROVE Fresh(o, s)'
  <2>1. periods'[o][s].read = now /\ periods'[o][s].total = Total(stored, S)
    BY <1>8
  <2>2. Sure(o, s, now)' = T
    BY <1>2, <1>3 DEF Sure, PeriodDays
  <2>3. Total(events', Sure(o, s, now)') = Total(events, T)
    BY <1>2, <2>2
  <2>4. Sure(o, s, periods[o][s].read)' = Sure(o, s, now)'
    BY <2>1 DEF Sure
  <2>. HIDE DEF S, T
  <2>5. periods'[o][s].total >= Total(events', Sure(o, s, periods[o][s].read)')
    BY <1>7, <2>1, <2>3, <2>4
  <2>. QED  BY <2>5 DEF Fresh
<1>9. ASSUME NEW org \in Orgs, NEW t \in Days, periods'[org][t] = periods[org][t]
      PROVE  Fresh(org, t)'
  BY <1>2, <1>3, <1>9, FreshKeeps
<1>10. \A org \in Orgs, t \in Days :
         (org = o /\ t = s /\ periods'[org][t] = row) \/ periods'[org][t] = periods[org][t]
  <2>. HIDE DEF row
  <2>1. periods \in [Orgs -> [Days -> PeriodRow]]
    BY DEF Shown
  <2>. QED  BY <1>2, <2>1
<1>. HIDE DEF row
<1>. QED  BY <1>8, <1>9, <1>10

LEMMA RefreshCounted ==
  ASSUME IInv, Shown, Counted, NEW x \in Passes, NEW o \in Orgs, Refresh(x, o)
  PROVE  Counted'
<1>1. /\ pass[x].pc = "refresh"
      /\ UNCHANGED <<clock, events, changed, project, stored, seen>>
  BY DEF Refresh, At, world, deletions
<1>2. Sound => \A org \in Orgs, t \in Days : Fresh(org, t)'
  BY RefreshStamps
<1>3. CASE pass[x].todo = {o}
  <2>1. End(x)
    BY <1>3 DEF Refresh
  <2>. QED  BY <1>1, <1>2, <2>1, EndCounted
<1>4. CASE pass[x].todo # {o}
  <2>. DEFINE r == [pass[x] EXCEPT !.todo = @ \ {o}]
  <2>1. Goto(x, r)
    BY <1>4 DEF Refresh
  <2>2. /\ r \in PassRow /\ r.pc = "refresh" /\ r.now = pass[x].now /\ r.full = pass[x].full
        /\ r.cells = pass[x].cells /\ r.foreign = pass[x].foreign
    BY <1>1 DEF IInv, Typed, PassRow
  <2>. HIDE DEF r
  <2>3. pass'[x] = r
    BY <2>1, <2>2, Moves
  <2>4. InWindow(x)' = InWindow(x) /\ Live' = Live
    BY <1>1, <2>2, <2>3, SameWindow DEF Live
  <2>5. Foreign(x)' /\ ReadAll(x)'
    BY <1>1, <2>2, <2>3 DEF Counted, Foreign, ReadAll
  <2>6. Sound' => HasCounted(x)'
    BY <1>1, <2>2, <2>3, <2>4 DEF Counted, Sound, HasCounted
  <2>. QED  BY <1>1, <1>2, <2>1, <2>2, <2>5, <2>6, PassCounted
<1>. QED  BY <1>3, <1>4

LEMMA FailCounted == ASSUME IInv, Shown, Counted, NEW x \in Passes, Fail(x) PROVE Counted'
<1>1. /\ pass[x].pc # "idle" /\ End(x)
      /\ UNCHANGED <<clock, events, changed, project, stored, periods, seen>>
  BY DEF Fail, world, deletions
<1>. QED  BY <1>1, StampsKeep, EndCounted

LEMMA NextCounted == IInv /\ Shown /\ Counted /\ [Next]_vars => Counted'
<1>. SUFFICES ASSUME IInv, Shown, Counted, [Next]_vars PROVE Counted'
  OBVIOUS
<1>1. CASE Beside
  <2>1. CASE \E p \in Projects, d \in Days : Arrive(p, d) \/ Erase(p, d)
    <3>1. PICK p \in Projects, d \in Days : Arrive(p, d) \/ Erase(p, d)
      BY <2>1
    <3>2. events[p][d] + 1 \in Nat
      BY DEF IInv, Typed, Counts
    <3>. QED  BY <3>1, <3>2, ChangeCounted DEF Arrive, Erase
  <2>. QED  BY <1>1, <2>1, TickCounted, LoseLockCounted, DeletionCounted DEF Beside
<1>2. ASSUME NEW x \in Passes, Step(x) \/ Fail(x) PROVE Counted'
  BY <1>2, BeginCounted, ReadCounted, RecordCounted, CheckCounted, ReconcileCounted, MarkCounted,
     RefreshCounted, FailCounted DEF Step
<1>3. CASE UNCHANGED vars
  <2>1. Live' = Live /\ UNCHANGED <<events, changed, project, stored, periods, pass, seen>>
    BY <1>3 DEF vars, Live
  <2>. QED  BY <2>1, BesideCounted
<1>. QED  BY <1>1, <1>2, <1>3 DEF Next

LEMMA UsageCounts == Spec => []Counted
<1>1. Spec => []Shown
  BY InitShown, NextShown, UsageInStep, PTL DEF Spec
<1>. QED  BY <1>1, InitCounted, NextCounted, UsageInStep, PTL DEF Spec

(* usage_computed_at vouches for the total beside it, whatever came late, was erased or
   deleted, and whichever passes failed: unless a read of the database left projects out or
   returned nothing, or a lock was lost, every row counts what its org's live projects had
   by the day before it was read.                                                        *)
THEOREM UsageFreshMeansCounted == Spec => []FreshMeansCounted
<1>1. Counted => FreshMeansCounted
  BY DEF Counted
<1>. QED  BY <1>1, UsageCounts, PTL
-----------------------------------------------------------------------------
LEMMA InitSettled == Init => Settled
<1>. SUFFICES ASSUME Init PROVE Settled
  OBVIOUS
<1>1. \A x \in Passes : pass[x].pc = "idle"
  BY DEF Init, Idle
<1>2. lastFull # Horizon
  BY Constants DEF Init
<1>. QED  BY <1>1, <1>2 DEF Settled, Done, InTurn, OneByOne, ReadExactly, StoredExactly

(* Beside the passes: before the last day nothing is settled, on it nothing live changes. *)
LEMMA BesideSettled ==
  ASSUME IInv, Settled, UNCHANGED <<periods, lastFull, pass>>, seen \subseteq seen',
         lock' = lock \/ "unlocked" \in seen',
         \/ clock < Horizon
         \/ Live' = Live /\ UNCHANGED <<clock, stored>> /\ \A p \in Live : events'[p] = events[p]
  PROVE  Settled'
<1>1. \A x \in Passes : InWindow(x)' = InWindow(x) /\ pass[x].now \in Nat /\ pass[x].now <= clock
  BY DaysAre DEF InWindow, IInv, Typed, PassRow, Timely
<1>2. clock \in Nat /\ (lastFull # None => lastFull \in Nat /\ lastFull <= clock) /\ Horizon # None
  BY DaysAre, Constants DEF IInv, Typed, Timely
<1>3. CASE clock < Horizon
  <2>1. ~Done'
    BY <1>2, <1>3, Constants DEF Done
  <2>2. \A x \in Passes : pass[x].now # Horizon
    BY <1>1, <1>2, <1>3, Constants
  <2>. QED  BY <2>1, <2>2 DEF Settled, InTurn, OneByOne, ReadExactly, StoredExactly
<1>4. CASE Live' = Live /\ UNCHANGED <<clock, stored>> /\ \A p \in Live : events'[p] = events[p]
  <2>1. Kept' = Kept
    BY <1>4 DEF Kept
  <2>2. \A o \in Orgs : (Exact(o) => Exact(o)') /\ (Awaited(o) => Awaited(o)')
    BY <2>1 DEF Exact, Awaited, OrgCells, PeriodDays, PeriodFor
  <2>3. DaysExact => DaysExact'
    BY <1>4 DEF DaysExact, PeriodDays, PeriodFor
  <2>4. \A x \in Passes : "unlocked" \notin seen' /\ InTurn(x) => InTurn(x)'
    BY <1>1, <1>4 DEF InTurn, OneByOne, ReadExactly, StoredExactly
  <2>. QED  BY <1>4, <2>2, <2>3, <2>4 DEF Settled, Done
<1>. QED  BY <1>3, <1>4

(* A pass's step: the others are idle, and owe nothing. *)
LEMMA PassSettled ==
  ASSUME IInv, Settled, NEW x \in Passes, NEW r \in PassRow, Goto(x, r),
         pass[x].pc # "idle" \/ lock = None, seen \subseteq seen',
         "unlocked" \notin seen' => InTurn(x)',
         Done' => DaysExact' /\ \A o \in Orgs : Exact(o)' \/ Awaited(o)'
  PROVE  Settled'
<1>1. ASSUME "unlocked" \notin seen', NEW y \in Passes \ {x} PROVE InTurn(y)'
  <2>1. pass[y].pc = "idle"
    BY <1>1, Constants DEF Settled, InTurn, OneByOne
  <2>2. pass'[y].pc = "idle"
    BY <2>1, Moves
  <2>. QED  BY <2>2 DEF InTurn, OneByOne, ReadExactly, StoredExactly
<1>. QED  BY <1>1 DEF Settled

(* A pass that has ended owes nothing. *)
LEMMA EndInTurn ==
  ASSUME IInv, NEW x \in Passes, End(x)
  PROVE  Idle \in PassRow /\ Goto(x, Idle) /\ InTurn(x)'
<1>1. Idle \in PassRow /\ Goto(x, Idle)
  BY DaysAre DEF End
<1>2. pass'[x].pc = "idle"
  BY <1>1, Moves DEF Idle
<1>. QED  BY <1>1, <1>2 DEF InTurn, OneByOne, ReadExactly, StoredExactly

(* The totals stay exact, or awaited, where a pass does not refresh. *)
LEMMA TotalsKeep ==
  ASSUME IInv, Settled, Done, NEW x \in Passes, NEW r \in PassRow, Goto(x, r), pass[x].pc # "refresh",
         UNCHANGED <<events, project, periods>>,
         \A p \in Projects \ Live : stored'[p] = stored[p]
  PROVE  \A o \in Orgs : Exact(o)' \/ Awaited(o)'
<1>1. Kept' = Kept
  BY DEF Kept, Live
<1>2. \A o \in Orgs : Exact(o) => Exact(o)'
  BY <1>1 DEF Exact, OrgCells, PeriodDays, PeriodFor
<1>3. ASSUME NEW o \in Orgs, Awaited(o) PROVE Awaited(o)'
  <2>1. PICK y \in Passes : pass[y].pc = "refresh" /\ o \in pass[y].todo
    BY <1>3 DEF Awaited
  <2>2. pass'[y] = pass[y]
    BY <2>1, Moves
  <2>. QED  BY <2>1, <2>2 DEF Awaited
<1>. QED  BY <1>2, <1>3 DEF Settled

(* Where nothing is stored, so do the days. *)
LEMMA DoneKeeps ==
  ASSUME IInv, Settled, NEW x \in Passes, NEW r \in PassRow, Goto(x, r), pass[x].pc # "refresh",
         UNCHANGED <<clock, events, project, stored, periods, lastFull>>, seen \subseteq seen'
  PROVE  Done' => DaysExact' /\ \A o \in Orgs : Exact(o)' \/ Awaited(o)'
<1>. SUFFICES ASSUME Done' PROVE DaysExact' /\ \A o \in Orgs : Exact(o)' \/ Awaited(o)'
  OBVIOUS
<1>1. Done
  BY DEF Done
<1>2. Live' = Live
  BY DEF Live
<1>3. DaysExact'
  BY <1>1, <1>2 DEF Settled, DaysExact, PeriodDays, PeriodFor
<1>. QED  BY <1>1, <1>3, TotalsKeep

(* Before the last day nothing is done. *)
LEMMA NotDone ==
  ASSUME IInv, UNCHANGED clock, Fault
  PROVE  ~Done' /\ clock # Horizon
<1>1. clock < Horizon /\ clock \in Nat /\ Horizon \in Nat
  BY DaysAre, Constants DEF Fault, IInv, Typed
<1>. QED  BY <1>1 DEF Done

(* A pass of the last day takes its steps on it. *)
LEMMA LastDay ==
  ASSUME IInv, NEW x \in Passes
  PROVE  /\ pass[x].now = Horizon => clock = Horizon
         /\ clock = Horizon /\ lastFull = Horizon /\ OneByOne(x) /\ pass[x].pc # "idle" =>
              pass[x].now = Horizon
<1>1. /\ clock \in Nat /\ clock <= Horizon /\ pass[x].now \in Nat /\ pass[x].now <= clock
      /\ Horizon \in Nat /\ Horizon # None
  BY Constants DEF IInv, Typed, Timely, PassRow, Days
<1>. QED  BY <1>1 DEF OneByOne
-----------------------------------------------------------------------------
LEMMA AroundSettled ==
  ASSUME IInv, Settled, Beside
  PROVE  Settled'
<1>1. clock \in Nat /\ Horizon \in Nat
  BY DaysAre, Constants DEF IInv, Typed
<1>2. CASE Tick
  <2>1. clock < Horizon /\ UNCHANGED <<periods, lastFull, pass, seen, lock>>
    BY <1>2 DEF Tick, health
  <2>. QED  BY <2>1, BesideSettled
<1>3. CASE LoseLock
  <2>1. clock < Horizon /\ UNCHANGED <<periods, lastFull, pass>> /\ seen \subseteq seen'
        /\ "unlocked" \in seen'
    BY <1>3 DEF LoseLock, Fault
  <2>. QED  BY <2>1, BesideSettled
<1>4. ASSUME NEW p \in Projects, NEW d \in Days, Arrive(p, d) \/ Erase(p, d) PROVE Settled'
  <2>1. clock < Horizon /\ UNCHANGED <<periods, lastFull, pass, seen, lock>>
    BY <1>4 DEF Arrive, Erase, Change, health
  <2>. QED  BY <2>1, BesideSettled
<1>5. ASSUME NEW p \in Projects, Delete(p) \/ CountForPurge(p) \/ Freeze(p) PROVE Settled'
  <2>1. clock < Horizon /\ UNCHANGED <<periods, lastFull, pass, seen, lock>>
    BY <1>5 DEF Delete, CountForPurge, Freeze, health
  <2>. QED  BY <2>1, BesideSettled
<1>6. ASSUME NEW q \in Projects, Purge(q) PROVE Settled'
  <2>1. /\ events' = [events EXCEPT ![q] = NoCounts[q]] /\ project' = [project EXCEPT ![q] = "gone"]
        /\ project[q] = "deleting" /\ UNCHANGED <<clock, stored, periods, lastFull, pass, seen, lock>>
    BY <1>6 DEF Purge, health
  <2>2. Live' = Live /\ q \notin Live
    BY <2>1 DEF Live, IInv, Typed
  <2>3. \A p \in Live : events'[p] = events[p]
    BY <2>1, <2>2 DEF Live, IInv, Typed, Counts
  <2>. QED  BY <2>1, <2>2, <2>3, BesideSettled
<1>. QED  BY <1>2, <1>3, <1>4, <1>5, <1>6 DEF Beside

LEMMA BeginSettled == ASSUME IInv, Settled, NEW x \in Passes, Begin(x) PROVE Settled'
<1>. DEFINE r == [Idle EXCEPT !.pc = "read", !.now = clock,
                              !.full = lastFull = None \/ clock > lastFull, !.todo = Orgs]
<1>1. /\ lock = None /\ lock' = x /\ Goto(x, r) /\ pass[x].pc = "idle"
      /\ UNCHANGED <<clock, events, project, stored, periods, lastFull, seen>>
  BY DEF Begin, At, world, deletions, health
<1>2. r \in PassRow /\ r.pc = "read" /\ r.now = clock /\ r.todo = Orgs
  BY DaysAre DEF Idle, PassRow, NoCounts, IInv, Typed
<1>. HIDE DEF r
<1>3. pass'[x] = r
  BY <1>1, <1>2, Moves
<1>4. InTurn(x)'
  BY <1>1, <1>2, <1>3 DEF InTurn, OneByOne, ReadExactly, StoredExactly, IInv, Timely
<1>. QED  BY <1>1, <1>2, <1>4, DoneKeeps, PassSettled

(* On the last day a read is of all there is. *)
LEMMA ReadSettled == ASSUME IInv, Settled, NEW x \in Passes, ReadCounts(x) PROVE Settled'
<1>. DEFINE now == pass[x].now
            read(ps) == MeterWindow(meterFrom(pass[x].full, now), now, ps)
<1>1. \A ps : read(ps) \in Counts /\ \A p \in Projects, d \in Days :
        read(ps)[p][d] = IF p \in ps /\ d \in InWindow(x) THEN events[p][d] ELSE 0
  BY DEF MeterWindow, InWindow, Counts, IInv, Typed
<1>2. PICK cells, foreign, fault :
        /\ Read(x, cells, foreign, fault) /\ foreign \in BOOLEAN
        /\ \/ cells = read(Projects) /\ foreign = FALSE
           \/ cells = NoCounts /\ fault # {}
           \/ fault # {} /\ \E p \in Projects : cells = read(Projects \ {p})
  BY Zenon DEF ReadCounts
<1>. DEFINE r == [pass[x] EXCEPT !.pc = "record", !.cells = cells, !.foreign = foreign]
<1>3. /\ pass[x].pc = "read" /\ Goto(x, r) /\ seen' = seen \cup fault /\ (fault # {} => Fault)
      /\ UNCHANGED <<clock, events, changed, project, stored, periods, lastFull, lock>>
  BY <1>2 DEF Read, At, world, deletions
<1>4. cells \in Counts
  BY <1>1, <1>2, DaysAre
<1>5. /\ r \in PassRow /\ r.pc = "record" /\ r.now = now /\ r.full = pass[x].full
      /\ r.cells = cells /\ r.foreign = foreign /\ r.todo = pass[x].todo
  BY <1>2, <1>4 DEF IInv, Typed, PassRow
<1>. HIDE DEF r
<1>6. pass'[x] = r
  BY <1>3, <1>5, Moves
<1>7. "unlocked" \notin seen' => OneByOne(x)'
  BY <1>3, <1>5, <1>6 DEF Settled, InTurn, OneByOne
<1>8. ReadExactly(x)'
  <2>. SUFFICES ASSUME now = Horizon PROVE ReadExactly(x)'
    BY <1>5, <1>6 DEF ReadExactly
  <2>1. fault = {}
    BY <1>3, LastDay, NotDone
  <2>2. cells = read(Projects) /\ foreign = FALSE
    BY <1>2, <2>1
  <2>3. InWindow(x)' = InWindow(x) /\ Live' = Live
    BY <1>3, <1>5, <1>6, SameWindow DEF Live
  <2>4. \A p \in Live : \A d \in InWindow(x) : cells[p][d] = events[p][d]
    BY <1>1, <2>2 DEF Live, InWindow
  <2>. QED  BY <1>3, <1>5, <1>6, <2>2, <2>3, <2>4 DEF ReadExactly
<1>9. StoredExactly(x)'
  BY <1>5, <1>6 DEF StoredExactly
<1>10. "unlocked" \notin seen' => InTurn(x)'
  BY <1>7, <1>8, <1>9 DEF InTurn
<1>11. pass[x].pc # "idle" /\ pass[x].pc # "refresh" /\ seen \subseteq seen'
  BY <1>3
<1>12. Done' => DaysExact' /\ \A o \in Orgs : Exact(o)' \/ Awaited(o)'
  BY <1>3, <1>5, <1>11, DoneKeeps
<1>. QED  BY <1>3, <1>5, <1>10, <1>11, <1>12, PassSettled

(* What it stores, and what it drops, on the last day changes nothing that is exact. *)
LEMMA StoreSettled ==
  ASSUME IInv, Settled, NEW x \in Passes, NEW pc \in {"check", "mark"}, To(x, pc),
         pass[x].pc \in {"record", "reconcile"}, stored' \in Counts,
         UNCHANGED <<clock, events, project, periods, lastFull, lock, seen>>,
         \A p \in Projects \ Live : stored'[p] = stored[p],
         \A p \in Live, d \in Days :
           \/ stored'[p][d] = stored[p][d]
           \/ d \in InWindow(x) /\ stored'[p][d] = pass[x].cells[p][d],
         "unlocked" \notin seen => StoredExactly(x)'
  PROVE  Settled'
<1>. DEFINE r == [pass[x] EXCEPT !.pc = pc]
<1>1. Goto(x, r)
  BY DEF To
<1>2. /\ r \in PassRow /\ r.pc = pc /\ r.now = pass[x].now /\ r.full = pass[x].full
      /\ r.cells = pass[x].cells /\ r.foreign = pass[x].foreign /\ r.todo = pass[x].todo
  BY DEF IInv, Typed, PassRow
<1>. HIDE DEF r
<1>3. pass'[x] = r
  BY <1>1, <1>2, Moves
<1>4. InWindow(x)' = InWindow(x) /\ Live' = Live
  BY <1>2, <1>3, SameWindow DEF Live
<1>5. "unlocked" \notin seen' => InTurn(x)'
  <2>. SUFFICES ASSUME "unlocked" \notin seen PROVE InTurn(x)'
    OBVIOUS
  <2>1. OneByOne(x) /\ ReadExactly(x)
    BY DEF Settled, InTurn
  <2>2. OneByOne(x)'
    BY <1>2, <1>3, <2>1 DEF OneByOne
  <2>3. ReadExactly(x)'
    BY <1>2, <1>3, <1>4, <2>1 DEF ReadExactly
  <2>. QED  BY <2>2, <2>3 DEF InTurn
<1>6. ASSUME Done' PROVE DaysExact' /\ \A o \in Orgs : Exact(o)' \/ Awaited(o)'
  <2>1. Done
    BY <1>6 DEF Done
  <2>2. OneByOne(x) /\ ReadExactly(x)
    BY <2>1 DEF Settled, InTurn, Done
  <2>3. pass[x].now = Horizon
    BY <2>1, <2>2, LastDay DEF Done
  <2>4. \A p \in Live : \A d \in InWindow(x) : pass[x].cells[p][d] = events[p][d]
    BY <2>2, <2>3 DEF ReadExactly
  <2>5. DaysExact
    BY <2>1 DEF Settled
  <2>6. DaysExact'
    <3>. SUFFICES ASSUME NEW p \in Live, NEW d \in PeriodDays(OrgOf[p], PeriodFor(OrgOf[p], Horizon))
                  PROVE  stored'[p][d] = events[p][d]
      BY <1>4 DEF DaysExact, PeriodDays, PeriodFor
    <3>1. d \in Days
      BY DEF PeriodDays
    <3>2. stored[p][d] = events[p][d]
      BY <2>5 DEF DaysExact
    <3>. QED  BY <2>4, <3>1, <3>2
  <2>. QED  BY <1>1, <1>2, <2>1, <2>6, TotalsKeep
<1>. QED  BY <1>1, <1>2, <1>5, <1>6, PassSettled

LEMMA RecordSettled == ASSUME IInv, Settled, NEW x \in Passes, Record(x) PROVE Settled'
<1>1. PICK ps \in SUBSET Projects :
        /\ pass[x].pc = "record" /\ stored' = Upsert(x, ps)
        /\ IF ps = Projects THEN To(x, "check") /\ UNCHANGED lock ELSE Fault /\ End(x)
  BY DEF Record, At
<1>2. UNCHANGED <<clock, events, changed, project, periods, lastFull, seen>>
  BY DEF Record, world, deletions
<1>3. CASE ps # Projects
  BY <1>1, <1>2, <1>3, NotDone, EndInTurn, PassSettled
<1>4. CASE ps = Projects
  <2>1. To(x, "check") /\ UNCHANGED lock
    BY <1>1, <1>4
  <2>2. pass[x].cells \in Counts /\ stored \in Counts /\ Live \subseteq Projects
    BY DEF IInv, Typed, PassRow, Live
  <2>3. stored' = [p \in Projects |-> [d \in Days |->
                     IF p \in Live /\ pass[x].cells[p][d] > 0 THEN pass[x].cells[p][d] ELSE stored[p][d]]]
    BY <1>1, <1>4, <2>2 DEF Upsert
  <2>4. stored' \in Counts
    BY <2>2, <2>3 DEF Counts
  <2>5. \A p \in Projects \ Live : stored'[p] = stored[p]
    BY <2>2, <2>3 DEF Counts
  <2>6. \A p \in Live, d \in Days :
          /\ pass[x].cells[p][d] = 0 => stored'[p][d] = stored[p][d]
          /\ pass[x].cells[p][d] # 0 => stored'[p][d] = pass[x].cells[p][d] /\ d \in InWindow(x)
    <3>1. \A p \in Live, d \in Days : pass[x].cells[p][d] \in Nat
      BY <2>2 DEF Counts
    <3>2. \A p \in Live, d \in Days : pass[x].cells[p][d] # 0 => d \in InWindow(x)
      BY <2>2 DEF IInv, Timely
    <3>. QED  BY <2>2, <2>3, <3>1, <3>2
  <2>7. StoredExactly(x)'
    <3>1. /\ pass'[x].pc = "check" /\ pass'[x].now = pass[x].now /\ pass'[x].cells = pass[x].cells
      BY <2>1 DEF To, Goto, IInv, Typed, PassRow
    <3>2. Live' = Live
      BY <1>2 DEF Live
    <3>. QED  BY <2>6, <3>1, <3>2 DEF StoredExactly
  <2>. QED  BY <1>1, <1>2, <2>1, <2>4, <2>5, <2>6, <2>7, StoreSettled
<1>. QED  BY <1>3, <1>4

LEMMA CheckSettled == ASSUME IInv, Settled, NEW x \in Passes, Check(x) PROVE Settled'
<1>1. /\ pass[x].pc = "check"
      /\ UNCHANGED <<clock, events, changed, project, stored, periods, lastFull, seen>>
  BY DEF Check, At, world, deletions, health
<1>2. CASE ~Verified(x)
  <2>1. End(x)
    BY <1>2 DEF Check
  <2>. QED  BY <1>1, <2>1, EndInTurn, DoneKeeps, PassSettled
<1>3. CASE Verified(x)
  <2>1. PICK pc \in {"refresh", "reconcile"} : To(x, pc) /\ UNCHANGED lock
    BY <1>3 DEF Check
  <2>. DEFINE r == [pass[x] EXCEPT !.pc = pc]
  <2>2. Goto(x, r)
    BY <2>1 DEF To
  <2>3. /\ r \in PassRow /\ r.pc = pc /\ r.now = pass[x].now /\ r.full = pass[x].full
        /\ r.cells = pass[x].cells /\ r.foreign = pass[x].foreign /\ r.todo = pass[x].todo
    BY <2>1 DEF IInv, Typed, PassRow
  <2>. HIDE DEF r
  <2>4. pass'[x] = r
    BY <2>2, <2>3, Moves
  <2>5. InWindow(x)' = InWindow(x) /\ Live' = Live
    BY <1>1, <2>3, <2>4, SameWindow DEF Live
  <2>6. "unlocked" \notin seen' => InTurn(x)'
    BY <1>1, <2>1, <2>3, <2>4, <2>5 DEF Settled, InTurn, OneByOne, ReadExactly, StoredExactly
  <2>. QED  BY <1>1, <2>2, <2>3, <2>6, DoneKeeps, PassSettled
<1>. QED  BY <1>2, <1>3

LEMMA ReconcileSettled == ASSUME IInv, Settled, NEW x \in Passes, Reconcile(x) PROVE Settled'
<1>1. /\ pass[x].pc = "reconcile" /\ To(x, "mark") /\ stored' = DeleteUnmeteredDays(x)
      /\ UNCHANGED <<clock, events, project, periods, lastFull, lock, seen>>
  BY DEF Reconcile, At, world, deletions, health
<1>2. pass[x].cells \in Counts /\ stored \in Counts /\ Live \subseteq Projects
  BY DEF IInv, Typed, PassRow, Live
<1>3. stored' \in Counts /\ \A p \in Projects \ Live : stored'[p] = stored[p]
  BY <1>1, <1>2 DEF DeleteUnmeteredDays, Counts
<1>4. \A p \in Live, d \in Days :
        stored'[p][d] = IF d \in InWindow(x) /\ pass[x].cells[p][d] = 0 THEN 0 ELSE stored[p][d]
  BY <1>1, <1>2 DEF DeleteUnmeteredDays
<1>5. ASSUME "unlocked" \notin seen PROVE StoredExactly(x)'
  <2>1. /\ pass'[x].pc = "mark" /\ pass'[x].now = pass[x].now /\ pass'[x].cells = pass[x].cells
        /\ pass'[x].full = pass[x].full
    BY <1>1 DEF To, Goto, IInv, Typed, PassRow
  <2>2. InWindow(x)' = InWindow(x) /\ Live' = Live /\ InWindow(x) \subseteq Days
    BY <1>1, <2>1, SameWindow DEF Live, InWindow
  <2>. SUFFICES ASSUME pass[x].now = Horizon PROVE StoredExactly(x)'
    BY <2>1 DEF StoredExactly
  <2>3. \A p \in Live, d \in Days : pass[x].cells[p][d] # 0 => stored[p][d] = pass[x].cells[p][d]
    BY <1>1, <1>5 DEF Settled, InTurn, StoredExactly
  <2>4. \A p \in Live, d \in Days : pass[x].cells[p][d] # 0 => stored'[p][d] = pass[x].cells[p][d]
    BY <1>4, <2>3
  <2>5. \A p \in Live : \A d \in InWindow(x) : stored'[p][d] = pass[x].cells[p][d]
    BY <1>4, <2>2, <2>4
  <2>. QED  BY <2>1, <2>2, <2>4, <2>5 DEF StoredExactly
<1>. QED  BY <1>1, <1>3, <1>4, <1>5, StoreSettled

(* The full pass of the last day is marked: the days are exact, every org is to come. *)
LEMMA MarkSettled == ASSUME IInv, Settled, NEW x \in Passes, Mark(x) PROVE Settled'
<1>. DEFINE r == [pass[x] EXCEPT !.pc = "refresh", !.cells = NoCounts]
<1>1. /\ pass[x].pc = "mark" /\ Goto(x, r)
      /\ lastFull' = IF pass[x].full THEN pass[x].now ELSE lastFull
      /\ UNCHANGED <<clock, events, project, stored, periods, lock, seen>>
  BY DEF Mark, At, world, deletions, health
<1>2. /\ r \in PassRow /\ r.pc = "refresh" /\ r.now = pass[x].now /\ r.todo = pass[x].todo
  BY DaysAre DEF IInv, Typed, PassRow
<1>. HIDE DEF r
<1>3. pass'[x] = r
  BY <1>1, <1>2, Moves
<1>4. Live' = Live /\ pass[x].now \in Nat
  BY <1>1, DaysAre DEF Live, IInv, Typed, PassRow
<1>5. "unlocked" \notin seen' => InTurn(x)'
  <2>. SUFFICES ASSUME "unlocked" \notin seen PROVE InTurn(x)'
    BY <1>1
  <2>1. OneByOne(x)
    BY DEF Settled, InTurn
  <2>2. OneByOne(x)'
    BY <1>1, <1>2, <1>3, <1>4, <2>1 DEF OneByOne
  <2>. QED  BY <1>2, <1>3, <2>2 DEF InTurn, ReadExactly, StoredExactly
<1>6. CASE ~pass[x].full
  <2>1. lastFull' = lastFull
    BY <1>1, <1>6
  <2>. QED  BY <1>1, <1>2, <1>5, <2>1, DoneKeeps, PassSettled
<1>7. CASE pass[x].full
  <2>1. ASSUME Done' PROVE DaysExact' /\ \A o \in Orgs : Exact(o)' \/ Awaited(o)'
    <3>1. pass[x].now = Horizon /\ OneByOne(x) /\ ReadExactly(x) /\ StoredExactly(x)
      BY <1>1, <1>7, <2>1 DEF Done, Settled, InTurn
    <3>2. DaysExact'
      <4>. SUFFICES ASSUME NEW p \in Live, NEW d \in PeriodDays(OrgOf[p], PeriodFor(OrgOf[p], Horizon))
                    PROVE  stored[p][d] = events[p][d]
        BY <1>1, <1>4 DEF DaysExact, PeriodDays, PeriodFor
      <4>1. OrgOf[p] \in Orgs /\ d \in Days /\ d <= Horizon
        BY Constants DEF Live, PeriodDays, Days
      <4>2. d \in InWindow(x)
        BY <1>7, <3>1, <4>1, PeriodSeen DEF IInv
      <4>. QED  BY <1>1, <3>1, <4>2 DEF ReadExactly, StoredExactly
    <3>3. \A o \in Orgs : Awaited(o)'
      BY <1>1, <1>2, <1>3, <3>1 DEF Awaited, OneByOne
    <3>. QED  BY <3>2, <3>3
  <2>. QED  BY <1>1, <1>2, <1>5, <2>1, PassSettled
<1>. QED  BY <1>6, <1>7

(* An org's turn: its total is exact, and the others keep their places. *)
LEMMA RefreshExact ==
  ASSUME IInv, Shown, Settled, Done, NEW x \in Passes, NEW o \in Orgs, Refresh(x, o)
  PROVE  /\ Exact(o)'
         /\ \A org \in Orgs \ {o} : Exact(org) => Exact(org)'
<1>1. pass[x].pc = "refresh" /\ pass[x].now = Horizon /\ clock = Horizon
  <2>1. pass[x].pc = "refresh" /\ OneByOne(x) /\ clock = Horizon
    BY RefreshedRow DEF Done, Settled, InTurn
  <2>. QED  BY <2>1, LastDay DEF Done
<1>2. PICK s \in Days : s = PeriodFor(o, Horizon)
  BY <1>1, RefreshedRow
<1>. DEFINE S == OrgCells(o, PeriodDays(o, s))
            row == [total |-> Total(stored, S), at |-> Horizon, read |-> Horizon]
<1>3. /\ periods' = [periods EXCEPT ![o][s] = row]
      /\ UNCHANGED <<clock, events, project, stored>>
  <2>1. ~Fault
    BY <1>1, Constants DEF Fault
  <2>. QED  BY <1>1, <1>2, <2>1, RefreshedRow DEF RefreshPeriodUsage, Sum
<1>4. Kept' = Kept
  BY <1>3 DEF Kept, Live
<1>5. \A c \in S : at(Kept, c) \in Nat /\ at(stored, c) = at(Kept, c)
  <2>. SUFFICES ASSUME NEW c \in S PROVE at(Kept, c) \in Nat /\ at(stored, c) = at(Kept, c)
    OBVIOUS
  <2>1. c[1] \in Projects /\ OrgOf[c[1]] = o /\ c[2] \in PeriodDays(o, s) /\ c[2] \in Days
    BY DEF OrgCells, PeriodDays
  <2>2. c[1] \in Live => stored[c[1]][c[2]] = events[c[1]][c[2]]
    BY <1>2, <2>1 DEF Settled, DaysExact
  <2>3. stored[c[1]][c[2]] \in Nat
    BY <2>1 DEF IInv, Typed, Counts
  <2>. QED  BY <2>1, <2>2, <2>3 DEF at, Kept
<1>6. IsFiniteSet(S)
  BY CellsFinite
<1>7. Total(stored, S) = Total(Kept, S)
  <2>. HIDE DEF S
  <2>. QED  BY <1>5, <1>6, TotalSame
<1>. HIDE DEF S
<1>8. periods \in [Orgs -> [Days -> PeriodRow]]
  BY DEF Shown
<1>9. periods'[o][s].at = Horizon /\ periods'[o][s].total = Total(Kept, S)
  BY <1>3, <1>7, <1>8
<1>10. Exact(o)'
  BY <1>2, <1>4, <1>9 DEF Exact, S, OrgCells, PeriodDays, PeriodFor
<1>11. ASSUME NEW org \in Orgs \ {o}, Exact(org) PROVE Exact(org)'
  <2>1. periods'[org] = periods[org]
    BY <1>3, <1>8
  <2>. QED  BY <1>4, <1>11, <2>1 DEF Exact, OrgCells, PeriodDays, PeriodFor
<1>. QED  BY <1>10, <1>11

LEMMA RefreshSettled ==
  ASSUME IInv, Shown, Settled, NEW x \in Passes, NEW o \in Orgs, Refresh(x, o)
  PROVE  Settled'
<1>1. /\ pass[x].pc = "refresh" /\ UNCHANGED <<clock, events, project, stored, lastFull, seen>>
  BY RefreshedRow
<1>2. PICK r \in PassRow :
        /\ Goto(x, r) /\ ("unlocked" \notin seen' => InTurn(x)')
        /\ (r.pc = "refresh" /\ r.todo = pass[x].todo \ {o}) \/ pass[x].todo \subseteq {o}
  <2>1. CASE pass[x].todo = {o}
    <3>1. End(x)
      BY <2>1 DEF Refresh
    <3>. QED  BY <2>1, <3>1, EndInTurn
  <2>2. CASE pass[x].todo # {o}
    <3>. DEFINE r == [pass[x] EXCEPT !.todo = @ \ {o}]
    <3>1. Goto(x, r) /\ UNCHANGED lock
      BY <2>2 DEF Refresh
    <3>2. /\ r \in PassRow /\ r.pc = "refresh" /\ r.now = pass[x].now /\ r.todo = pass[x].todo \ {o}
      BY <1>1 DEF IInv, Typed, PassRow
    <3>. HIDE DEF r
    <3>3. pass'[x] = r
      BY <3>1, <3>2, Moves
    <3>4. "unlocked" \notin seen' => InTurn(x)'
      BY <1>1, <3>1, <3>2, <3>3 DEF Settled, InTurn, OneByOne, ReadExactly, StoredExactly
    <3>. QED  BY <3>1, <3>2, <3>4
  <2>. QED  BY <2>1, <2>2
<1>3. ASSUME Done' PROVE DaysExact' /\ \A org \in Orgs : Exact(org)' \/ Awaited(org)'
  <2>1. Done /\ Live' = Live
    BY <1>1, <1>3 DEF Done, Live
  <2>2. DaysExact'
    BY <1>1, <2>1 DEF Settled, DaysExact, PeriodDays, PeriodFor
  <2>3. Exact(o)' /\ \A org \in Orgs \ {o} : Exact(org) => Exact(org)'
    BY <2>1, RefreshExact
  <2>4. ASSUME NEW org \in Orgs \ {o}, Awaited(org) PROVE Awaited(org)'
    <3>1. PICK y \in Passes : pass[y].pc = "refresh" /\ org \in pass[y].todo
      BY <2>4 DEF Awaited
    <3>2. y = x
      BY <1>1, <2>1, <3>1 DEF Settled, Done, InTurn, OneByOne
    <3>3. pass'[x].pc = "refresh" /\ org \in pass'[x].todo
      BY <1>2, <2>4, <3>1, <3>2, Moves
    <3>. QED  BY <3>3 DEF Awaited
  <2>. QED  BY <2>1, <2>2, <2>3, <2>4 DEF Settled
<1>. QED  BY <1>1, <1>2, <1>3, PassSettled

LEMMA FailSettled == ASSUME IInv, Settled, NEW x \in Passes, Fail(x) PROVE Settled'
<1>1. pass[x].pc # "idle" /\ Fault /\ End(x) /\ UNCHANGED <<clock, seen>>
  BY DEF Fail
<1>. QED  BY <1>1, NotDone, EndInTurn, PassSettled

LEMMA NextSettled == IInv /\ Shown /\ Settled /\ [Next]_vars => Settled'
<1>. SUFFICES ASSUME IInv, Shown, Settled, [Next]_vars PROVE Settled'
  OBVIOUS
<1>1. ASSUME NEW x \in Passes, Step(x) \/ Fail(x) PROVE Settled'
  BY <1>1, BeginSettled, ReadSettled, RecordSettled, CheckSettled, ReconcileSettled, MarkSettled,
     RefreshSettled, FailSettled DEF Step
<1>2. CASE UNCHANGED vars
  <2>1. Live' = Live /\ UNCHANGED <<clock, events, stored, periods, lastFull, pass, seen, lock>>
    BY <1>2 DEF vars, Live
  <2>. QED  BY <2>1, BesideSettled
<1>. QED  BY <1>1, <1>2, AroundSettled DEF Next

(* Counts converge: when no event comes or goes any more, a full pass that ends leaves every
   org's period stamped with exactly what ClickHouse has of its live projects and what was
   kept of the others, whatever was missed, counted twice or left over before.           *)
THEOREM UsageIsExact == Spec => []PeriodsAreExact
<1>1. Spec => []Shown
  BY InitShown, NextShown, UsageInStep, PTL DEF Spec
<1>2. Spec => []Settled
  BY <1>1, InitSettled, NextSettled, UsageInStep, PTL DEF Spec
<1>3. Settled => PeriodsAreExact
  <2>. SUFFICES ASSUME Settled, clock = Horizon, lastFull = Horizon, "unlocked" \notin seen,
                       \A x \in Passes : pass[x].pc = "idle", NEW o \in Orgs
                PROVE  LET s == PeriodFor(o, clock) IN
                         /\ periods[o][s].at = clock
                         /\ periods[o][s].total =
                              Total([p \in Projects |-> IF p \in Live THEN events[p] ELSE stored[p]],
                                    OrgCells(o, PeriodDays(o, s)))
    BY DEF PeriodsAreExact
  <2>1. Exact(o)
    BY DEF Settled, Done, Awaited
  <2>. QED  BY <2>1 DEF Exact, Kept
<1>. QED  BY <1>2, <1>3, PTL

(* Every state shown: well typed, with fresh totals that vouch for what they say, exact once
   the counts have settled.                                                              *)
THEOREM UsageShowsWhatIs == Spec => []Inv
<1>1. TypeOK /\ FreshMeansCounted /\ PeriodsAreExact => Inv
  BY DEF Inv
<1>. QED  BY <1>1, UsageTypes, UsageFreshMeansCounted, UsageIsExact, PTL
===============================================================================
