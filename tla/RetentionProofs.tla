--------------------------- MODULE RetentionProofs ---------------------------
(* What the retention pass promises, for any lengths, waits and months, and any number
   of changes beside it.                                                            *)
EXTENDS Retention, WellFoundedInduction, TLAPS

PassState ==
  [pc : {"entitlement", "subscription", "record", "history", "store", "unfinished", "count",
         "queue"},
   now : Days, cur : State, config : [billing : BOOLEAN, enabled : BOOLEAN],
   override : Overrides \cup {0}, days : Lengths, paying : BOOLEAN, lapsed : BOOLEAN,
   cut : Days \cup {None}]

Typed ==
  /\ TypeOK
  /\ pass = Idle \/ (pass \in PassState /\ Start <= pass.now)
  /\ cmd = NoCommand \/ cmd \in [pc : {"update"}, now : Days]

(* A pass that has not yet stored what it makes of the state it read. *)
Deciding == pass # Idle /\ pass.pc \in {"entitlement", "subscription", "record", "history", "store"}
Decided == pass # Idle /\ pass.pc \in {"record", "history", "store"}

(* Only a shorter length waits, and only one that waits is expired. *)
Shaped(s) ==
  /\ s.pending = 0 => s.since = None
  /\ s.since = None => ~s.expired
  /\ s.pending # 0 => ~keeps(s.pending, s.days)

(* What the pass read is what is stored, but for an expire that landed meanwhile. *)
Current ==
  Deciding =>
    \/ state = pass.cur
    \/ /\ state.days = pass.cur.days /\ state.pending = pass.cur.pending
       /\ pass.cur.pending # 0 /\ pass.cur.since = None /\ asked

(* The org pays, or did so last: what a pass then makes of it. *)
Paying ==
  /\ ~asked => org.override = 0 /\ config.billing /\ org.paid
  /\ ~asked => /\ keeps(state.days, PaidDays)
               /\ state.pending # 0 /\ state.since # None => keeps(state.pending, PaidDays)
  /\ ~asked /\ Deciding => pass.config.billing
  /\ ~asked /\ Deciding /\ pass.pc # "entitlement" => pass.override = 0
  /\ Decided /\ pass.paying => org.paid
  /\ Decided /\ pass.paying /\ pass.override = 0 => pass.days = PaidDays
  /\ ~asked /\ Decided => pass.days = IF pass.paying THEN PaidDays ELSE FreeDays
  /\ ~asked /\ pass # Idle /\ pass.pc = "store" /\ drops(pass.cur, pass.days) /\ ~pass.paying =>
       pass.lapsed

(* The day that the lengths of the wait before it count for. *)
Today == IF pass = Idle THEN clock ELSE pass.now

(* Every length resolved within the wait is kept, and the one that waits is all that
   was resolved since it began to.                                                 *)
Noticed ==
  /\ \A e \in seen : e.day <= Today
  /\ \A e \in seen : e.day > Today - Wait => keeps(state.days, e.days)
  /\ state.pending # 0 /\ state.since # None =>
       \A e \in seen : e.day > state.since => e.days = state.pending

(* The cut of a pass is that of the length in force. *)
Cutting ==
  pass # Idle /\ pass.pc \in {"unfinished", "count", "queue"} =>
    pass.cut # None /\ pass.cut = cut(Months, pass.now, state.days)

IInv == Typed /\ Shaped(state) /\ Current /\ Paying /\ Noticed /\ Cutting
-----------------------------------------------------------------------------
(* Days and lengths are natural numbers. *)
LEMMA Numbers ==
  /\ Days \subseteq Nat /\ Lengths \subseteq Nat /\ None \notin Days /\ None \notin Lengths
  /\ FreeDays \in Lengths /\ PaidDays \in Lengths /\ DefaultDays \in Lengths /\ 0 \in Lengths
  /\ FreeDays # 0 /\ PaidDays # 0 /\ Wait \in Nat \ {0} /\ Start \in Nat /\ Horizon \in Nat
  /\ Overrides \subseteq Lengths /\ None \notin Int
<1>1. /\ FreeDays \in Nat \ {0} /\ PaidDays \in Nat \ {0} /\ DefaultDays \in Nat
      /\ Overrides \subseteq Nat \ {0} /\ Wait \in Nat \ {0} /\ Start \in Nat
      /\ Horizon \in Nat /\ None \notin Int
  BY RetentionAssumption
<1>2. Days \subseteq Nat
  BY <1>1 DEF Days
<1>3. Lengths \subseteq Nat
  BY <1>1 DEF Lengths
<1>4. None \notin Days /\ None \notin Lengths
  <2>1. None \notin Nat
    BY <1>1
  <2>. QED  BY <2>1, <1>2, <1>3
<1>. QED  BY <1>1, <1>2, <1>3, <1>4 DEF Lengths

(* Of two lengths one keeps what the other does. *)
LEMMA Keeping ==
  ASSUME NEW a \in Nat, NEW b \in Nat, NEW c \in Nat
  PROVE  /\ keeps(a, a) /\ (keeps(a, b) \/ keeps(b, a))
         /\ keeps(a, b) /\ keeps(b, c) => keeps(a, c)
BY DEF keeps

(* A length is one of the known ones. *)
LEMMA ResolveOK ==
  ASSUME NEW override \in Overrides \cup {0}, NEW live \in BOOLEAN, NEW billing \in BOOLEAN
  PROVE  /\ Resolve(override, live, billing) \in Lengths
         /\ billing /\ override = 0 =>
              Resolve(override, live, billing) = IF live THEN PaidDays ELSE FreeDays
<1>1. override \in Nat /\ override \in Lengths
  BY Numbers
<1>2. CASE override > 0
  BY <1>1, <1>2 DEF Resolve
<1>3. CASE override = 0
  BY <1>1, <1>3, Numbers DEF Resolve
<1>. QED  BY <1>1, <1>2, <1>3

(* What nextState makes of a state: a length that applies, one that begins to wait, one
   that has waited, and no change.                                                     *)
Applies(s, days, next) == next = [NoState EXCEPT !.days = days]
Begins(s, days, lapsed, now, next) ==
  /\ drops(s, days)
  /\ next = [NoState EXCEPT !.days = s.days, !.pending = days,
                            !.since = IF lapsed THEN None ELSE now]
Waits(s, days) == ~keeps(days, s.days) /\ days = s.pending
Over(s, now) == s.since # None /\ now - s.since >= Wait

LEMMA NextCases ==
  ASSUME NEW s, NEW days, NEW lapsed, NEW now
  PROVE  LET next == nextState(s, days, lapsed, now)
         IN  \/ keeps(days, s.days) /\ Applies(s, days, next)
             \/ Begins(s, days, lapsed, now, next)
             \/ Waits(s, days) /\ Over(s, now) /\ Applies(s, days, next)
             \/ Waits(s, days) /\ ~Over(s, now) /\ next = s
<1>1. CASE keeps(days, s.days)
  <2>1. ~drops(s, days)
    BY <1>1 DEF drops
  <2>2. nextState(s, days, lapsed, now) = [NoState EXCEPT !.days = days]
    BY <1>1, <2>1 DEF nextState
  <2>. QED  BY <1>1, <2>2 DEF Applies
<1>2. CASE drops(s, days)
  <2>1. ~keeps(days, s.days)
    BY <1>2 DEF drops
  <2>. DEFINE begun == [NoState EXCEPT !.days = s.days, !.pending = days,
                                       !.since = IF lapsed THEN None ELSE now]
  <2>2. nextState(s, days, lapsed, now) =
          CASE keeps(days, s.days) -> [NoState EXCEPT !.days = days]
            [] drops(s, days) -> begun
            [] ~keeps(days, s.days) /\ ~drops(s, days) ->
                 IF s.since # None /\ now - s.since >= Wait THEN [NoState EXCEPT !.days = days] ELSE s
    BY DEF nextState
  <2>. HIDE DEF begun
  <2>3. nextState(s, days, lapsed, now) = begun
    BY <1>2, <2>1, <2>2
  <2>. QED  BY <1>2, <2>3 DEF Begins, begun
<1>3. CASE ~keeps(days, s.days) /\ ~drops(s, days)
  <2>1. Waits(s, days)
    BY <1>3 DEF drops, Waits
  <2>2. nextState(s, days, lapsed, now) = IF Over(s, now) THEN [NoState EXCEPT !.days = days] ELSE s
    BY <1>3 DEF nextState, Over
  <2>. QED  BY <2>1, <2>2 DEF Applies
<1>. QED  BY <1>1, <1>2, <1>3

(* The fields of the two new states. *)
LEMMA NewStates ==
  ASSUME NEW s \in State, NEW days \in Lengths, NEW lapsed \in BOOLEAN, NEW now \in Days, NEW next
  PROVE  /\ Applies(s, days, next) =>
              /\ next \in State /\ next.days = days /\ next.pending = 0
              /\ next.since = None /\ ~next.expired
         /\ Begins(s, days, lapsed, now, next) =>
              /\ next \in State /\ next.days = s.days /\ next.pending = days /\ ~next.expired
              /\ ~keeps(days, s.days) /\ days # s.pending
              /\ next.since = IF lapsed THEN None ELSE now
<1>1. Applies(s, days, next) =>
        /\ next \in State /\ next.days = days /\ next.pending = 0
        /\ next.since = None /\ ~next.expired
  BY Numbers DEF Applies, NoState, State
<1>2. ASSUME Begins(s, days, lapsed, now, next)
      PROVE  /\ next \in State /\ next.days = s.days /\ next.pending = days /\ ~next.expired
             /\ ~keeps(days, s.days) /\ days # s.pending
             /\ next.since = IF lapsed THEN None ELSE now
  <2>. DEFINE since == IF lapsed THEN None ELSE now
  <2>1. since \in Days \cup {None} /\ s.days \in Lengths
    BY DEF State
  <2>2. next = [NoState EXCEPT !.days = s.days, !.pending = days, !.since = since]
    BY <1>2 DEF Begins
  <2>. HIDE DEF since
  <2>3. next = [days |-> s.days, pending |-> days, since |-> since, expired |-> FALSE]
    BY <2>2 DEF NoState
  <2>4. next \in State /\ next.days = s.days /\ next.pending = days /\ ~next.expired /\ next.since = since
    BY <2>1, <2>3 DEF State
  <2>. QED  BY <1>2, <2>4 DEF Begins, drops, since
<1>. QED  BY <1>1, <1>2
(* The day that counts is the clock's, or the one before it. *)
LEMMA TodayOK == Typed => Today \in Nat /\ Today <= clock /\ clock <= Today + 1
<1> SUFFICES ASSUME Typed PROVE Today \in Nat /\ Today <= clock /\ clock <= Today + 1
  OBVIOUS
<1>1. clock \in Nat
  BY Numbers DEF Typed, TypeOK
<1>2. CASE pass = Idle
  BY <1>1, <1>2 DEF Today
<1>3. CASE pass # Idle
  <2>1. pass.now \in Nat /\ pass.now \in {clock - 1, clock}
    BY <1>3, Numbers DEF Typed, TypeOK, PassState
  <2>. QED  BY <1>1, <1>3, <2>1 DEF Today
<1>. QED  BY <1>2, <1>3
-----------------------------------------------------------------------------
(* The steps beside the pass. *)

(* A step that leaves the pass, the state and the day must only fit its org. *)
LEMMA Beside ==
  ASSUME IInv, UNCHANGED <<clock, state, pass, seen>>, asked => asked', Typed', Paying'
  PROVE  IInv'
<1>1. Shaped(state)' /\ Current'
  BY DEF IInv, Shaped, Current, Deciding
<1>2. Noticed' /\ Cutting'
  BY DEF IInv, Noticed, Cutting, Today
<1>. QED  BY <1>1, <1>2 DEF IInv

(* One more of the bounded changes. *)
LEMMA ChangesOK == TypeOK /\ Changes => changes' \in 0 .. MaxChanges
BY RetentionAssumption DEF TypeOK, Changes

(* A day goes by: the lengths older than the wait count no more. *)
LEMMA TickKeeps == IInv /\ Tick => IInv'
<1> SUFFICES ASSUME IInv, Tick PROVE IInv'
  OBVIOUS
<1>1. /\ clock < Horizon /\ (pass # Idle => pass.now = clock) /\ cmd = NoCommand
      /\ clock' = clock + 1 /\ passed' = FALSE /\ seen' \subseteq seen
      /\ UNCHANGED <<world, state, cmd, table, pass, asked>>
      /\ TypeOK
  BY DEF Tick, IInv, Typed
<1>2. clock \in Nat /\ clock' \in Start .. Horizon /\ clock' \in Nat
  BY <1>1, Numbers DEF TypeOK
<1>3. TypeOK'
  <2>1. cmd' = NoCommand
    BY <1>1
  <2>2. pass' # Idle => pass'.now \in {clock' - 1, clock'} /\ pass'.cur \in State /\ pass'.days \in Lengths
    BY <1>1, <1>2 DEF TypeOK
  <2>. QED  BY <1>1, <1>2, <2>1, <2>2 DEF TypeOK, world
<1>4. Typed'
  BY <1>1, <1>3 DEF IInv, Typed
<1>5. Paying'
  BY <1>1 DEF IInv, Paying, world, Deciding, Decided
<1>6. Shaped(state)' /\ Current' /\ Cutting'
  BY <1>1 DEF IInv, Shaped, Current, Cutting, Deciding
<1>7. Noticed'
  <2>1. Today \in Nat /\ Today' \in Nat /\ Today <= Today'
    BY <1>1, <1>2 DEF Today
  <2>2. \A e \in seen' : e \in seen /\ e.day \in Nat
    BY <1>1, Numbers DEF TypeOK
  <2>. QED  BY <1>1, <2>1, <2>2, Numbers DEF IInv, Noticed
<1>. QED  BY <1>4, <1>5, <1>6, <1>7 DEF IInv

(* A subscription that goes live has been paid for, and one that was stays so. *)
LEMMA PaysKeeps == IInv /\ Pays => IInv'
<1> SUFFICES ASSUME IInv, Pays PROVE IInv'
  OBVIOUS
<1>1. PICK live \in BOOLEAN, begun \in BOOLEAN :
        org' = [org EXCEPT !.live = live, !.paid = @ \/ live, !.begun = begun]
  BY DEF Pays
<1>. /\ Changes /\ TypeOK
     /\ UNCHANGED <<clock, config, state, cmd, table, pass, passed, asked, seen>>
  BY DEF Pays, IInv, Typed, history
<1>2. /\ org' \in [override : Overrides \cup {0}, live : BOOLEAN, paid : BOOLEAN, begun : BOOLEAN]
      /\ (org.paid => org'.paid) /\ (org'.live => org'.paid) /\ org'.override = org.override
  BY <1>1, Zenon DEF TypeOK
<1>3. Typed'
  BY <1>1, <1>2, ChangesOK DEF IInv, Typed, TypeOK
<1>4. Paying'
  BY <1>1, <1>2 DEF IInv, Paying, Deciding, Decided
<1>. QED  BY <1>1, <1>3, <1>4, Beside

(* An operator's own length is asked for. *)
LEMMA SetOverrideKeeps == IInv /\ SetOverride => IInv'
<1> SUFFICES ASSUME IInv, SetOverride PROVE IInv'
  OBVIOUS
<1>1. PICK days \in Overrides \cup {0} : org' = [org EXCEPT !.override = days]
  BY DEF SetOverride
<1>2. /\ Changes /\ TypeOK /\ asked' = TRUE
      /\ UNCHANGED <<clock, config, state, cmd, table, pass, passed, seen>>
  BY DEF SetOverride, IInv, Typed
<1>3. /\ org' \in [override : Overrides \cup {0}, live : BOOLEAN, paid : BOOLEAN, begun : BOOLEAN]
      /\ (org'.paid <=> org.paid) /\ (org'.live <=> org.live)
  BY <1>1, <1>2 DEF TypeOK
<1>4. Typed'
  BY <1>2, <1>3, ChangesOK DEF IInv, Typed, TypeOK
<1>5. Paying'
  BY <1>2, <1>3 DEF IInv, Paying, Deciding, Decided
<1>. QED  BY <1>2, <1>4, <1>5, Beside

(* So is another billing switch. *)
LEMMA SwitchBillingKeeps == IInv /\ SwitchBilling => IInv'
<1> SUFFICES ASSUME IInv, SwitchBilling PROVE IInv'
  OBVIOUS
<1>1. /\ config' = [config EXCEPT !.billing = ~@] /\ Changes /\ TypeOK /\ asked' = TRUE
      /\ UNCHANGED <<clock, org, state, cmd, table, pass, passed, seen>>
  BY DEF SwitchBilling, IInv, Typed
<1>2. config' \in [billing : BOOLEAN, enabled : BOOLEAN]
  BY <1>1 DEF TypeOK
<1>3. Typed'
  BY <1>1, <1>2, ChangesOK DEF IInv, Typed, TypeOK
<1>4. Paying'
  BY <1>1 DEF IInv, Paying, Deciding, Decided
<1>. QED  BY <1>1, <1>3, <1>4, Beside

(* The switch on the deletes concerns no length. *)
LEMMA SwitchDeletesKeeps == IInv /\ SwitchDeletes => IInv'
<1> SUFFICES ASSUME IInv, SwitchDeletes PROVE IInv'
  OBVIOUS
<1>1. /\ config' = [config EXCEPT !.enabled = ~@] /\ Changes /\ TypeOK
      /\ UNCHANGED <<clock, org, state, cmd, table, pass, passed, asked, seen>>
  BY DEF SwitchDeletes, IInv, Typed, history
<1>2. /\ config' \in [billing : BOOLEAN, enabled : BOOLEAN]
      /\ config'.billing <=> config.billing
  BY <1>1 DEF TypeOK
<1>3. Typed'
  BY <1>1, <1>2, ChangesOK DEF IInv, Typed, TypeOK
<1>4. Paying'
  BY <1>1, <1>2 DEF IInv, Paying, Deciding, Decided
<1>. QED  BY <1>1, <1>3, <1>4, Beside

(* Neither does what happens to the table. *)
LEMMA TableStep ==
  ASSUME IInv, UNCHANGED <<clock, org, config, state, cmd, pass, passed, asked, seen>>,
         changes' \in 0 .. MaxChanges,
         table' \in [oldest : Days, late : Days \cup {None}, queued : Days \cup {None}, other : BOOLEAN]
  PROVE  IInv'
<1>1. Typed'
  BY DEF IInv, Typed, TypeOK
<1>2. Paying'
  BY DEF IInv, Paying, Deciding, Decided
<1>. QED  BY <1>1, <1>2, Beside

(* A late event is written. *)
LEMMA WriteKeeps == IInv /\ Write => IInv'
<1> SUFFICES ASSUME IInv, Write PROVE IInv'
  OBVIOUS
<1>1. /\ Changes /\ TypeOK
      /\ UNCHANGED <<clock, org, config, state, cmd, pass, passed, asked, seen>>
  BY DEF Write, IInv, Typed, history
<1>2. PICK day \in Days :
        table' = IF table.queued = None THEN [table EXCEPT !.oldest = day]
                 ELSE [table EXCEPT !.late = day]
  BY DEF Write
<1>3. table' \in [oldest : Days, late : Days \cup {None}, queued : Days \cup {None}, other : BOOLEAN]
  BY <1>1, <1>2 DEF TypeOK
<1>. QED  BY <1>1, <1>3, ChangesOK, TableStep

(* Max and Min of a set that has a greatest and a least element. *)
LEMMA MaxOf ==
  ASSUME NEW S \in SUBSET Int, \E m \in S : \A y \in S : m >= y
  PROVE  Max(S) \in S /\ \A y \in S : Max(S) >= y
BY DEF Max

LEMMA MinOf ==
  ASSUME NEW S \in SUBSET Int, \E m \in S : \A y \in S : m <= y
  PROVE  Min(S) \in S /\ \A y \in S : Min(S) <= y
BY DEF Min

(* The oldest row after a delete is a day. *)
LEMMA OldestOK ==
  ASSUME NEW a \in Days, NEW b \in Days, NEW c \in Days \cup {None}
  PROVE  Min({Max({a, b})} \cup ({c} \ {None})) \in Days
<1>1. a \in Nat /\ b \in Nat /\ Days \subseteq Nat
  BY Numbers
<1>2. Max({a, b}) \in {a, b}
  <2>1. {a, b} \in SUBSET Int /\ \E m \in {a, b} : \A y \in {a, b} : m >= y
    BY <1>1
  <2>. QED  BY <2>1, MaxOf
<1>. DEFINE d == Max({a, b})
            S == {d} \cup ({c} \ {None})
<1>3. d \in Days /\ d \in Nat
  BY <1>1, <1>2
<1>. HIDE DEF d
<1>4. CASE c = None
  <2>1. S = {d}
    BY <1>4
  <2>2. S \in SUBSET Int /\ \E m \in S : \A y \in S : m <= y
    BY <1>3, <2>1
  <2>3. Min(S) \in S
    BY <2>2, MinOf
  <2>. QED  BY <1>3, <2>1, <2>3 DEF d
<1>5. CASE c # None
  <2>1. c \in Days /\ c \in Nat /\ S = {d, c}
    BY <1>1, <1>5
  <2>2. S \in SUBSET Int /\ \E m \in S : \A y \in S : m <= y
    BY <1>3, <2>1
  <2>3. Min(S) \in S
    BY <2>2, MinOf
  <2>. QED  BY <1>3, <2>1, <2>3 DEF d
<1>. QED  BY <1>4, <1>5

(* ClickHouse applies a delete. *)
LEMMA ApplyKeeps == IInv /\ Apply => IInv'
<1> SUFFICES ASSUME IInv, Apply PROVE IInv'
  OBVIOUS
<1>. DEFINE oldest == Min({Max({table.oldest, table.queued})} \cup ({table.late} \ {None}))
<1>1. /\ table' = [table EXCEPT !.queued = None, !.late = None, !.oldest = oldest]
      /\ table.queued # None /\ TypeOK
      /\ UNCHANGED <<clock, org, config, changes, state, cmd, pass, passed, asked, seen>>
  BY DEF Apply, IInv, Typed, history, world
<1>2. oldest \in Days
  BY <1>1, OldestOK DEF TypeOK
<1>. HIDE DEF oldest
<1>3. /\ table' \in [oldest : Days, late : Days \cup {None}, queued : Days \cup {None}, other : BOOLEAN]
      /\ changes' \in 0 .. MaxChanges
  BY <1>1, <1>2 DEF TypeOK
<1>. QED  BY <1>1, <1>3, TableStep

(* Another job's delete comes and goes. *)
LEMMA OtherKeeps == IInv /\ (OtherDelete \/ OtherDone) => IInv'
<1> SUFFICES ASSUME IInv, OtherDelete \/ OtherDone PROVE IInv'
  OBVIOUS
<1>1. /\ table' = [table EXCEPT !.other = TRUE] \/ table' = [table EXCEPT !.other = FALSE]
      /\ UNCHANGED <<clock, org, config, state, cmd, pass, passed, asked, seen>>
      /\ TypeOK
  BY DEF OtherDelete, OtherDone, IInv, Typed, history, world
<1>2. changes' \in 0 .. MaxChanges
  BY <1>1, ChangesOK DEF OtherDelete, OtherDone, world, TypeOK
<1>3. table' \in [oldest : Days, late : Days \cup {None}, queued : Days \cup {None}, other : BOOLEAN]
  BY <1>1 DEF TypeOK
<1>. QED  BY <1>1, <1>2, <1>3, TableStep

(* An operator's expire has read. *)
LEMMA ExpireKeeps == IInv /\ Expire => IInv'
<1> SUFFICES ASSUME IInv, Expire PROVE IInv'
  OBVIOUS
<1>1. /\ cmd' = [pc |-> "update", now |-> clock] /\ Changes /\ TypeOK
      /\ UNCHANGED <<clock, org, config, state, table, pass, passed, asked, seen>>
  BY DEF Expire, IInv, Typed, history
<1>2. clock \in Days
  BY <1>1, RetentionAssumption DEF TypeOK, Days
<1>3. cmd' \in [pc : {"update"}, now : Days] /\ cmd'.now = clock'
  BY <1>1, <1>2
<1>4. Typed'
  BY <1>1, <1>3, ChangesOK DEF IInv, Typed, TypeOK
<1>5. Paying'
  BY <1>1 DEF IInv, Paying, Deciding, Decided
<1>. QED  BY <1>1, <1>4, <1>5, Beside

(* The expire starts the wait of a drop that has none; nothing of it was resolved
   after today.                                                                   *)
LEMMA ExpireStateKeeps == IInv /\ ExpireRetentionState => IInv'
<1> SUFFICES ASSUME IInv, ExpireRetentionState PROVE IInv'
  OBVIOUS
<1>1. /\ cmd # NoCommand /\ cmd' = NoCommand /\ TypeOK /\ cmd.now = clock
      /\ UNCHANGED <<clock, org, config, changes, table, pass, passed, seen>>
  BY DEF ExpireRetentionState, IInv, Typed, TypeOK, world
<1>2. clock \in Days /\ clock \in Nat /\ clock # None
  BY <1>1, RetentionAssumption, Numbers DEF TypeOK, Days
<1>3. CASE state.pending # 0 /\ state.since = None
  <2>1. state' = [state EXCEPT !.since = clock, !.expired = TRUE] /\ asked' = TRUE
    BY <1>1, <1>3 DEF ExpireRetentionState
  <2>2. /\ state' \in State /\ state'.days = state.days /\ state'.pending = state.pending
        /\ state'.since = clock /\ state'.expired
    BY <1>1, <1>2, <2>1 DEF TypeOK, State
  <2>3. Typed'
    BY <1>1, <1>3, <2>1, <2>2 DEF IInv, Typed, TypeOK
  <2>4. Shaped(state)' /\ Paying' /\ Cutting'
    BY <1>1, <1>2, <1>3, <2>1, <2>2 DEF IInv, Shaped, Paying, Cutting, Deciding, Decided
  <2>5. Current'
    BY <1>1, <1>3, <2>1, <2>2 DEF IInv, Current, Deciding
  <2>6. Noticed'
    <3>1. Today' = Today /\ Today <= clock /\ Today \in Nat
      BY <1>1, TodayOK DEF Today, IInv
    <3>2. \A e \in seen : e.day \in Nat /\ e.day <= clock
      <4>1. \A e \in seen : e.day \in Nat
        BY <1>1, Numbers DEF TypeOK
      <4>2. \A e \in seen : e.day <= Today
        BY DEF IInv, Noticed
      <4>. QED  BY <1>2, <3>1, <4>1, <4>2
    <3>. QED  BY <1>1, <1>2, <2>2, <3>1, <3>2 DEF IInv, Noticed
  <2>. QED  BY <2>3, <2>4, <2>5, <2>6 DEF IInv
<1>4. CASE ~(state.pending # 0 /\ state.since = None)
  <2>1. UNCHANGED <<state, asked>>
    BY <1>1, <1>4 DEF ExpireRetentionState
  <2>2. Typed'
    BY <1>1, <2>1 DEF IInv, Typed, TypeOK
  <2>3. Paying'
    BY <1>1, <2>1 DEF IInv, Paying, Deciding, Decided
  <2>. QED  BY <1>1, <2>1, <2>2, <2>3, Beside
<1>. QED  BY <1>3, <1>4
-----------------------------------------------------------------------------
(* The steps of the pass. *)

(* No pass is idle, and every day of a pass is one on the clock. *)
LEMMA PassTyped ==
  ASSUME IInv
  PROVE  /\ \A r \in PassState : r # Idle
         /\ pass.pc # "idle" => pass # Idle /\ pass \in PassState /\ Start <= pass.now
         /\ TypeOK /\ clock \in Days /\ clock \in Nat
<1>1. Idle.pc = "idle"
  BY DEF Idle
<1>2. \A r \in PassState : r # Idle
  BY <1>1 DEF PassState
<1>3. TypeOK /\ clock \in Days
  BY RetentionAssumption DEF IInv, Typed, TypeOK, Days
<1>. QED  BY <1>1, <1>2, <1>3, Numbers DEF IInv, Typed

(* A pass that ends leaves the day to the clock. *)
LEMMA EndKeeps ==
  ASSUME IInv, pass' = Idle, passed' \in BOOLEAN,
         UNCHANGED <<clock, world, state, cmd, history>>,
         table' \in [oldest : Days, late : Days \cup {None}, queued : Days \cup {None}, other : BOOLEAN]
  PROVE  IInv'
<1>1. Typed'
  BY DEF IInv, Typed, TypeOK, world, history
<1>2. Shaped(state)' /\ Current' /\ Paying' /\ Cutting'
  BY DEF IInv, Shaped, Current, Paying, Cutting, Deciding, Decided, world, history
<1>3. Noticed'
  <2>1. Today \in Nat /\ clock \in Nat /\ Today <= clock /\ Today' = clock
    BY TodayOK, PassTyped DEF IInv, Today
  <2>2. \A e \in seen : e.day \in Nat
    BY PassTyped, Numbers DEF TypeOK
  <2>. QED  BY <2>1, <2>2, Numbers DEF IInv, Noticed, history
<1>. QED  BY <1>1, <1>2, <1>3 DEF IInv

(* A pass that moves on, on the same day. *)
LEMMA MoveKeeps ==
  ASSUME IInv, pass # Idle, pass' \in PassState, pass'.now = pass.now,
         UNCHANGED <<clock, world, state, cmd, table, passed, history>>,
         Current', Paying', Cutting'
  PROVE  IInv'
<1>1. pass \in PassState /\ pass' # Idle /\ Start <= pass.now
  BY PassTyped DEF IInv, Typed
<1>2. Typed'
  BY <1>1 DEF IInv, Typed, TypeOK, PassState, world, history
<1>3. Shaped(state)'
  BY DEF IInv, Shaped
<1>4. Noticed'
  BY <1>1 DEF IInv, Noticed, Today, history
<1>. QED  BY <1>2, <1>3, <1>4 DEF IInv

(* A pass begins with the state that is stored. *)
LEMMA ListKeeps == IInv /\ ListStates => IInv'
<1> SUFFICES ASSUME IInv, ListStates PROVE IInv'
  OBVIOUS
<1>1. /\ pass = Idle
      /\ pass' = [pc |-> "entitlement", now |-> clock, cur |-> state, config |-> config,
                  override |-> 0, days |-> 0, paying |-> FALSE, lapsed |-> FALSE, cut |-> None]
      /\ UNCHANGED <<clock, org, config, changes, state, cmd, table, passed, asked, seen>>
  BY DEF ListStates, world, history
<1>2. TypeOK /\ clock \in Days /\ Start <= clock
  BY PassTyped, Numbers DEF TypeOK
<1>3. pass' \in PassState
  BY <1>1, <1>2, Numbers DEF TypeOK, PassState
<1>4. pass'.pc = "entitlement" /\ pass'.now = clock /\ pass'.cur = state /\ pass'.config = config
  BY <1>1
<1>5. pass' # Idle
  BY <1>3, PassTyped
<1>. HIDE DEF PassState
<1>6. Typed'
  <2>1. TypeOK'
    BY <1>1, <1>2, <1>3, <1>4 DEF TypeOK, PassState
  <2>. QED  BY <1>1, <1>2, <1>3, <1>4, <2>1 DEF IInv, Typed
<1>7. Shaped(state)' /\ Current' /\ Cutting'
  BY <1>1, <1>4, <1>5 DEF IInv, Shaped, Current, Cutting
<1>8. Paying'
  BY <1>1, <1>4, <1>5 DEF IInv, Paying, Decided
<1>9. Noticed'
  BY <1>1, <1>4, <1>5 DEF IInv, Noticed, Today
<1>. QED  BY <1>6, <1>7, <1>8, <1>9 DEF IInv

(* The org's row is read. *)
LEMMA ReadOverrideKeeps == IInv /\ ReadOverride => IInv'
<1> SUFFICES ASSUME IInv, ReadOverride PROVE IInv'
  OBVIOUS
<1>1. /\ pass.pc = "entitlement" /\ pass \in PassState /\ pass # Idle
      /\ pass' = [pass EXCEPT !.pc = "subscription", !.override = org.override]
      /\ UNCHANGED <<clock, world, state, cmd, table, passed, history>>
  BY PassTyped DEF ReadOverride, At
<1>2. org.override \in Overrides \cup {0}
  BY PassTyped DEF TypeOK
<1>3. /\ pass' \in PassState /\ pass'.pc = "subscription" /\ pass'.override = org.override
      /\ pass'.now = pass.now /\ pass'.cur = pass.cur /\ pass'.config = pass.config
  BY <1>1, <1>2 DEF PassState
<1>4. pass' # Idle
  BY <1>3, PassTyped
<1>5. Current' /\ Cutting'
  BY <1>1, <1>3, <1>4 DEF IInv, Current, Cutting, Deciding, history
<1>6. Paying'
  BY <1>1, <1>3, <1>4 DEF IInv, Paying, Deciding, Decided, world, history
<1>. QED  BY <1>1, <1>3, <1>5, <1>6, MoveKeeps

(* The subscription is read, and with it the length. *)
LEMMA ReadSubscriptionKeeps == IInv /\ ReadSubscription => IInv'
<1> SUFFICES ASSUME IInv, ReadSubscription PROVE IInv'
  OBVIOUS
<1>. DEFINE billing == pass.config.billing
            days == Resolve(pass.override, org.live, billing)
            paying == billing /\ org.live
            to == IF drops(pass.cur, days) /\ billing /\ ~org.live THEN "record" ELSE "store"
<1>1. /\ pass.pc = "subscription" /\ pass \in PassState /\ pass # Idle /\ TypeOK
      /\ UNCHANGED <<clock, world, state, cmd, table, passed, history>>
  BY PassTyped DEF ReadSubscription, At
<1>2. /\ billing \in BOOLEAN /\ org.live \in BOOLEAN /\ pass.override \in Overrides \cup {0}
      /\ (org.live => org.paid)
  BY <1>1 DEF TypeOK, PassState
<1>3. /\ days \in Lengths
      /\ billing /\ pass.override = 0 => days = IF org.live THEN PaidDays ELSE FreeDays
  BY <1>2, ResolveOK
<1>4. pass' = [pass EXCEPT !.days = days, !.paying = paying, !.pc = to]
  BY DEF ReadSubscription
<1>5. paying \in BOOLEAN /\ to \in {"record", "store"}
  BY <1>2
<1>6. /\ paying => org.paid
      /\ paying /\ pass.override = 0 => days = PaidDays
      /\ billing /\ pass.override = 0 => days = IF paying THEN PaidDays ELSE FreeDays
      /\ to = "store" /\ drops(pass.cur, days) /\ billing => paying
  BY <1>2, <1>3
<1>. HIDE DEF days, paying, to
<1>7. /\ pass' \in PassState /\ pass'.pc = to /\ pass'.days = days /\ (pass'.paying <=> paying)
      /\ pass'.override = pass.override
      /\ pass'.now = pass.now /\ pass'.cur = pass.cur /\ pass'.config = pass.config
  BY <1>1, <1>3, <1>4, <1>5 DEF PassState
<1>8. pass' # Idle
  BY <1>7, PassTyped
<1>9. Current' /\ Cutting'
  BY <1>1, <1>5, <1>7, <1>8 DEF IInv, Current, Cutting, Deciding, history
<1>10. Paying'
  <2>1. /\ ~asked => billing /\ pass.override = 0 /\ org.override = 0 /\ config.billing /\ org.paid
        /\ ~asked => /\ keeps(state.days, PaidDays)
                     /\ state.pending # 0 /\ state.since # None => keeps(state.pending, PaidDays)
    BY <1>1 DEF IInv, Paying, Deciding
  <2>. QED  BY <1>1, <1>5, <1>6, <1>7, <2>1 DEF Paying, world, history
<1>. QED  BY <1>1, <1>7, <1>9, <1>10, MoveKeeps

(* The org's own length is read again. *)
LEMMA ReadRecordKeeps == IInv /\ ReadRecord => IInv'
<1> SUFFICES ASSUME IInv, ReadRecord PROVE IInv'
  OBVIOUS
<1>. DEFINE to == IF org.override > 0 THEN "store" ELSE "history"
<1>1. /\ pass.pc = "record" /\ pass \in PassState /\ pass # Idle /\ TypeOK
      /\ pass' = [pass EXCEPT !.pc = to]
      /\ UNCHANGED <<clock, world, state, cmd, table, passed, history>>
  BY PassTyped DEF ReadRecord, At, Goto
<1>2. to \in {"store", "history"} /\ (org.override = 0 => to = "history")
  OBVIOUS
<1>. HIDE DEF to
<1>3. /\ pass' \in PassState /\ pass'.pc = to /\ pass'.days = pass.days
      /\ pass'.paying = pass.paying /\ pass'.lapsed = pass.lapsed
      /\ pass'.override = pass.override
      /\ pass'.now = pass.now /\ pass'.cur = pass.cur /\ pass'.config = pass.config
  BY <1>1, <1>2 DEF PassState
<1>4. pass' # Idle
  BY <1>3, PassTyped
<1>5. Current' /\ Cutting'
  BY <1>1, <1>2, <1>3, <1>4 DEF IInv, Current, Cutting, Deciding, history
<1>6. Paying'
  BY <1>1, <1>2, <1>3, <1>4 DEF IInv, Paying, Deciding, Decided, world, history
<1>. QED  BY <1>1, <1>3, <1>5, <1>6, MoveKeeps

(* The subscription's history is read: an org that was seen paying has one. *)
LEMMA ReadHistoryKeeps == IInv /\ ReadHistory => IInv'
<1> SUFFICES ASSUME IInv, ReadHistory PROVE IInv'
  OBVIOUS
<1>1. /\ pass.pc = "history" /\ pass \in PassState /\ pass # Idle /\ org.paid \in BOOLEAN
      /\ org.begun \in BOOLEAN
      /\ pass' = [pass EXCEPT !.pc = "store", !.lapsed = org.paid \/ org.begun]
      /\ UNCHANGED <<clock, world, state, cmd, table, passed, history>>
  BY PassTyped DEF ReadHistory, At, TypeOK
<1>2. /\ pass' \in PassState /\ pass'.pc = "store" /\ pass'.days = pass.days
      /\ pass'.paying = pass.paying /\ (org.paid => pass'.lapsed)
      /\ pass'.override = pass.override
      /\ pass'.now = pass.now /\ pass'.cur = pass.cur /\ pass'.config = pass.config
  BY <1>1 DEF PassState
<1>3. pass' # Idle
  BY <1>2, PassTyped
<1>4. Current' /\ Cutting'
  BY <1>1, <1>2, <1>3 DEF IInv, Current, Cutting, Deciding, history
<1>5. Paying'
  BY <1>1, <1>2, <1>3 DEF IInv, Paying, Deciding, Decided, world, history
<1>. QED  BY <1>1, <1>2, <1>4, <1>5, MoveKeeps

(* A set of natural numbers has a least one. *)
LEMMA Least ==
  ASSUME NEW T, T \subseteq Nat, T # {}
  PROVE  \E n \in T : \A m \in T : n <= m
<1>1. PICK n \in T : \A m \in T : <<m, n>> \notin OpToRel(<, Nat)
  BY NatLessThanWellFounded, WFMin
<1>2. \A m \in T : ~(m < n)
  BY <1>1 DEF OpToRel
<1>. QED  BY <1>2

(* A set of natural numbers up to a bound has a greatest one. *)
LEMMA Greatest ==
  ASSUME NEW T, NEW b \in Nat, T \subseteq 0 .. b, T # {}
  PROVE  \E n \in T : \A m \in T : m <= n
<1>. DEFINE U == {k \in Nat : b - k \in T}
<1>1. U \subseteq Nat /\ U # {}
  <2>1. PICK m \in T : TRUE
    OBVIOUS
  <2>2. b - m \in Nat /\ b - (b - m) = m
    OBVIOUS
  <2>. QED
    BY <2>1, <2>2
<1>2. PICK u \in U : \A v \in U : u <= v
  BY <1>1, Least
<1>3. \A m \in T : b - m \in U
  <2>. SUFFICES ASSUME NEW m \in T PROVE b - m \in Nat /\ b - (b - m) = m
    OBVIOUS
  <2>. QED
    OBVIOUS
<1>4. b - u \in T /\ \A m \in T : m <= b - u
  BY <1>2, <1>3
<1>. QED
  BY <1>4

(* The first of the month that holds a day, where there is one. *)
LEMMA FirstOfMonth ==
  ASSUME NEW months \in SUBSET Nat, NEW day \in Nat, NEW m0 \in months, m0 <= day
  PROVE  /\ firstOfMonth(months, day) \in months /\ firstOfMonth(months, day) <= day
         /\ \A m \in months : m <= day => m <= firstOfMonth(months, day)
<1>. DEFINE S == {m \in months : m <= day}
<1>1. S \subseteq 0 .. day /\ m0 \in S
  <2> SUFFICES ASSUME NEW m \in months, m <= day PROVE m \in 0 .. day
    OBVIOUS
  <2>1. m \in Nat
    OBVIOUS
  <2>. QED  BY <2>1
<1>2. \E m \in S : \A y \in S : y <= m
  BY <1>1, Greatest
<1>3. S \in SUBSET Int /\ \E m \in S : \A y \in S : m >= y
  BY <1>1, <1>2
<1>. HIDE DEF S
<1>4. Max(S) \in S /\ \A y \in S : Max(S) >= y
  BY <1>3, MaxOf
<1>5. firstOfMonth(months, day) = Max(S)
  BY DEF firstOfMonth, S
<1>6. \A y \in S : y <= Max(S)
  BY <1>3, <1>4
<1>. QED  BY <1>4, <1>5, <1>6 DEF S

(* The first of the month before it, where there is one. *)
LEMMA PreviousMonth ==
  ASSUME NEW months \in SUBSET Nat, NEW day \in Nat, NEW m0 \in months, NEW m1 \in months,
         m0 < m1, m1 <= day
  PROVE  /\ previousMonth(months, day) \in months
         /\ previousMonth(months, day) < firstOfMonth(months, day)
<1>. DEFINE f == firstOfMonth(months, day)
            S == {m \in months : m < f}
<1>1. f \in Nat /\ m1 <= f
  BY FirstOfMonth
<1>2. previousMonth(months, day) = Max(S)
  BY DEF previousMonth
<1>. HIDE DEF f
<1>3. S \subseteq 0 .. f /\ m0 \in S
  <2>1. \A m \in months : m < f => m \in 0 .. f
    <3> SUFFICES ASSUME NEW m \in months, m < f PROVE m \in 0 .. f
      OBVIOUS
    <3>1. m \in Nat
      OBVIOUS
    <3>. QED  BY <1>1, <3>1
  <2>2. m0 \in Nat /\ m1 \in Nat
    OBVIOUS
  <2>3. m0 < f
    BY <1>1, <2>2
  <2>. QED  BY <2>1, <2>3
<1>4. \E m \in S : \A y \in S : y <= m
  BY <1>1, <1>3, Greatest
<1>5. S \in SUBSET Int /\ \E m \in S : \A y \in S : m >= y
  BY <1>1, <1>3, <1>4
<1>. HIDE DEF S
<1>6. Max(S) \in S
  BY <1>5, MaxOf
<1>. QED  BY <1>2, <1>6 DEF S, f

(* A cut is at the first of a month, before now less the length, and never later than
   the first of the month before this one.                                          *)
LEMMA CutBounds ==
  ASSUME NEW months \in SUBSET Nat, NEW now \in Nat, NEW days \in Nat,
         0 \in months, NEW m1 \in months, 0 < m1, m1 <= now
  PROVE  LET at == cut(months, now, days)
         IN  \/ at = None /\ (days = 0 \/ days > now)
             \/ /\ days # 0 /\ days <= now /\ at \in Nat
                /\ at <= now - days /\ at <= previousMonth(months, now)
<1>1. CASE days = 0 \/ days > now
  BY <1>1 DEF cut
<1>2. CASE ~(days = 0 \/ days > now)
  <2>. DEFINE a == firstOfMonth(months, now - days)
              b == previousMonth(months, now)
  <2>1. now - days \in Nat /\ 0 <= now - days
    BY <1>2
  <2>2. a \in Nat /\ a <= now - days
    BY <2>1, FirstOfMonth
  <2>3. b \in Nat
    BY PreviousMonth
  <2>4. cut(months, now, days) = Min({a, b})
    BY <1>2 DEF cut
  <2>. HIDE DEF a, b
  <2>5. {a, b} \in SUBSET Int /\ \E m \in {a, b} : \A y \in {a, b} : m <= y
    BY <2>2, <2>3
  <2>6. Min({a, b}) \in {a, b} /\ Min({a, b}) <= a /\ Min({a, b}) <= b
    BY <2>5, MinOf
  <2>. QED  BY <1>2, <2>1, <2>2, <2>3, <2>4, <2>6 DEF b
<1>. QED  BY <1>1, <1>2

(* The same for the pass's own months. *)
LEMMA CutOK ==
  ASSUME NEW now \in Days, Start <= now, NEW days \in Lengths
  PROVE  LET at == cut(Months, now, days)
         IN  at # None => days # 0 /\ at \in Days /\ at <= now - days
<1>1. now \in Nat /\ now <= Horizon /\ days \in Nat /\ Horizon \in Nat
  BY Numbers DEF Days
<1>2. PICK m1 \in Months : 0 < m1 /\ m1 <= now
  BY <1>1, RetentionAssumption
<1>3. Months \in SUBSET Nat /\ 0 \in Months
  BY RetentionAssumption
<1>. DEFINE at == cut(Months, now, days)
<1>4. \/ at = None /\ (days = 0 \/ days > now)
      \/ days # 0 /\ days <= now /\ at \in Nat /\ at <= now - days
  BY <1>1, <1>2, <1>3, CutBounds
<1>. HIDE DEF at
<1>5. at # None => days # 0 /\ at \in Days /\ at <= now - days
  BY <1>1, <1>4 DEF Days
<1>. QED  BY <1>5 DEF at

(* What Store does to the stored state: a length applies, one begins to wait, one that
   waited is over, or nothing changes.  An expire that landed meanwhile stays.        *)
LEMMA StoreCases ==
  ASSUME IInv, Store
  PROVE  LET days == pass.days IN
         /\ pass.pc = "store" /\ pass \in PassState /\ pass # Idle
         /\ state' \in State /\ Shaped(state)'
         /\ state'.days = nextState(pass.cur, days, pass.lapsed, pass.now).days
         /\ \/ /\ keeps(days, state.days)
               /\ state'.days = days /\ state'.pending = 0 /\ ~state'.expired
            \/ /\ ~keeps(days, state.days) /\ days # state.pending /\ ~state'.expired
               /\ drops(pass.cur, days)
               /\ state'.days = state.days /\ state'.pending = days
               /\ state'.since = IF pass.lapsed THEN None ELSE pass.now
            \/ /\ ~keeps(days, state.days) /\ days = state.pending
               /\ state.since # None /\ pass.now - state.since >= Wait
               /\ state'.days = days /\ state'.pending = 0 /\ ~state'.expired
            \/ /\ ~keeps(days, state.days) /\ days = state.pending /\ state' = state
<1>. DEFINE days == pass.days
            cur == pass.cur
            next == nextState(cur, days, pass.lapsed, pass.now)
<1>1. /\ pass.pc = "store" /\ pass \in PassState /\ pass # Idle /\ TypeOK
      /\ state' = IF next # cur THEN next ELSE state
  BY PassTyped DEF Store, At
<1>2. /\ cur \in State /\ days \in Lengths /\ pass.lapsed \in BOOLEAN /\ pass.now \in Days
      /\ state \in State
  BY <1>1 DEF PassState, TypeOK
<1>3. /\ \/ keeps(days, cur.days) /\ Applies(cur, days, next)
         \/ Begins(cur, days, pass.lapsed, pass.now, next)
         \/ Waits(cur, days) /\ Over(cur, pass.now) /\ Applies(cur, days, next)
         \/ Waits(cur, days) /\ ~Over(cur, pass.now) /\ next = cur
  BY NextCases
<1>4. /\ state.days = cur.days /\ state.pending = cur.pending
      /\ cur.pending = 0 \/ cur.since # None => state = cur
      /\ Shaped(state)
  BY <1>1 DEF IInv, Current, Deciding
<1>5. days \in Nat /\ cur.days \in Nat /\ keeps(days, days) /\ (days = 0 => keeps(days, cur.days))
  <2>1. days \in Nat /\ cur.days \in Nat
    BY <1>2, Numbers DEF State
  <2>. HIDE DEF days, cur
  <2>2. keeps(days, days)
    BY <2>1, Keeping
  <2>. QED  BY <2>1, <2>2 DEF keeps
<1>6. pass.now # None
  BY <1>2, Numbers
<1>. HIDE DEF days, cur, next
<1>7. CASE keeps(days, cur.days) /\ Applies(cur, days, next)
  <2>1. /\ next \in State /\ next.days = days /\ next.pending = 0
        /\ next.since = None /\ ~next.expired
    BY <1>2, <1>7, NewStates
  <2>2. state' = next
    BY <1>1, <1>4, <2>1
  <2>3. Shaped(state)'
    BY <2>1, <2>2 DEF Shaped
  <2>. QED  BY <1>1, <1>4, <1>7, <2>1, <2>2, <2>3 DEF days, cur, next
<1>8. CASE Begins(cur, days, pass.lapsed, pass.now, next)
  <2>1. /\ next \in State /\ next.days = cur.days /\ next.pending = days /\ ~next.expired
        /\ ~keeps(days, cur.days) /\ days # cur.pending
        /\ next.since = IF pass.lapsed THEN None ELSE pass.now
    BY <1>2, <1>8, NewStates
  <2>2. state' = next /\ drops(cur, days)
    BY <1>1, <1>8, <2>1 DEF Begins
  <2>3. Shaped(state)'
    BY <1>5, <2>1, <2>2 DEF Shaped
  <2>. QED  BY <1>1, <1>4, <2>1, <2>2, <2>3 DEF days, cur, next
<1>9. CASE Waits(cur, days) /\ Over(cur, pass.now) /\ Applies(cur, days, next)
  <2>1. /\ next \in State /\ next.days = days /\ next.pending = 0
        /\ next.since = None /\ ~next.expired
    BY <1>2, <1>9, NewStates
  <2>2. ~keeps(days, cur.days) /\ days = cur.pending /\ cur.since # None /\ pass.now - cur.since >= Wait
    BY <1>9 DEF Waits, Over
  <2>3. state' = next /\ state = cur
    BY <1>1, <1>4, <1>5, <2>1, <2>2
  <2>4. Shaped(state)'
    BY <2>1, <2>3 DEF Shaped
  <2>. QED  BY <1>1, <2>1, <2>2, <2>3, <2>4 DEF days, cur, next
<1>10. CASE Waits(cur, days) /\ ~Over(cur, pass.now) /\ next = cur
  <2>1. state' = state /\ next.days = cur.days
    BY <1>1, <1>10
  <2>2. ~keeps(days, cur.days) /\ days = cur.pending
    BY <1>10 DEF Waits
  <2>3. Shaped(state)'
    BY <1>4, <2>1 DEF Shaped
  <2>. QED  BY <1>1, <1>2, <1>4, <2>1, <2>2, <2>3 DEF days, cur, next
<1>. QED  BY <1>3, <1>7, <1>8, <1>9, <1>10

(* The pass stores what it makes of the org. *)
LEMMA StoreKeeps == IInv /\ Store => IInv'
<1> SUFFICES ASSUME IInv, Store PROVE IInv'
  OBVIOUS
<1>. DEFINE days == pass.days
            now == pass.now
            at == cut(Months, now, state'.days)
            entry == [day |-> now, days |-> days]
<1>1. /\ pass.pc = "store" /\ pass \in PassState /\ pass # Idle /\ TypeOK
      /\ Start <= now /\ now \in Days /\ now \in Nat /\ days \in Lengths /\ days \in Nat
      /\ clock \in Nat
  BY PassTyped, StoreCases, Numbers DEF PassState
<1>2. /\ state' \in State /\ Shaped(state)' /\ state.days \in Nat /\ state'.days \in Lengths
      /\ state'.pending \in Nat /\ state.pending \in Nat
      /\ Deciding /\ Decided
  BY <1>1, StoreCases, Numbers DEF TypeOK, State, Deciding, Decided
<1>3. \/ /\ keeps(days, state.days)
         /\ state'.days = days /\ state'.pending = 0
      \/ /\ ~keeps(days, state.days) /\ drops(pass.cur, days)
         /\ state'.days = state.days /\ state'.pending = days
         /\ state'.since = IF pass.lapsed THEN None ELSE now
      \/ /\ ~keeps(days, state.days) /\ days = state.pending
         /\ state.since # None /\ now - state.since >= Wait
         /\ state'.days = days /\ state'.pending = 0
      \/ /\ ~keeps(days, state.days) /\ days = state.pending /\ state' = state
  BY StoreCases
<1>4. at # None => at \in Days
  BY <1>1, <1>2, CutOK
<1>5. /\ UNCHANGED <<clock, org, config, changes, cmd, table>>
      /\ seen' = seen \cup {entry}
      /\ asked' = (asked /\ ~(pass.paying /\ pass.override = 0 /\ org.override = 0 /\ config.billing))
  BY DEF Store, Seen, world
<1>6. \/ at = None /\ pass' = Idle /\ passed' \in BOOLEAN
      \/ at # None /\ pass' = [pass EXCEPT !.pc = "unfinished", !.cut = at] /\ passed' = passed
  <2>1. at = cut(Months, now, nextState(pass.cur, days, pass.lapsed, now).days)
    BY StoreCases
  <2>2. passed \in BOOLEAN
    BY <1>1 DEF TypeOK
  <2>3. \/ at = None /\ End
        \/ at # None /\ pass' = [pass EXCEPT !.pc = "unfinished", !.cut = at] /\ passed' = passed
    BY <2>1 DEF Store
  <2>. QED  BY <2>2, <2>3 DEF End
<1>. HIDE DEF at
<1>7. \/ at = None /\ pass' = Idle
      \/ /\ at # None /\ pass' \in PassState /\ pass' # Idle /\ pass'.pc = "unfinished"
         /\ pass'.cut = at /\ pass'.now = now /\ pass'.cur = pass.cur /\ pass'.days = days
  <2>1. CASE at # None /\ pass' = [pass EXCEPT !.pc = "unfinished", !.cut = at]
    <3>1. /\ pass' \in PassState /\ pass'.pc = "unfinished"
          /\ pass'.cut = at /\ pass'.now = now /\ pass'.cur = pass.cur /\ pass'.days = days
      BY <1>1, <1>4, <2>1 DEF PassState
    <3>. QED  BY <2>1, <3>1, PassTyped
  <2>. QED  BY <1>6, <2>1
<1>8. entry \in [day : Days, days : Lengths] /\ entry.day = now /\ entry.days = days
  BY <1>1
<1>. HIDE DEF days, now, entry
<1>9. Typed'
  <2>1. asked' \in BOOLEAN /\ passed' \in BOOLEAN
    BY <1>1, <1>5, <1>6 DEF TypeOK
  <2>2. state'.pending = 0 => state'.since = None
    BY <1>2 DEF Shaped
  <2>3. seen' \subseteq [day : Days, days : Lengths]
    BY <1>1, <1>5, <1>8 DEF TypeOK
  <2>4. pass' # Idle => pass'.now \in {clock - 1, clock} /\ pass'.cur \in State /\ pass'.days \in Lengths
    BY <1>1, <1>7 DEF TypeOK, now, days
  <2>5. TypeOK'
    BY <1>1, <1>2, <1>5, <2>1, <2>2, <2>3, <2>4 DEF TypeOK
  <2>. QED  BY <1>1, <1>5, <1>7, <2>5 DEF IInv, Typed
<1>10. Current' /\ Cutting'
  BY <1>7 DEF Current, Cutting, Deciding, at
<1>11. ~Deciding' /\ ~Decided' /\ ~(pass' # Idle /\ pass'.pc = "store")
  BY <1>7 DEF Deciding, Decided
<1>12. PaidDays \in Nat /\ FreeDays \in Nat
  BY Numbers
<1>13. Paying'
  <2>1. SUFFICES ASSUME ~asked'
        PROVE  /\ org.override = 0 /\ config.billing /\ org.paid
               /\ keeps(state'.days, PaidDays)
               /\ state'.pending # 0 /\ state'.since # None => keeps(state'.pending, PaidDays)
    BY <1>5, <1>11 DEF Paying
  <2>2. CASE asked
    <3>1. /\ pass.paying /\ pass.override = 0 /\ org.override = 0 /\ config.billing
      BY <1>5, <2>1, <2>2
    <3>2. org.paid /\ days = PaidDays
      BY <1>2, <3>1 DEF IInv, Paying, days
    <3>3. keeps(PaidDays, PaidDays) /\ (~keeps(PaidDays, state.days) => keeps(state.days, PaidDays))
      BY <1>2, <1>12, Keeping
    <3>. QED  BY <1>3, <3>1, <3>2, <3>3
  <2>3. CASE ~asked
    <3>1. /\ org.override = 0 /\ config.billing /\ org.paid
          /\ keeps(state.days, PaidDays)
          /\ state.pending # 0 /\ state.since # None => keeps(state.pending, PaidDays)
          /\ days = IF pass.paying THEN PaidDays ELSE FreeDays
          /\ drops(pass.cur, days) /\ ~pass.paying => pass.lapsed
      BY <1>1, <1>2, <2>3 DEF IInv, Paying, days
    <3>2. /\ keeps(days, state.days) => keeps(days, PaidDays)
          /\ keeps(PaidDays, PaidDays)
      BY <1>1, <1>2, <1>12, <3>1, Keeping DEF days
    <3>3. days = 0 => keeps(days, state.days)
      BY DEF keeps
    <3>4. keeps(state'.days, PaidDays)
      BY <1>3, <3>1, <3>2, <3>3
    <3>5. state'.pending # 0 /\ state'.since # None => keeps(state'.pending, PaidDays)
      BY <1>3, <3>1, <3>2, <3>3
    <3>. QED  BY <3>1, <3>4, <3>5
  <2>. QED  BY <2>2, <2>3
<1>14. Noticed'
  <2>1. /\ Today = now /\ Today' \in Nat /\ now <= Today' /\ Wait \in Nat
    <3>1. Today = now /\ now <= clock
      BY <1>1, TodayOK DEF IInv, Today, now
    <3>. QED  BY <1>1, <1>5, <1>7, <3>1, Numbers DEF Today, now
  <2>2. \A e \in seen : e.day \in Nat /\ e.days \in Nat
    BY <1>1, Numbers DEF TypeOK
  <2>3. /\ \A e \in seen : e.day <= now
        /\ \A e \in seen : e.day > now - Wait => keeps(state.days, e.days)
        /\ state.pending # 0 /\ state.since # None =>
             \A e \in seen : e.day > state.since => e.days = state.pending
    BY <2>1 DEF IInv, Noticed
  <2>4. now \in Nat /\ days \in Nat
    BY <1>1 DEF now, days
  <2>5. keeps(days, days) /\ (~keeps(days, state.days) => keeps(state.days, days))
    BY <1>2, <2>4, Keeping
  <2>6. days = 0 => keeps(days, state.days)
    BY DEF keeps
  <2>7. state.since # None => state.since \in Nat
    BY <1>1, Numbers DEF TypeOK, State
  <2>8. \A e \in seen' : e.day <= Today'
    BY <1>5, <1>8, <2>1, <2>2, <2>3, <2>4
  <2>9. \A e \in seen' : e.day > Today' - Wait => keeps(state'.days, e.days)
    <3> SUFFICES ASSUME NEW e \in seen', e.day > Today' - Wait PROVE keeps(state'.days, e.days)
      OBVIOUS
    <3>1. CASE e = entry
      BY <1>3, <1>8, <2>5, <3>1
    <3>2. CASE e \in seen
      <4>1. e.day > now - Wait
        BY <2>1, <2>2, <2>4, <3>2
      <4>2. keeps(state.days, e.days)
        BY <2>3, <3>2, <4>1
      <4>3. CASE keeps(days, state.days) /\ state'.days = days
        BY <1>2, <2>2, <2>4, <3>2, <4>2, <4>3, Keeping
      <4>4. CASE state'.days = state.days
        BY <4>2, <4>4
      <4>5. CASE /\ ~keeps(days, state.days) /\ days = state.pending
                 /\ state.since # None /\ now - state.since >= Wait
                 /\ state'.days = days
        <5>1. e.day > state.since
          BY <2>1, <2>2, <2>4, <2>7, <3>2, <4>1, <4>5
        <5>2. e.days = days
          BY <2>3, <2>6, <3>2, <4>5, <5>1
        <5>. QED  BY <2>5, <4>5, <5>2
      <4>. QED  BY <1>3, <4>3, <4>4, <4>5
    <3>. QED  BY <1>5, <3>1, <3>2
  <2>10. state'.pending # 0 /\ state'.since # None =>
           \A e \in seen' : e.day > state'.since => e.days = state'.pending
    <3> SUFFICES ASSUME state'.pending # 0, state'.since # None,
                        NEW e \in seen', e.day > state'.since
                 PROVE  e.days = state'.pending
      OBVIOUS
    <3>1. e \in seen \/ e = entry
      BY <1>5
    <3>2. CASE state'.since = now
      BY <1>8, <2>2, <2>3, <2>4, <3>1, <3>2
    <3>3. CASE days = state.pending /\ state' = state
      BY <1>8, <2>3, <3>1, <3>3
    <3>. QED  BY <1>3, <3>2, <3>3
  <2>. QED  BY <2>8, <2>9, <2>10 DEF Noticed
<1>. QED  BY <1>2, <1>9, <1>10, <1>13, <1>14 DEF IInv

(* A pass that looks at its table: it goes on with its cut, or ends. *)
LEMMA LookKeeps ==
  ASSUME IInv, NEW from \in {"unfinished", "count"}, NEW to \in {"count", "queue"}, At(from),
         UNCHANGED <<clock, world, state, cmd, table, history>>,
         \/ End
         \/ Goto(to) /\ UNCHANGED passed
  PROVE  IInv'
<1>1. pass.pc = from /\ pass \in PassState /\ pass # Idle /\ TypeOK
  BY PassTyped DEF At
<1>2. CASE End
  <2>1. passed' \in BOOLEAN
    BY <1>1, <1>2 DEF End, TypeOK
  <2>. QED  BY <1>1, <1>2, <2>1, EndKeeps DEF End, TypeOK
<1>3. CASE Goto(to) /\ UNCHANGED passed
  <2>1. pass' = [pass EXCEPT !.pc = to]
    BY <1>3 DEF Goto
  <2>2. /\ pass' \in PassState /\ pass'.pc = to /\ pass'.cut = pass.cut /\ pass'.now = pass.now
    BY <1>1, <2>1 DEF PassState
  <2>3. pass' # Idle
    BY <2>2, PassTyped
  <2>4. Current' /\ Cutting'
    BY <1>1, <2>2, <2>3 DEF IInv, Current, Cutting, Deciding
  <2>5. Paying'
    BY <1>1, <2>2, <2>3 DEF IInv, Paying, Deciding, Decided, world, history
  <2>. QED  BY <1>1, <1>3, <2>2, <2>4, <2>5, MoveKeeps
<1>. QED  BY <1>2, <1>3

(* A delete is queued up to the cut. *)
LEMMA QueueKeeps == IInv /\ QueueDelete => IInv'
<1> SUFFICES ASSUME IInv, QueueDelete PROVE IInv'
  OBVIOUS
<1>1. /\ pass.pc = "queue" /\ pass \in PassState /\ pass # Idle /\ TypeOK
      /\ table' = [table EXCEPT !.queued = pass.cut] /\ End
      /\ UNCHANGED <<clock, world, state, cmd, history>>
  BY PassTyped DEF QueueDelete, At
<1>2. pass.cut \in Days
  BY <1>1 DEF IInv, Cutting, PassState
<1>3. table' \in [oldest : Days, late : Days \cup {None}, queued : Days \cup {None}, other : BOOLEAN]
  BY <1>1, <1>2 DEF TypeOK
<1>4. pass' = Idle /\ passed' \in BOOLEAN
  BY <1>1 DEF End, TypeOK
<1>. QED  BY <1>1, <1>3, <1>4, EndKeeps

(* A pass that fails leaves what it stored. *)
LEMMA FailKeeps == IInv /\ Fail => IInv'
<1> SUFFICES ASSUME IInv, Fail PROVE IInv'
  OBVIOUS
<1>1. pass' = Idle /\ UNCHANGED <<clock, world, state, cmd, table, passed, history>> /\ TypeOK
  BY PassTyped DEF Fail
<1>2. /\ table' \in [oldest : Days, late : Days \cup {None}, queued : Days \cup {None}, other : BOOLEAN]
      /\ passed' \in BOOLEAN
  BY <1>1 DEF TypeOK
<1>. QED  BY <1>1, <1>2, EndKeeps
-----------------------------------------------------------------------------
(* An org no pass has seen, or one that pays. *)
LEMMA InitOK == Init => IInv
<1> SUFFICES ASSUME Init PROVE IInv
  OBVIOUS
<1>1. /\ clock = Start /\ changes = 0 /\ pass = Idle /\ cmd = NoCommand /\ passed = FALSE /\ seen = {}
      /\ table = [oldest |-> 0, late |-> None, queued |-> None, other |-> FALSE]
      /\ config \in [billing : BOOLEAN, enabled : BOOLEAN]
  BY DEF Init
<1>2. 0 \in Days /\ clock \in Start .. Horizon /\ changes \in 0 .. MaxChanges
  BY <1>1, RetentionAssumption DEF Days
<1>3. PaidDays \in Nat /\ keeps(PaidDays, PaidDays) /\ PaidDays \in Lengths /\ 0 \in Lengths
  BY Numbers, Keeping
<1>4. SUFFICES /\ org \in [override : Overrides \cup {0}, live : BOOLEAN, paid : BOOLEAN, begun : BOOLEAN]
               /\ (org.live => org.paid) /\ asked \in BOOLEAN
               /\ state \in State /\ state.pending = 0 /\ state.since = None /\ ~state.expired
               /\ ~asked => /\ org.override = 0 /\ config.billing /\ org.paid
                            /\ keeps(state.days, PaidDays)
  <2>1. Typed
    BY <1>1, <1>2, <1>4 DEF Typed, TypeOK
  <2>2. Shaped(state) /\ Current /\ Cutting /\ Noticed
    BY <1>1, <1>4 DEF Shaped, Current, Cutting, Noticed, Deciding
  <2>3. Paying
    BY <1>1, <1>4 DEF Paying, Deciding, Decided
  <2>. QED  BY <2>1, <2>2, <2>3 DEF IInv
<1>5. CASE /\ org \in [override : {0}, live : {FALSE}, paid : BOOLEAN, begun : BOOLEAN] /\ state = NoState /\ asked = TRUE
  <2>1. /\ state \in State /\ state.pending = 0 /\ state.since = None /\ ~state.expired
    BY <1>3, <1>5 DEF NoState, State
  <2>2. /\ org \in [override : Overrides \cup {0}, live : BOOLEAN, paid : BOOLEAN, begun : BOOLEAN]
        /\ ~org.live
    BY <1>5
  <2>. QED  BY <1>5, <2>1, <2>2
<1>6. CASE /\ org = [override |-> 0, live |-> TRUE, paid |-> TRUE, begun |-> FALSE] /\ config.billing /\ asked = FALSE
           /\ state = [NoState EXCEPT !.days = PaidDays]
  <2>1. /\ state \in State /\ state.pending = 0 /\ state.since = None /\ ~state.expired
        /\ state.days = PaidDays
    BY <1>3, <1>6 DEF NoState, State
  <2>2. /\ org \in [override : Overrides \cup {0}, live : BOOLEAN, paid : BOOLEAN, begun : BOOLEAN]
        /\ org.paid /\ org.override = 0
    BY <1>6
  <2>. QED  BY <1>3, <1>6, <2>1, <2>2
<1>. QED  BY <1>5, <1>6 DEF Init

(* Every step keeps the invariant. *)
LEMMA NextKeeps == IInv /\ [Next]_vars => IInv'
<1> SUFFICES ASSUME IInv, [Next]_vars PROVE IInv'
  OBVIOUS
<1>1. CASE ReadUnfinished
  <2>1. /\ At("unfinished") /\ (End \/ (Goto("count") /\ UNCHANGED passed))
        /\ UNCHANGED <<clock, world, state, cmd, table, history>>
    BY <1>1 DEF ReadUnfinished
  <2>. QED  BY <2>1, LookKeeps
<1>2. CASE CountRows
  <2>1. /\ At("count") /\ (End \/ (Goto("queue") /\ UNCHANGED passed))
        /\ UNCHANGED <<clock, world, state, cmd, table, history>>
    BY <1>2 DEF CountRows
  <2>. QED  BY <2>1, LookKeeps
<1>3. CASE Step /\ ~ReadUnfinished /\ ~CountRows
  BY <1>3, ListKeeps, ReadOverrideKeeps, ReadSubscriptionKeeps, ReadRecordKeeps, ReadHistoryKeeps,
     StoreKeeps, QueueKeeps DEF Step
<1>4. CASE World
  BY <1>4, TickKeeps, PaysKeeps, SetOverrideKeeps, SwitchBillingKeeps, SwitchDeletesKeeps, WriteKeeps,
     ApplyKeeps, OtherKeeps, ExpireKeeps, ExpireStateKeeps DEF World
<1>5. CASE UNCHANGED vars
  BY <1>5 DEF IInv, Typed, TypeOK, Shaped, Current, Paying, Noticed, Cutting, Deciding, Decided,
     Today, vars
<1>. QED  BY <1>1, <1>2, <1>3, <1>4, <1>5, FailKeeps DEF Next

(* What the retention pass rests on: the state it read is the one stored, but for an
   expire that landed meanwhile; a shorter length waits unchanged since it began to; and
   every length resolved within the wait is kept by the one in force.                    *)
THEOREM RetentionInStep == Spec => []IInv
<1>1. Init => IInv
  BY InitOK
<1>2. IInv /\ [Next]_vars => IInv'
  BY NextKeeps
<1>. QED  BY <1>1, <1>2, PTL DEF Spec

(* An org a pass saw paying keeps at least the paying length until an operator asks for
   another, whatever it stops paying for and whatever the pass reads meanwhile.          *)
THEOREM PaidHistoryStays == Spec => []PaidUntilAsked
<1>1. IInv => PaidUntilAsked
  BY DEF IInv, Paying, PaidUntilAsked
<1>. QED  BY <1>1, RetentionInStep, PTL

(* A pass that read the state before an expire landed cannot take it back. *)
THEOREM ExpireIsKept == Spec => ExpireStands
<1>. DEFINE Stands == state.expired /\ ~state'.expired =>
                        At("store") /\ (pass.days # state.pending \/ pass.now - state.since >= Wait)
<1>1. IInv /\ [Next]_vars => [Stands]_vars
  <2> SUFFICES ASSUME IInv, [Next]_vars, state.expired, ~state'.expired
        PROVE  At("store") /\ (pass.days # state.pending \/ pass.now - state.since >= Wait)
    OBVIOUS
  <2>1. Store
    <3>1. state' # state
      OBVIOUS
    <3>2. ~ExpireRetentionState
      BY PassTyped DEF ExpireRetentionState, TypeOK, State
    <3>. QED  BY <3>1, <3>2 DEF Next, Step, World, Fail, vars, ListStates, ReadOverride,
                 ReadSubscription, ReadRecord, ReadHistory, ReadUnfinished, CountRows, QueueDelete,
                 Tick, Pays, SetOverride, SwitchBilling, SwitchDeletes, Write, Apply, OtherDelete,
                 OtherDone, Expire
  <2>2. state.pending # 0 /\ ~keeps(state.pending, state.days)
    BY DEF IInv, Shaped
  <2>. QED  BY <2>1, <2>2, StoreCases DEF At
<1>. QED  BY <1>1, RetentionInStep, PTL DEF Spec, ExpireStands

(* A delete takes no event that a length resolved within the wait would have kept. *)
THEOREM NoticeIsGiven == Spec => NoticeGiven
<1>. DEFINE Given == table'.queued # None /\ table'.queued # table.queued =>
                       \A e \in seen : e.day > pass.now - Wait =>
                          e.days # 0 /\ table'.queued <= pass.now - e.days
<1>1. IInv /\ [Next]_vars => [Given]_vars
  <2> SUFFICES ASSUME IInv, [Next]_vars, table'.queued # None, table'.queued # table.queued,
                      NEW e \in seen, e.day > pass.now - Wait
        PROVE  e.days # 0 /\ table'.queued <= pass.now - e.days
    OBVIOUS
  <2>1. TypeOK
    BY PassTyped
  <2>2. QueueDelete
    <3>1. table' # table
      OBVIOUS
    <3>2. ~Apply /\ ~OtherDelete /\ ~OtherDone
      BY <2>1 DEF Apply, OtherDelete, OtherDone, TypeOK
    <3>3. ~Write
      BY <2>1 DEF Write, TypeOK
    <3>. QED  BY <3>1, <3>2, <3>3 DEF Next, Step, World, Fail, vars, ListStates, ReadOverride,
                 ReadSubscription, ReadRecord, ReadHistory, Store, ReadUnfinished, CountRows,
                 Tick, Pays, SetOverride, SwitchBilling, SwitchDeletes, Expire, ExpireRetentionState
  <2>3. /\ pass.pc = "queue" /\ pass \in PassState /\ pass # Idle /\ Start <= pass.now
        /\ pass.now \in Days /\ pass.now \in Nat /\ table' = [table EXCEPT !.queued = pass.cut]
    BY <2>2, PassTyped, Numbers DEF QueueDelete, At, PassState
  <2>4. table'.queued = pass.cut
    BY <2>1, <2>3 DEF TypeOK
  <2>5. pass.cut # None /\ pass.cut = cut(Months, pass.now, state.days)
    BY <2>3 DEF IInv, Cutting
  <2>6. state.days # 0 /\ pass.cut \in Days /\ pass.cut <= pass.now - state.days
    BY <2>1, <2>3, <2>5, CutOK DEF TypeOK, State
  <2>7. keeps(state.days, e.days)
    BY <2>3 DEF IInv, Noticed, Today
  <2>8. state.days \in Nat /\ e.days \in Nat /\ pass.cut \in Nat
    BY <2>1, <2>6, Numbers DEF TypeOK, State
  <2>. QED  BY <2>3, <2>4, <2>6, <2>7, <2>8 DEF keeps
<1>. QED  BY <1>1, RetentionInStep, PTL DEF Spec, NoticeGiven
-----------------------------------------------------------------------------
(* The cut and the counts. *)

(* A period starts on its anchor day or on its month's last: in its month. *)
LEMMA AnchoredOK ==
  ASSUME NEW months \in SUBSET Nat, NEW first \in Nat, NEW anchor \in Nat \ {0}
  PROVE  anchored(months, first, anchor) \in Nat /\ first <= anchored(months, first, anchor)
<1>. DEFINE A == {first + anchor - 1} \cup {m - 1 : m \in {n \in months : n > first}}
<1>1. \A a \in A : a \in Nat /\ first <= a
  <2>1. first + anchor - 1 \in Nat /\ first <= first + anchor - 1
    OBVIOUS
  <2>2. ASSUME NEW n \in months, n > first PROVE n - 1 \in Nat /\ first <= n - 1
    <3>1. n \in Nat
      OBVIOUS
    <3>. QED  BY <2>2, <3>1
  <2>. QED  BY <2>1, <2>2
<1>2. A \subseteq Nat /\ A # {}
  BY <1>1
<1>3. anchored(months, first, anchor) = Min(A)
  BY DEF anchored
<1>. HIDE DEF A
<1>4. \E m \in A : \A y \in A : m <= y
  BY <1>2, Least
<1>5. Min(A) \in A
  BY <1>2, <1>4, MinOf
<1>. QED  BY <1>1, <1>3, <1>5

(* "Retention never changes a count or a bill", whatever the day, the length and the
   anchor: no cut is later than what a full usage pass counts again, while a rescan is
   no longer than the shortest month.                                                *)
LEMMA CutBeforeRecount ==
  ASSUME NEW now \in Nat, NEW days \in Nat, NEW anchor \in Nat \ {0},
         NEW l \in Calendar, NEW n \in Calendar, l < n, n <= now,
         days # 0, days <= now
  PROVE  cut(Calendar, now, days) <= FullRecomputeFrom(Calendar, now, MaxRescan, anchor)
<1>. DEFINE this == firstOfMonth(Calendar, now)
            previous == previousMonth(Calendar, now)
            start == PeriodStart(Calendar, now, anchor)
            at == cut(Calendar, now, days)
<1>1. /\ Calendar \in SUBSET Nat /\ 0 \in Calendar /\ MaxRescan \in Nat /\ MaxRescan <= 28
      /\ \A x, y \in Calendar : x < y => y - x >= 28
  BY RetentionAssumption DEF ShortestMonth
<1>2. \A x \in Calendar : x \in Nat
  BY <1>1
<1>3. this \in Calendar /\ this <= now
  <2>1. n \in Nat /\ n <= now
    BY <1>2
  <2>. QED  BY <1>1, <2>1, FirstOfMonth
<1>4. previous \in Calendar /\ previous < this
  BY <1>1, PreviousMonth
<1>5. at \in Nat /\ at <= previous
  <2>1. l \in Nat /\ n \in Nat
    BY <1>2
  <2>2. 0 < n
    BY <2>1
  <2>3. \/ at = None /\ (days = 0 \/ days > now)
        \/ at \in Nat /\ at <= previous
    BY <1>1, <2>2, CutBounds
  <2>. QED  BY <2>3
<1>6. start \in Nat /\ previous <= start
  <2>1. this \in Nat /\ previous \in Nat
    BY <1>2, <1>3, <1>4
  <2>2. /\ anchored(Calendar, this, anchor) \in Nat /\ this <= anchored(Calendar, this, anchor)
        /\ anchored(Calendar, previous, anchor) \in Nat
        /\ previous <= anchored(Calendar, previous, anchor)
    <3>. HIDE DEF this, previous
    <3>. QED  BY <1>1, <2>1, AnchoredOK
  <2>3. start \in {anchored(Calendar, this, anchor), anchored(Calendar, previous, anchor)}
    BY DEF PeriodStart
  <2>. HIDE DEF this, previous, start
  <2>. QED  BY <1>4, <2>1, <2>2, <2>3
<1>7. FullRecomputeFrom(Calendar, now, MaxRescan, anchor) = Min({now - MaxRescan, this, start})
  BY DEF FullRecomputeFrom
<1>. HIDE DEF this, previous, start, at
<1>8. this \in Nat /\ previous \in Nat /\ this - previous >= 28
  BY <1>1, <1>2, <1>3, <1>4
<1>9. now - MaxRescan \in Int /\ previous <= now - MaxRescan
  BY <1>1, <1>3, <1>8
<1>. DEFINE F == {now - MaxRescan, this, start}
<1>10. F \in SUBSET Int /\ \A x \in F : previous <= x
  BY <1>4, <1>6, <1>8, <1>9
<1>11. \E m \in F : \A y \in F : m <= y
  <2>. DEFINE a == now - MaxRescan
  <2>1. a \in Int /\ this \in Int /\ start \in Int
    BY <1>6, <1>8, <1>9
  <2>. HIDE DEF a
  <2>2. \E m \in {a, this, start} : \A y \in {a, this, start} : m <= y
    BY <2>1
  <2>. QED  BY <2>2 DEF a
<1>. HIDE DEF F
<1>12. Min(F) \in F
  BY <1>10, <1>11, MinOf
<1>13. previous <= Min(F) /\ Min(F) \in Int
  BY <1>10, <1>12
<1>14. at <= Min(F)
  BY <1>5, <1>8, <1>13
<1>. QED  BY <1>7, <1>14 DEF F, at

(* Inv of the retention pass: well typed, and no cut reaches what is counted again. *)
THEOREM RetentionSparesCounts == Spec => []Inv
<1>1. CutSparesRecount
  <2>1. SUFFICES ASSUME NEW first \in Calendar, NEW l \in Calendar, NEW n \in Calendar, l < n, n < first,
                        NEW day \in {-1, 0, 14}, NEW days \in {1, 28, 31},
                        NEW anchor \in {1, 2, 15, 28, 29, 30, 31}
        PROVE  cut(Calendar, first + day, days) <=
                 FullRecomputeFrom(Calendar, first + day, MaxRescan, anchor)
    BY DEF CutSparesRecount
  <2>2. \A x, y \in Calendar : x \in Nat /\ (x < y => y - x >= 28)
    BY RetentionAssumption DEF ShortestMonth
  <2>3. l \in Nat /\ n \in Nat /\ first \in Nat /\ n - l >= 28 /\ first - n >= 28
    BY <2>1, <2>2
  <2>4. first + day \in Nat /\ n <= first + day /\ days <= first + day /\ days \in Nat /\ days # 0
    BY <2>3
  <2>5. anchor \in Nat \ {0}
    OBVIOUS
  <2>. QED  BY <2>1, <2>4, <2>5, CutBeforeRecount
<1>2. IInv => TypeOK
  BY DEF IInv, Typed
<1>. QED  BY <1>1, <1>2, RetentionInStep, PTL DEF Inv
===========================================================================
