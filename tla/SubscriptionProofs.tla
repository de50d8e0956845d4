-------------------------- MODULE SubscriptionProofs --------------------------
(* Proofs about Subscription, for every number of subscriptions, deliveries, readers
   and states: that a row is as fresh as its stamp, that an answered delivery is in
   the mirror, that an org has one entitlement, and that a late write undoes nothing.

   The argument is that a stamp is a bound.  A subscription's states are dated in
   order (Dated); what a handler or a reader carries is at least as fresh as the stamp
   it will write (HandlerKnows, ReaderKnows); and a row's stamp never goes back.    *)
EXTENDS Subscription, WellFoundedInduction, TLAPS

State == [word : Words, at : 0 .. Horizon]
MirrorRow == [ver : Nat, at : Nat, grace : Nat \cup {None}]
Delivery == [sub : Subs, chg : Changes, ver : Nat, pc : {"stored", "applied", "refused"}]
Read == [sub : Subs, ver : Nat]

Typed ==
  /\ clock \in 0 .. Horizon /\ deal \in BOOLEAN
  /\ provider \in [Subs -> Seq(State)] /\ \A s \in Subs : current(s) <= MaxChanges[s]
  /\ row \in [Subs -> MirrorRow \cup {None}]
  /\ inbox \in [Subs -> [Changes -> {"open", "settled", "rejected"}]]
  /\ handler \in [Attempts -> Delivery \cup {Empty}]
  /\ reader \in [Readers -> [at : Nat, todo : SUBSET Subs, got : Read \cup {None}]]

(* A subscription's states follow one another in time. *)
Dated(s) ==
  /\ \A v \in 1 .. current(s) : provider[s][v].at <= clock
  /\ \A u, v \in 1 .. current(s) : u <= v => provider[s][u].at <= provider[s][v].at

(* State v of s was read or sent no earlier than the instant at. *)
Knows(s, v, at) ==
  /\ v \in 1 .. current(s) /\ at <= clock
  /\ \A u \in 1 .. current(s) : provider[s][u].at < at => u <= v

RowKnows(s) == row[s] # None =>
  /\ Knows(s, row[s].ver, row[s].at)
  /\ row[s].grace # None => row[s].grace \in 1 .. current(s) /\ word(s, row[s].ver) = "past_due"
HandlerKnows(a) == handler[a] # Empty =>
  /\ handler[a].chg <= handler[a].ver /\ handler[a].ver <= current(handler[a].sub)
  /\ handler[a].pc = "applied" =>
       /\ row[handler[a].sub] # None
       /\ Stamp(handler[a].sub, handler[a].chg) <= row[handler[a].sub].at
ReaderKnows(r) ==
  /\ reader[r].at <= clock
  /\ \A s \in reader[r].todo : current(s) > 0
  /\ reader[r].got # None => Knows(reader[r].got.sub, reader[r].got.ver, reader[r].at)

(* A delivery that was answered was of a change there was. *)
SettledKnown == \A s \in Subs, c \in Changes : inbox[s][c] # "open" => c <= current(s)

IInv ==
  /\ Typed /\ (\A s \in Subs : Dated(s) /\ RowKnows(s)) /\ (\A a \in Attempts : HandlerKnows(a))
  /\ (\A r \in Readers : ReaderKnows(r)) /\ SettledKnown /\ SettledIsCovered /\ OneEntitlement
-------------------------------------------------------------------------------
(* A delivery's stamp, a whole second, is no later than the change it tells of. *)
LEMMA WholeSecond ==
  ASSUME NEW x \in Nat PROVE Second * (x \div Second) \in Nat /\ Second * (x \div Second) <= x
<1>1. Second \in Nat /\ Second > 0
  BY SubscriptionAssumption
<1>2. x \div Second \in Nat /\ Second * (x \div Second) \in Nat
  BY <1>1
<1>. QED
  BY <1>1, <1>2

(* A grace window begins after the last state that is not in it. *)
LEMMA WindowBegins ==
  ASSUME NEW s \in Subs, NEW v \in Nat \ {0}, word(s, v) = "past_due"
  PROVE  Window(s, v) \in 1 .. v
<1>. DEFINE Lasts == {w \in 1 .. v : \A u \in w .. v : word(s, u) = "past_due"}
<1>1. Lasts \subseteq Nat /\ v \in Lasts
  OBVIOUS
<1>2. PICK w \in Lasts : \A u \in Lasts : <<u, w>> \notin OpToRel(<, Nat)
  <2>. HIDE DEF Lasts
  <2>. QED
    BY <1>1, NatLessThanWellFounded, WFMin
<1>3. w = 1 \/ word(s, w - 1) # "past_due"
  <2>. SUFFICES ASSUME w # 1, word(s, w - 1) = "past_due" PROVE FALSE
    OBVIOUS
  <2>1. w - 1 \in Lasts /\ w - 1 \in Nat /\ w \in Nat /\ w - 1 < w
    OBVIOUS
  <2>. QED
    BY <1>2, <2>1 DEF OpToRel
<1>. QED
  BY <1>2, <1>3 DEF Window

(* What the assumptions say of the values the rows and the reads hold. *)
LEMMA Constants ==
  /\ Changes \subseteq Nat \ {0} /\ Horizon \in Nat /\ None \notin Nat /\ None \notin MirrorRow
  /\ None \notin Read /\ "active" \in Words /\ Deals \subseteq Subs
BY SubscriptionAssumption DEF Changes, MirrorRow, Read

(* What is live at first is mirrored as it is. *)
LEMMA InitIInv == Init => IInv
<1>. SUFFICES ASSUME Init PROVE IInv
  OBVIOUS
<1>. USE Constants DEF Init
<1>1. Typed
  <2>1. ASSUME NEW s \in Subs
        PROVE  /\ provider[s] \in Seq(State) /\ current(s) <= MaxChanges[s]
               /\ row[s] \in MirrorRow \cup {None}
    <3>1. CASE s \in Held
      <4>1. provider[s] = <<[word |-> "active", at |-> 0]>> /\ row[s] = [ver |-> 1, at |-> 0, grace |-> None]
        BY <3>1
      <4>2. [word |-> "active", at |-> 0] \in State
        BY DEF State
      <4>. QED
        BY <4>1, <4>2, SubscriptionAssumption DEF MirrorRow, current
    <3>2. CASE s \notin Held
      BY <3>2, SubscriptionAssumption DEF current
    <3>. QED
      BY <3>1, <3>2
  <2>2. Empty \in Delivery \cup {Empty} /\ Idle \in [at : Nat, todo : SUBSET Subs, got : Read \cup {None}]
    BY DEF Idle
  <2>3. deal \in BOOLEAN
    OBVIOUS
  <2>. QED
    BY <2>1, <2>2, <2>3 DEF Typed
<1>2. \A s \in Subs : /\ provider[s] = IF s \in Held THEN <<[word |-> "active", at |-> 0]>> ELSE <<>>
                     /\ row[s] = IF s \in Held THEN [ver |-> 1, at |-> 0, grace |-> None] ELSE None
  OBVIOUS
<1>3. \A s \in Subs : Dated(s) /\ RowKnows(s)
  <2>. SUFFICES ASSUME NEW s \in Subs PROVE Dated(s) /\ RowKnows(s)
    OBVIOUS
  <2>1. CASE s \in Held
    <3>1. /\ current(s) = 1 /\ provider[s][1].at = 0
          /\ row[s].ver = 1 /\ row[s].at = 0 /\ row[s].grace = None
      BY <1>2, <2>1 DEF current
    <3>. QED
      BY <3>1 DEF Dated, RowKnows, Knows
  <2>2. CASE s \notin Held
    BY <1>2, <2>2 DEF Dated, RowKnows, current
  <2>. QED
    BY <2>1, <2>2
<1>4. \A a \in Attempts : HandlerKnows(a)
  BY DEF HandlerKnows
<1>5. \A r \in Readers : ReaderKnows(r)
  BY DEF ReaderKnows, Idle
<1>6. SettledKnown /\ SettledIsCovered
  BY DEF SettledKnown, SettledIsCovered
<1>7. OneEntitlement
  BY <1>2, SubscriptionAssumption DEF OneEntitlement, Live
<1>. QED
  BY <1>1, <1>3, <1>4, <1>5, <1>6, <1>7 DEF IInv

(* What a write does to a row: it never takes its stamp back, keeps the date of an
   open window, and revives a row only under a later stamp.                        *)
Undone(s) == ~(NeverRevivedByATie(s) /\ StaysDated(s))

(* Applying a state that is at least as fresh as its stamp. *)
LEMMA RowWritten ==
  ASSUME IInv, provider' = provider, clock' = clock, deal' = deal,
         NEW s \in Subs, NEW v \in Nat, NEW at \in Nat, NEW delivery \in BOOLEAN,
         Knows(s, v, at), applySubscription(s, v, at, delivery)
  PROVE  /\ row' \in [Subs -> MirrorRow \cup {None}]
         /\ \A t \in Subs : RowKnows(t)'
         /\ \A t \in Subs : row[t] # None => row'[t] # None /\ row'[t].at >= row[t].at /\ ~Undone(t)
         /\ OneEntitlement'
         /\ Outcome(s, v, at) \in {"applied", "stale"} => row'[s] # None /\ at <= row'[s].at
<1>. USE Constants
<1>1. /\ row \in [Subs -> MirrorRow \cup {None}] /\ provider \in [Subs -> Seq(State)]
      /\ v \in 1 .. current(s) /\ OneEntitlement /\ \A t \in Subs : RowKnows(t)
  BY DEF IInv, Typed, Knows
<1>2. word(s, v) = "past_due" => Window(s, v) \in 1 .. v
  BY <1>1, WindowBegins
<1>3. \A t \in Subs : row[t] # None => row[t] \in MirrorRow
  BY <1>1
<1>4. /\ \A t \in Subs : \A u : word(t, u)' = word(t, u)
      /\ \A t \in Subs : row'[t] = row[t] => RowKnows(t)'
  <2>1. \A t \in Subs : \A u : word(t, u)' = word(t, u)
    BY DEF word
  <2>2. ASSUME NEW t \in Subs, row'[t] = row[t] PROVE RowKnows(t)'
    BY <1>1, <2>1, <2>2 DEF RowKnows, Knows, current
  <2>. QED
    BY <2>1, <2>2
<1>5. CASE Outcome(s, v, at) = "applied"
  <2>. DEFINE new == [ver |-> v, at |-> at, grace |-> Grace(s, v, delivery)]
  <2>1. row' = [row EXCEPT ![s] = new]
    BY <1>5 DEF applySubscription, Applied
  <2>2. /\ planForProduct(s, v) /\ Newer(s, at) /\ ~TwoLive(s, v)
    BY <1>5 DEF Outcome
  <2>3. /\ Grace(s, v, delivery) \in Nat \cup {None}
        /\ Grace(s, v, delivery) # None => Grace(s, v, delivery) \in 1 .. current(s) /\ word(s, v) = "past_due"
        /\ Grace(s, v, delivery) = None /\ row[s] # None /\ row[s].grace # None => word(s, v) # "past_due"
    <3>1. CASE word(s, v) = "past_due" /\ delivery
      <4>1. Grace(s, v, delivery) = Window(s, v) /\ Window(s, v) \in 1 .. v
        BY <1>2, <3>1 DEF Grace
      <4>2. current(s) \in Nat /\ v <= current(s)
        BY <1>1 DEF current
      <4>3. \A w \in 1 .. v : w \in Nat /\ w \in 1 .. current(s) /\ w # None
        BY <1>1, <4>2
      <4>4. Grace(s, v, delivery) \in 1 .. v
        BY <4>1
      <4>. QED
        BY <3>1, <4>3, <4>4
    <3>2. CASE word(s, v) = "past_due" /\ ~delivery
      BY <1>1, <1>3, <3>2 DEF Grace, MirrorRow, RowKnows
    <3>3. CASE word(s, v) # "past_due"
      BY <3>3 DEF Grace
    <3>. QED
      BY <3>1, <3>2, <3>3
  <2>4. \A t \in Subs \ {s} : row'[t] = row[t]
    BY <1>1, <2>1
  <2>5. new \in MirrorRow /\ row'[s] = new
    BY <1>1, <2>1, <2>3 DEF MirrorRow
  <2>6. row'[s] # None /\ row'[s].ver = v /\ row'[s].at = at /\ row'[s].grace = Grace(s, v, delivery)
    BY <2>5
  <2>. HIDE DEF new
  <2>7. \A t \in Subs : RowKnows(t)'
    <3>1. RowKnows(s)'
      BY <1>4, <2>3, <2>6 DEF RowKnows, Knows, current
    <3>2. \A t \in Subs \ {s} : RowKnows(t)'
      BY <1>4, <2>4
    <3>. QED
      BY <3>1, <3>2
  <2>8. /\ (Live(s)' <=> IsLive(word(s, v)))
        /\ \A t \in Subs \ {s} : Live(t)' <=> Live(t)
    BY <1>4, <2>4, <2>6 DEF Live
  <2>9. \A t \in Subs : row[t] # None => row'[t] # None /\ row'[t].at >= row[t].at /\ ~Undone(t)
    <3>1. row[s] # None => row'[s] # None /\ row'[s].at >= row[s].at /\ NeverRevivedByATie(s)
      BY <1>3, <2>2, <2>6 DEF Newer, NeverRevivedByATie, MirrorRow
    <3>2. row[s] # None => StaysDated(s)
      BY <1>4, <2>3, <2>6 DEF StaysDated
    <3>3. \A t \in Subs \ {s} : row[t] # None =>
            row'[t] # None /\ row'[t].at >= row[t].at /\ NeverRevivedByATie(t) /\ StaysDated(t)
      BY <1>3, <2>4, <2>8 DEF NeverRevivedByATie, StaysDated, MirrorRow
    <3>. QED
      BY <3>1, <3>2, <3>3 DEF Undone
  <2>10. OneEntitlement'
    BY <1>1, <2>2, <2>8 DEF OneEntitlement, TwoLive, planForProduct
  <2>. QED
    BY <1>1, <2>1, <2>5, <2>6, <2>7, <2>9, <2>10
<1>6. CASE Outcome(s, v, at) = "stale" /\ delivery /\ row' # row
  <2>. DEFINE new == [row[s] EXCEPT !.grace = Window(s, v)]
  <2>1. /\ row' = [row EXCEPT ![s].grace = Window(s, v)]
        /\ word(s, v) = "past_due" /\ word(s, row[s].ver) = "past_due" /\ row[s].grace = None
    BY <1>6 DEF applySubscription, fillGraceDeadline
  <2>2. row[s] \in MirrorRow /\ row[s] # None /\ ~Newer(s, at)
    BY <1>3, <1>6 DEF Outcome, Newer
  <2>3. Window(s, v) \in 1 .. v
    BY <1>2, <2>1
  <2>4. row'[s] = new /\ new \in MirrorRow /\ \A t \in Subs \ {s} : row'[t] = row[t]
    BY <1>1, <2>1, <2>2, <2>3 DEF MirrorRow
  <2>5. row'[s] # None /\ row'[s].ver = row[s].ver /\ row'[s].at = row[s].at /\ row'[s].grace = Window(s, v)
    BY <2>2, <2>4 DEF MirrorRow
  <2>. HIDE DEF new
  <2>6. \A t \in Subs : RowKnows(t)'
    <3>1. RowKnows(s)'
      BY <1>1, <1>4, <2>1, <2>2, <2>3, <2>5 DEF RowKnows, Knows, current
    <3>2. \A t \in Subs \ {s} : RowKnows(t)'
      BY <1>4, <2>4
    <3>. QED
      BY <3>1, <3>2
  <2>7. \A t \in Subs : Live(t)' <=> Live(t)
    BY <1>4, <2>2, <2>4, <2>5 DEF Live
  <2>8. \A t \in Subs : row[t] # None => row'[t] # None /\ row'[t].at >= row[t].at /\ ~Undone(t)
    <3>1. \A t \in Subs : row[t] # None => row'[t] # None /\ row'[t].at = row[t].at /\ row[t].at \in Nat
      BY <1>3, <2>4, <2>5 DEF MirrorRow
    <3>2. \A t \in Subs : row[t].grace # None => t # s
      BY <2>1
    <3>. QED
      BY <2>4, <2>7, <3>1, <3>2 DEF Undone, NeverRevivedByATie, StaysDated
  <2>9. OneEntitlement' /\ at <= row'[s].at
    BY <1>1, <2>2, <2>5, <2>7 DEF OneEntitlement, Newer, MirrorRow
  <2>. QED
    BY <1>1, <2>1, <2>4, <2>5, <2>6, <2>8, <2>9
<1>7. CASE row' = row /\ Outcome(s, v, at) # "applied"
  <2>1. \A t \in Subs : (Live(t)' <=> Live(t)) /\ RowKnows(t)'
    BY <1>4, <1>7 DEF Live
  <2>2. \A t \in Subs : row[t] # None => row'[t] # None /\ row'[t].at >= row[t].at /\ ~Undone(t)
    BY <1>3, <1>7, <2>1 DEF Undone, NeverRevivedByATie, StaysDated, MirrorRow
  <2>3. OneEntitlement'
    BY <1>1, <2>1 DEF OneEntitlement
  <2>4. Outcome(s, v, at) = "stale" => row[s] # None /\ at <= row[s].at
    <3>1. Outcome(s, v, at) = "stale" => ~Newer(s, at)
      BY DEF Outcome
    <3>. QED
      BY <1>3, <3>1 DEF Newer, MirrorRow
  <2>. QED
    BY <1>1, <1>7, <2>1, <2>2, <2>3, <2>4
<1>. QED
  BY <1>5, <1>6, <1>7 DEF applySubscription, Applied
(* A step that leaves the rows and their histories alone keeps what a delivery or a
   reader that did not move knows.                                                *)
LEMMA OthersKnow ==
  ASSUME IInv, UNCHANGED <<clock, provider, row>>
  PROVE  /\ \A s \in Subs : Dated(s)' /\ RowKnows(s)'
         /\ \A a \in Attempts : handler'[a] = handler[a] => HandlerKnows(a)'
         /\ \A r \in Readers : reader'[r] = reader[r] => ReaderKnows(r)'
         /\ deal' = deal => OneEntitlement'
         /\ inbox' = inbox => SettledKnown' /\ SettledIsCovered'
<1>1. \A s \in Subs : Dated(s)' /\ RowKnows(s)'
  <2>. SUFFICES ASSUME NEW s \in Subs PROVE Dated(s)' /\ RowKnows(s)'
    OBVIOUS
  <2>1. Dated(s) /\ RowKnows(s)
    BY DEF IInv
  <2>. QED
    BY <2>1 DEF Dated, RowKnows, Knows, current, word
<1>2. ASSUME NEW a \in Attempts, handler'[a] = handler[a] PROVE HandlerKnows(a)'
  <2>1. HandlerKnows(a)
    BY DEF IInv
  <2>. QED
    BY <1>2, <2>1 DEF HandlerKnows, current, Stamp
<1>3. ASSUME NEW r \in Readers, reader'[r] = reader[r] PROVE ReaderKnows(r)'
  <2>1. ReaderKnows(r)
    BY DEF IInv
  <2>. QED
    BY <1>3, <2>1 DEF ReaderKnows, Knows, current
<1>4. deal' = deal => OneEntitlement'
  BY DEF IInv, OneEntitlement, Live, word
<1>5. inbox' = inbox => SettledKnown' /\ SettledIsCovered'
  BY DEF IInv, SettledKnown, SettledIsCovered, current, Stamp, Changes
<1>. QED
  BY <1>1, <1>2, <1>3, <1>4, <1>5

(* A delivery or a reader that moves has to know enough itself. *)
LEMMA HandlerStep ==
  ASSUME IInv, UNCHANGED <<clock, provider, row, inbox, reader, deal>>, NEW a \in Attempts,
         NEW h \in Delivery \cup {Empty}, handler' = [handler EXCEPT ![a] = h], HandlerKnows(a)'
  PROVE  IInv'
<1>1. Typed'
  BY DEF IInv, Typed, current
<1>2. \A b \in Attempts : b # a => handler'[b] = handler[b]
  BY DEF IInv, Typed
<1>. QED
  BY <1>1, <1>2, OthersKnow DEF IInv

(* And so for a reader. *)
LEMMA ReaderStep ==
  ASSUME IInv, UNCHANGED <<clock, provider, row, inbox, handler, deal>>, NEW r \in Readers,
         NEW n \in [at : Nat, todo : SUBSET Subs, got : Read \cup {None}],
         reader' = [reader EXCEPT ![r] = n], ReaderKnows(r)'
  PROVE  IInv'
<1>1. Typed'
  BY DEF IInv, Typed, current
<1>2. \A q \in Readers : q # r => reader'[q] = reader[q]
  BY DEF IInv, Typed
<1>. QED
  BY <1>1, <1>2, OthersKnow DEF IInv

(* A delivery carries the subscription as it is. *)
LEMMA DeliverIInv ==
  ASSUME IInv, NEW a \in Attempts, NEW s \in Subs, NEW c \in Changes, Deliver(a, s, c) PROVE IInv'
<1>. DEFINE h == [sub |-> s, chg |-> c, ver |-> current(s), pc |-> "stored"]
<1>1. c <= current(s) /\ current(s) \in Nat /\ handler' = [handler EXCEPT ![a] = h] /\ current(s)' = current(s)
  BY DEF Deliver, IInv, Typed, current
<1>2. h \in Delivery /\ handler'[a] = h
  BY <1>1 DEF Delivery, IInv, Typed
<1>3. HandlerKnows(a)'
  BY <1>1, <1>2 DEF HandlerKnows
<1>. QED
  BY <1>1, <1>2, <1>3, HandlerStep DEF Deliver

(* A handler that is gone knows nothing. *)
LEMMA DropIInv == ASSUME IInv, NEW a \in Attempts, Drop(a) PROVE IInv'
<1>1. handler' = [handler EXCEPT ![a] = Empty] /\ handler'[a] = Empty
  BY DEF Drop, IInv, Typed
<1>2. HandlerKnows(a)'
  BY <1>1 DEF HandlerKnows
<1>. QED
  BY <1>1, <1>2, HandlerStep DEF Drop

(* A pass reads the subscriptions it has rows of, and a buyer's one it has states of. *)
LEMMA BeginIInv ==
  ASSUME IInv, NEW r \in Readers, Reconcile(r) \/ \E s \in Subs : ConfirmCheckout(r, s) PROVE IInv'
<1>1. PICK todo \in SUBSET Subs : /\ reader' = [reader EXCEPT ![r] = [at |-> clock, todo |-> todo, got |-> None]]
                                 /\ \A s \in todo : current(s) > 0
  <2>1. \A s \in Subs : row[s] # None => current(s) > 0
    BY DEF IInv, RowKnows, Knows, Typed, current
  <2>. QED
    BY <2>1 DEF Reconcile, ConfirmCheckout
<1>2. UNCHANGED <<clock, provider, row, inbox, handler, deal>>
  BY DEF Reconcile, ConfirmCheckout
<1>3. [at |-> clock, todo |-> todo, got |-> None] \in [at : Nat, todo : SUBSET Subs, got : Read \cup {None}]
  BY DEF IInv, Typed
<1>4. reader'[r] = [at |-> clock, todo |-> todo, got |-> None] /\ clock \in Nat
  BY <1>1, Constants DEF IInv, Typed
<1>5. ReaderKnows(r)'
  BY <1>1, <1>2, <1>4 DEF ReaderKnows, current
<1>. QED
  BY <1>1, <1>2, <1>3, <1>5, ReaderStep

(* What is fetched is the last of the states, whatever the pass began at. *)
LEMMA FetchIInv == ASSUME IInv, NEW r \in Readers, NEW s \in Subs, Fetch(r, s) PROVE IInv'
<1>. DEFINE got == [sub |-> s, ver |-> current(s)]
            n == [reader[r] EXCEPT !.got = got]
<1>1. /\ reader[r] \in [at : Nat, todo : SUBSET Subs, got : Read \cup {None}] /\ ReaderKnows(r)
      /\ provider[s] \in Seq(State) /\ current(s) \in Nat /\ clock \in Nat
  BY Constants DEF IInv, Typed, current
<1>2. s \in reader[r].todo /\ current(s) > 0 /\ reader' = [reader EXCEPT ![r] = n]
  BY <1>1 DEF Fetch, ReaderKnows
<1>3. got \in Read /\ n \in [at : Nat, todo : SUBSET Subs, got : Read \cup {None}]
  BY <1>1 DEF Read
<1>4. reader'[r] = n /\ n.at = reader[r].at /\ n.todo = reader[r].todo /\ n.got = got
  BY <1>1, <1>2 DEF IInv, Typed
<1>5. UNCHANGED <<clock, provider, row, inbox, handler, deal>>
  BY DEF Fetch
<1>6. Knows(s, current(s), reader[r].at)
  BY <1>1, <1>2 DEF Knows, ReaderKnows
<1>7. ReaderKnows(r)'
  BY <1>1, <1>4, <1>5, <1>6 DEF ReaderKnows, Knows, current
<1>. HIDE DEF n
<1>. QED
  BY <1>2, <1>3, <1>5, <1>7, ReaderStep

(* A failed read is skipped. *)
LEMMA UnreadableIInv == ASSUME IInv, NEW r \in Readers, NEW s \in Subs, Unreadable(r, s) PROVE IInv'
<1>. DEFINE n == [reader[r] EXCEPT !.todo = @ \ {s}]
<1>1. /\ reader[r] \in [at : Nat, todo : SUBSET Subs, got : Read \cup {None}] /\ ReaderKnows(r)
      /\ reader' = [reader EXCEPT ![r] = n] /\ reader[r].got = None
  BY DEF Unreadable, IInv, Typed
<1>2. n \in [at : Nat, todo : SUBSET Subs, got : Read \cup {None}]
  BY <1>1
<1>3. reader'[r] = n /\ n.at = reader[r].at /\ n.todo \subseteq reader[r].todo /\ n.got = None
  BY <1>1 DEF IInv, Typed
<1>4. UNCHANGED <<clock, provider, row, inbox, handler, deal>>
  BY DEF Unreadable
<1>5. ReaderKnows(r)'
  BY <1>1, <1>3, <1>4 DEF ReaderKnows, current
<1>. HIDE DEF n
<1>. QED
  BY <1>1, <1>2, <1>4, <1>5, ReaderStep
(* A history is of dated states, and a delivery's stamp no later than its change. *)
LEMMA Histories ==
  ASSUME IInv, NEW s \in Subs
  PROVE  /\ provider[s] \in Seq(State) /\ current(s) \in Nat /\ clock \in Nat
         /\ \A u \in 1 .. current(s) : /\ provider[s][u] \in State /\ provider[s][u].at \in Nat
                                       /\ Stamp(s, u) \in Nat /\ Stamp(s, u) <= provider[s][u].at
<1>1. provider[s] \in Seq(State) /\ current(s) \in Nat /\ clock \in Nat
  BY Constants DEF IInv, Typed, current
<1>2. ASSUME NEW u \in 1 .. current(s)
      PROVE  /\ provider[s][u] \in State /\ provider[s][u].at \in Nat
             /\ Stamp(s, u) \in Nat /\ Stamp(s, u) <= provider[s][u].at
  <2>1. provider[s][u] \in State
    BY <1>1 DEF current
  <2>2. provider[s][u].at \in Nat
    BY <2>1, Constants DEF State
  <2>. QED
    BY <2>1, <2>2, WholeSecond DEF Stamp
<1>. QED
  BY <1>1, <1>2

(* A delivery on its way is of a change there was. *)
LEMMA HandlerTyped ==
  ASSUME IInv, NEW a \in Attempts, handler[a] # Empty
  PROVE  /\ handler[a] \in Delivery /\ handler[a].sub \in Subs /\ HandlerKnows(a)
         /\ handler[a].chg \in 1 .. current(handler[a].sub)
         /\ handler[a].ver \in 1 .. current(handler[a].sub) /\ handler[a].chg <= handler[a].ver
<1>1. handler[a] \in Delivery /\ HandlerKnows(a)
  BY DEF IInv, Typed
<1>2. handler[a].sub \in Subs /\ handler[a].chg \in Nat \ {0} /\ handler[a].ver \in Nat
  BY <1>1, Constants DEF Delivery
<1>3. current(handler[a].sub) \in Nat
  BY <1>2, Histories
<1>4. handler[a].chg <= handler[a].ver /\ handler[a].ver <= current(handler[a].sub)
  BY <1>1 DEF HandlerKnows
<1>. QED
  BY <1>1, <1>2, <1>3, <1>4

(* What a write of the mirror leaves for the others: a delivery that was taken in stays
   so, since no stamp goes back.                                                       *)
LEMMA AfterWrite ==
  ASSUME IInv, UNCHANGED <<clock, provider, inbox, deal>>,
         \A s \in Subs : row[s] # None => row'[s] # None /\ row'[s].at >= row[s].at,
         row' \in [Subs -> MirrorRow \cup {None}]
  PROVE  /\ \A s \in Subs : Dated(s)'
         /\ \A a \in Attempts : handler'[a] = handler[a] => HandlerKnows(a)'
         /\ \A r \in Readers : reader'[r] = reader[r] => ReaderKnows(r)'
         /\ SettledKnown' /\ SettledIsCovered'
<1>. USE Constants
<1>1. \A s \in Subs : Dated(s)'
  BY DEF IInv, Dated, current
<1>2. /\ \A s \in Subs : row[s] # None => row[s].at \in Nat
      /\ \A s \in Subs : row'[s] # None => row'[s].at \in Nat
      /\ \A s \in Subs : \A c \in 1 .. current(s) : Stamp(s, c) \in Nat
  BY Histories DEF IInv, Typed, MirrorRow
<1>3. ASSUME NEW a \in Attempts, handler'[a] = handler[a] PROVE HandlerKnows(a)'
  <2>. SUFFICES ASSUME handler[a] # Empty PROVE HandlerKnows(a)'
    BY <1>3 DEF HandlerKnows
  <2>1. /\ HandlerKnows(a) /\ handler[a].sub \in Subs
        /\ handler[a].chg \in 1 .. current(handler[a].sub)
    BY HandlerTyped
  <2>2. Stamp(handler[a].sub, handler[a].chg) \in Nat
    BY <1>2, <2>1
  <2>3. /\ current(handler[a].sub)' = current(handler[a].sub)
        /\ Stamp(handler[a].sub, handler[a].chg)' = Stamp(handler[a].sub, handler[a].chg)
    BY <1>3 DEF current, Stamp
  <2>4. handler[a].pc = "applied" =>
          /\ row'[handler[a].sub] # None
          /\ Stamp(handler[a].sub, handler[a].chg) <= row'[handler[a].sub].at
    BY <1>2, <2>1, <2>2 DEF HandlerKnows
  <2>. QED
    BY <1>3, <2>1, <2>3, <2>4 DEF HandlerKnows
<1>4. ASSUME NEW r \in Readers, reader'[r] = reader[r] PROVE ReaderKnows(r)'
  <2>1. ReaderKnows(r)
    BY DEF IInv
  <2>. QED
    BY <1>4, <2>1 DEF ReaderKnows, Knows, current
<1>5. SettledKnown'
  BY DEF IInv, SettledKnown, current, Changes
<1>6. SettledIsCovered'
  <2>. SUFFICES ASSUME NEW s \in Subs, NEW c \in Changes, inbox[s][c] = "settled"
                PROVE  row'[s] # None /\ Stamp(s, c) <= row'[s].at
    BY DEF SettledIsCovered, Stamp, Changes
  <2>1. row[s] # None /\ Stamp(s, c) <= row[s].at /\ c \in 1 .. current(s)
    BY DEF IInv, SettledKnown, SettledIsCovered, Typed, current
  <2>. QED
    BY <1>2, <2>1
<1>. QED
  BY <1>1, <1>3, <1>4, <1>5, <1>6

(* A delivery carries states up to the change it tells of, or later ones, and is
   stamped no later than that change.                                             *)
LEMMA DeliveryKnows ==
  ASSUME IInv, NEW a \in Attempts, handler[a] # Empty
  PROVE  /\ handler[a] \in Delivery
         /\ Stamp(handler[a].sub, handler[a].chg) \in Nat
         /\ Knows(handler[a].sub, handler[a].ver, Stamp(handler[a].sub, handler[a].chg))
<1>. DEFINE h == handler[a]
            s == h.sub
            at == Stamp(s, h.chg)
<1>. USE Constants
<1>1. h \in Delivery /\ s \in Subs /\ h.chg \in 1 .. current(s) /\ h.ver \in 1 .. current(s) /\ h.chg <= h.ver
  BY HandlerTyped
<1>2. current(s) \in Nat /\ clock \in Nat
  BY <1>1, Histories
<1>3. \A u \in 1 .. current(s) : provider[s][u].at \in Nat
  BY <1>1, Histories
<1>4. at \in Nat /\ at <= provider[s][h.chg].at
  BY <1>1, Histories
<1>5. provider[s][h.chg].at <= clock /\ \A u \in 1 .. current(s) : h.chg <= u => provider[s][h.chg].at <= provider[s][u].at
  BY <1>1 DEF Dated, IInv
<1>. HIDE DEF h, s, at
<1>6. ASSUME NEW u \in 1 .. current(s), provider[s][u].at < at PROVE u <= h.ver
  <2>1. CASE u <= h.chg
    BY <1>1, <1>2, <2>1
  <2>2. CASE h.chg <= u
    BY <1>1, <1>3, <1>4, <1>5, <1>6, <2>2
  <2>. QED
    BY <1>1, <2>1, <2>2
<1>7. Knows(s, h.ver, at)
  <2>1. at <= clock
    BY <1>1, <1>2, <1>3, <1>4, <1>5
  <2>. QED
    BY <1>1, <1>6, <2>1 DEF Knows
<1>. QED
  BY <1>1, <1>4, <1>7 DEF h, s, at
(* One that was applied, or was stale, is in the mirror. *)
LEMMA ApplyDeliveryIInv ==
  ASSUME IInv, NEW a \in Attempts, ApplyDelivery(a)
  PROVE  IInv' /\ \A s \in Subs : row[s] # None => ~Undone(s)
<1>. DEFINE h == handler[a]
            at == Stamp(h.sub, h.chg)
            out == Outcome(h.sub, h.ver, at)
<1>1. h.pc = "stored" /\ h # Empty /\ UNCHANGED <<clock, provider, inbox, reader, deal>>
  BY DEF ApplyDelivery, Empty
<1>2. h \in Delivery /\ h.sub \in Subs /\ h.ver \in Nat /\ at \in Nat /\ Knows(h.sub, h.ver, at)
      /\ HandlerKnows(a) /\ h.chg <= h.ver /\ h.ver <= current(h.sub)
  BY <1>1, HandlerTyped, DeliveryKnows DEF Delivery
<1>3. \A n \in Delivery \cup {Empty} : handler' = [handler EXCEPT ![a] = n] =>
        /\ handler'[a] = n
        /\ \A b \in Attempts : b # a => handler'[b] = handler[b]
        /\ handler' \in [Attempts -> Delivery \cup {Empty}]
  BY DEF IInv, Typed
<1>4. /\ Empty.pc = "free"
      /\ \A pc \in {"refused", "applied"} :
           /\ [h EXCEPT !.pc = pc] \in Delivery
           /\ [h EXCEPT !.pc = pc].sub = h.sub /\ [h EXCEPT !.pc = pc].chg = h.chg
           /\ [h EXCEPT !.pc = pc].ver = h.ver /\ [h EXCEPT !.pc = pc].pc = pc
  BY <1>2 DEF Delivery, Empty
<1>7. \A s \in Subs : current(s)' = current(s) /\ \A c : Stamp(s, c)' = Stamp(s, c)
  BY <1>1 DEF current, Stamp
<1>5. CASE attributed(h.sub)
  <2>1. applySubscription(h.sub, h.ver, at, TRUE)
    BY <1>5 DEF ApplyDelivery
  <2>2. PICK n \in Delivery \cup {Empty} :
          /\ handler' = [handler EXCEPT ![a] = n]
          /\ n # Empty => /\ n.sub = h.sub /\ n.chg = h.chg /\ n.ver = h.ver
                          /\ n.pc = "applied" => out \in {"applied", "stale"}
    <3>1. handler' = [handler EXCEPT ![a] = CASE out = "two_live" -> Empty
                                              [] out = "unmapped" -> [h EXCEPT !.pc = "refused"]
                                              [] OTHER -> [h EXCEPT !.pc = "applied"]]
      BY <1>5 DEF ApplyDelivery
    <3>2. out \in {"two_live", "unmapped", "applied", "stale"}
      BY DEF Outcome
    <3>. HIDE DEF h, out
    <3>3. CASE out = "two_live"
      BY <3>1, <3>3
    <3>4. CASE out = "unmapped"
      BY <1>4, <3>1, <3>4
    <3>5. CASE out \in {"applied", "stale"}
      <4>1. handler' = [handler EXCEPT ![a] = [h EXCEPT !.pc = "applied"]]
        BY <3>1, <3>5
      <4>. QED
        BY <1>4, <3>5, <4>1
    <3>. QED
      BY <3>2, <3>3, <3>4, <3>5
  <2>3. /\ row' \in [Subs -> MirrorRow \cup {None}]
        /\ \A t \in Subs : RowKnows(t)'
        /\ \A t \in Subs : row[t] # None => row'[t] # None /\ row'[t].at >= row[t].at /\ ~Undone(t)
        /\ OneEntitlement'
        /\ out \in {"applied", "stale"} => row'[h.sub] # None /\ at <= row'[h.sub].at
    BY <1>1, <1>2, <2>1, RowWritten
  <2>4. HandlerKnows(a)'
    <3>1. handler'[a] = n
      BY <1>3, <2>2
    <3>2. CASE n = Empty
      BY <3>1, <3>2 DEF HandlerKnows
    <3>3. CASE n # Empty
      <4>1. /\ n.sub = h.sub /\ n.chg = h.chg /\ n.ver = h.ver
            /\ n.pc = "applied" => out \in {"applied", "stale"}
        <5>. HIDE DEF h, out
        <5>. QED
          BY <2>2, <3>3
      <4>. QED
        BY <1>2, <1>7, <2>3, <3>1, <4>1 DEF HandlerKnows
    <3>. QED
      BY <3>2, <3>3
  <2>5. Typed'
    BY <1>1, <1>3, <2>2, <2>3 DEF IInv, Typed, current
  <2>. HIDE DEF h, at, out
  <2>. QED
    BY <1>1, <1>3, <2>2, <2>3, <2>4, <2>5, AfterWrite DEF IInv
<1>6. CASE ~attributed(h.sub)
  <2>1. handler' = [handler EXCEPT ![a] = [h EXCEPT !.pc = "refused"]] /\ UNCHANGED row
    BY <1>6 DEF ApplyDelivery
  <2>2. HandlerKnows(a)'
    <3>. DEFINE n == [h EXCEPT !.pc = "refused"]
    <3>1. handler'[a] = n /\ n.sub = h.sub /\ n.chg = h.chg /\ n.ver = h.ver /\ n.pc = "refused"
      BY <1>3, <1>4, <2>1
    <3>. HIDE DEF n
    <3>. QED
      BY <1>2, <1>7, <3>1 DEF HandlerKnows
  <2>3. \A s \in Subs : row[s] # None => ~Undone(s)
    <3>1. \A s \in Subs : row[s] # None => row[s].at \in Nat /\ (Live(s)' <=> Live(s))
      BY <1>1, <2>1 DEF IInv, Typed, MirrorRow, Live, word
    <3>. QED
      BY <2>1, <3>1 DEF Undone, NeverRevivedByATie, StaysDated
  <2>. HIDE DEF h
  <2>. QED
    BY <1>1, <1>4, <2>1, <2>2, <2>3, HandlerStep
<1>. QED
  BY <1>5, <1>6

(* A read is written under the instant its pass began at, which it knows. *)
LEMMA ApplyReadIInv ==
  ASSUME IInv, NEW r \in Readers, ApplyRead(r)
  PROVE  IInv' /\ \A s \in Subs : row[s] # None => ~Undone(s)
<1>. DEFINE got == reader[r].got
            n == IF reader[r].todo = {got.sub} THEN Idle
                 ELSE [reader[r] EXCEPT !.todo = @ \ {got.sub}, !.got = None]
            Reading == [at : Nat, todo : SUBSET Subs, got : Read \cup {None}]
<1>1. /\ got # None /\ UNCHANGED <<clock, provider, inbox, handler, deal>>
      /\ applySubscription(got.sub, got.ver, reader[r].at, FALSE) /\ reader' = [reader EXCEPT ![r] = n]
  <2>1. /\ got # None /\ UNCHANGED <<clock, provider, inbox, handler, deal>>
        /\ applySubscription(got.sub, got.ver, reader[r].at, FALSE)
    BY DEF ApplyRead
  <2>2. reader' = [reader EXCEPT ![r] = n]
    BY DEF ApplyRead
  <2>. QED
    BY <2>1, <2>2
<1>2. /\ reader[r] \in Reading /\ got \in Read /\ reader[r].at \in Nat /\ ReaderKnows(r)
      /\ got.sub \in Subs /\ got.ver \in Nat /\ Knows(got.sub, got.ver, reader[r].at)
  <2>1. reader[r] \in Reading /\ ReaderKnows(r)
    BY DEF IInv, Typed
  <2>2. got \in Read /\ reader[r].at \in Nat
    BY <1>1, <2>1
  <2>. QED
    BY <1>1, <2>1, <2>2 DEF Read, ReaderKnows
<1>3. n \in Reading /\ n.at <= clock /\ n.todo \subseteq reader[r].todo /\ n.got = None
  <2>1. clock \in Nat /\ reader[r].at <= clock
    BY <1>2, Constants DEF IInv, Typed, ReaderKnows
  <2>2. CASE reader[r].todo = {got.sub}
    BY <2>1, <2>2 DEF Idle
  <2>3. CASE reader[r].todo # {got.sub}
    BY <1>2, <2>1, <2>3
  <2>. QED
    BY <2>2, <2>3
<1>. HIDE DEF n
<1>4. /\ row' \in [Subs -> MirrorRow \cup {None}]
      /\ \A t \in Subs : RowKnows(t)'
      /\ \A t \in Subs : row[t] # None => row'[t] # None /\ row'[t].at >= row[t].at /\ ~Undone(t)
      /\ OneEntitlement'
  BY <1>1, <1>2, RowWritten
<1>5. reader' \in [Readers -> Reading] /\ reader'[r] = n /\ \A q \in Readers : q # r => reader'[q] = reader[q]
  BY <1>1, <1>3 DEF IInv, Typed
<1>6. ReaderKnows(r)'
  BY <1>1, <1>2, <1>3, <1>5 DEF ReaderKnows, current
<1>7. Typed'
  BY <1>1, <1>4, <1>5 DEF IInv, Typed, current
<1>. HIDE DEF got
<1>. QED
  BY <1>1, <1>4, <1>5, <1>6, <1>7, AfterWrite DEF IInv
(* An answered delivery is settled only when the mirror has taken it in. *)
LEMMA FinishIInv == ASSUME IInv, NEW a \in Attempts, finishDelivery(a) PROVE IInv'
<1>. DEFINE h == handler[a]
            answer == IF h.pc = "applied" THEN "settled" ELSE "rejected"
<1>1. /\ h.pc \in {"applied", "refused"} /\ inbox' = [inbox EXCEPT ![h.sub][h.chg] = answer]
      /\ handler' = [handler EXCEPT ![a] = Empty] /\ UNCHANGED <<clock, provider, row, reader, deal>>
  BY DEF finishDelivery
<1>2. h # Empty
  BY <1>1 DEF Empty
<1>3. h.sub \in Subs /\ h.chg \in 1 .. current(h.sub) /\ h.chg \in Changes /\ HandlerKnows(a)
  BY <1>2, HandlerTyped DEF Delivery
<1>. HIDE DEF h
<1>4. /\ inbox' \in [Subs -> [Changes -> {"open", "settled", "rejected"}]]
      /\ inbox'[h.sub][h.chg] = answer
      /\ \A s \in Subs, c \in Changes : s # h.sub \/ c # h.chg => inbox'[s][c] = inbox[s][c]
  BY <1>1, <1>3 DEF IInv, Typed
<1>5. handler'[a] = Empty /\ (\A b \in Attempts : b # a => handler'[b] = handler[b])
      /\ handler' \in [Attempts -> Delivery \cup {Empty}]
  BY <1>1 DEF IInv, Typed
<1>6. Typed'
  BY <1>1, <1>4, <1>5 DEF IInv, Typed, current
<1>7. HandlerKnows(a)'
  BY <1>5 DEF HandlerKnows
<1>8. h.pc = "applied" => row[h.sub] # None /\ Stamp(h.sub, h.chg) <= row[h.sub].at
  BY <1>2, <1>3 DEF HandlerKnows, h
<1>9. SettledIsCovered'
  <2>. SUFFICES ASSUME NEW s \in Subs, NEW c \in Changes, inbox'[s][c] = "settled"
                PROVE  row[s] # None /\ Stamp(s, c) <= row[s].at
    BY <1>1 DEF SettledIsCovered, Stamp, Changes
  <2>. QED
    BY <1>4, <1>8 DEF IInv, SettledIsCovered
<1>10. SettledKnown'
  <2>. SUFFICES ASSUME NEW s \in Subs, NEW c \in Changes, inbox'[s][c] # "open" PROVE c <= current(s)
    BY <1>1 DEF SettledKnown, current, Changes
  <2>. QED
    BY <1>3, <1>4 DEF IInv, SettledKnown
<1>. QED
  BY <1>1, <1>5, <1>6, <1>7, <1>9, <1>10, OthersKnow DEF IInv

(* Time only moves the clock on. *)
LEMMA TickIInv == ASSUME IInv, Tick PROVE IInv'
<1>1. /\ clock' \in 0 .. Horizon /\ clock \in Nat /\ clock <= clock' /\ clock' \in Nat
      /\ UNCHANGED <<provider, row, inbox, handler, reader, deal>>
  BY Constants DEF Tick, IInv, Typed
<1>2. Typed'
  BY <1>1 DEF IInv, Typed, current
<1>3. \A s \in Subs : current(s)' = current(s) /\ (\A v : word(s, v)' = word(s, v))
                     /\ (\A c : Stamp(s, c)' = Stamp(s, c))
  BY <1>1 DEF current, word, Stamp
<1>4. ASSUME NEW s \in Subs PROVE Dated(s)' /\ RowKnows(s)'
  <2>1. Dated(s) /\ RowKnows(s) /\ \A u \in 1 .. current(s) : provider[s][u].at \in Nat
    BY Histories DEF IInv
  <2>2. row[s] # None => row[s].at \in Nat
    BY DEF IInv, Typed, MirrorRow
  <2>. QED
    BY <1>1, <1>3, <2>1, <2>2 DEF Dated, RowKnows, Knows
<1>5. ASSUME NEW a \in Attempts PROVE HandlerKnows(a)'
  <2>1. HandlerKnows(a) /\ (handler[a] # Empty => handler[a].sub \in Subs)
    BY HandlerTyped DEF IInv
  <2>. QED
    BY <1>1, <1>3, <2>1 DEF HandlerKnows
<1>6. ASSUME NEW r \in Readers PROVE ReaderKnows(r)'
  <2>1. /\ ReaderKnows(r) /\ reader[r].at \in Nat /\ reader[r].todo \subseteq Subs
        /\ reader[r].got # None => reader[r].got.sub \in Subs
    BY DEF IInv, Typed, Read
  <2>. QED
    BY <1>1, <1>3, <2>1 DEF ReaderKnows, Knows
<1>7. SettledKnown' /\ SettledIsCovered' /\ OneEntitlement'
  <2>1. SettledKnown'
    BY <1>1, <1>3 DEF IInv, SettledKnown, Changes
  <2>2. SettledIsCovered'
    BY <1>1, <1>3 DEF IInv, SettledIsCovered, Changes
  <2>3. \A s \in Subs : Live(s)' <=> Live(s)
    BY <1>1, <1>3 DEF Live
  <2>4. OneEntitlement'
    BY <1>1, <2>3, Constants DEF IInv, OneEntitlement
  <2>. QED
    BY <2>1, <2>2, <2>4
<1>. QED
  BY <1>2, <1>4, <1>5, <1>6, <1>7 DEF IInv

(* A new state is dated now, so nothing that was read or stamped before lacks it. *)
LEMMA ChangeIInv == ASSUME IInv, NEW s \in Subs, NEW w \in Words, Change(s, w) PROVE IInv'
<1>. DEFINE new == [word |-> w, at |-> clock]
<1>1. /\ provider' = [provider EXCEPT ![s] = Append(provider[s], new)] /\ current(s) < MaxChanges[s]
      /\ UNCHANGED <<clock, row, inbox, handler, reader, deal>> /\ new \in State
  BY DEF Change, IInv, Typed, State
<1>2. /\ \A t \in Subs : provider[t] \in Seq(State) /\ current(t) \in Nat /\ clock \in Nat
      /\ MaxChanges[s] \in Nat /\ provider \in [Subs -> Seq(State)]
  BY Histories, SubscriptionAssumption DEF IInv, Typed
<1>3. /\ current(s)' = current(s) + 1
      /\ \A t \in Subs : current(t)' \in Nat /\ current(t) <= current(t)' /\ current(t)' <= MaxChanges[t]
      /\ provider' \in [Subs -> Seq(State)]
      /\ \A t \in Subs : t # s => provider'[t] = provider[t]
  BY <1>1, <1>2 DEF current, IInv, Typed
<1>4. /\ \A t \in Subs : \A u \in 1 .. current(t) : provider'[t][u] = provider[t][u]
      /\ provider'[s][current(s) + 1] = new /\ new.at = clock
  BY <1>1, <1>2 DEF current
<1>5. \A t \in Subs : \A u \in 1 .. current(t)' : u \notin 1 .. current(t) => provider'[t][u] = new /\ t = s
  BY <1>2, <1>3, <1>4 DEF current
<1>. HIDE DEF new
<1>6. Typed'
  BY <1>1, <1>3 DEF IInv, Typed
<1>7. \A t \in Subs : \A u \in 1 .. current(t) : word(t, u)' = word(t, u) /\ Stamp(t, u)' = Stamp(t, u)
  BY <1>4 DEF word, Stamp
<1>8. ASSUME NEW t \in Subs, NEW v, NEW at \in Nat, Knows(t, v, at)
      PROVE  /\ v \in 1 .. current(t)' /\ at <= clock
             /\ \A u \in 1 .. current(t)' : provider'[t][u].at < at => u <= v
  <2>1. v \in 1 .. current(t) /\ at <= clock /\ \A u \in 1 .. current(t) : provider[t][u].at < at => u <= v
    BY <1>8 DEF Knows
  <2>2. v \in 1 .. current(t)'
    BY <1>2, <1>3, <2>1
  <2>3. ASSUME NEW u \in 1 .. current(t)', provider'[t][u].at < at PROVE u <= v
    <3>1. CASE u \in 1 .. current(t)
      BY <1>4, <2>1, <2>3, <3>1
    <3>2. CASE u \notin 1 .. current(t)
      BY <1>2, <1>4, <1>5, <2>1, <2>3, <3>2
    <3>. QED
      BY <3>1, <3>2
  <2>. QED
    BY <2>1, <2>2, <2>3
<1>9. ASSUME NEW t \in Subs PROVE Dated(t)'
  <2>1. Dated(t) /\ \A u \in 1 .. current(t) : provider[t][u].at \in Nat
    BY Histories DEF IInv
  <2>2. ASSUME NEW u \in 1 .. current(t)' PROVE provider'[t][u].at <= clock /\ provider'[t][u].at \in Nat
    <3>1. CASE u \in 1 .. current(t)
      BY <1>4, <2>1, <3>1 DEF Dated
    <3>2. CASE u \notin 1 .. current(t)
      BY <1>2, <1>4, <1>5, <3>2
    <3>. QED
      BY <3>1, <3>2
  <2>3. ASSUME NEW u \in 1 .. current(t)', NEW v \in 1 .. current(t)', u <= v
        PROVE  provider'[t][u].at <= provider'[t][v].at
    <3>1. CASE v \in 1 .. current(t)
      <4>1. u \in 1 .. current(t)
        BY <1>2, <2>3, <3>1
      <4>. QED
        BY <1>4, <2>1, <2>3, <3>1, <4>1 DEF Dated
    <3>2. CASE v \notin 1 .. current(t)
      <4>1. provider'[t][v].at = clock
        BY <1>4, <1>5, <3>2
      <4>. QED
        BY <2>2, <4>1
    <3>. QED
      BY <3>1, <3>2
  <2>. QED
    BY <1>1, <2>2, <2>3 DEF Dated
<1>10. ASSUME NEW t \in Subs PROVE RowKnows(t)'
  <2>. SUFFICES ASSUME row[t] # None PROVE RowKnows(t)'
    BY <1>1 DEF RowKnows
  <2>1. RowKnows(t) /\ row[t].ver \in 1 .. current(t) /\ row[t].at \in Nat /\ Knows(t, row[t].ver, row[t].at)
    BY DEF IInv, RowKnows, Knows, Typed, MirrorRow
  <2>2. Knows(t, row[t].ver, row[t].at)'
    BY <1>1, <1>8, <2>1 DEF Knows
  <2>3. row[t].grace # None => row[t].grace \in 1 .. current(t)' /\ word(t, row[t].ver)' = "past_due"
    BY <1>1, <1>2, <1>3, <1>7, <2>1 DEF RowKnows
  <2>. QED
    BY <1>1, <2>2, <2>3 DEF RowKnows
<1>11. ASSUME NEW a \in Attempts PROVE HandlerKnows(a)'
  <2>. SUFFICES ASSUME handler[a] # Empty PROVE HandlerKnows(a)'
    BY <1>1 DEF HandlerKnows
  <2>. DEFINE h == handler[a]
  <2>1. /\ h.sub \in Subs /\ h.chg \in 1 .. current(h.sub) /\ h.ver \in 1 .. current(h.sub)
        /\ h.chg <= h.ver /\ HandlerKnows(a)
    BY HandlerTyped
  <2>2. h.ver <= current(h.sub)' /\ Stamp(h.sub, h.chg)' = Stamp(h.sub, h.chg)
    BY <1>1, <1>2, <1>3, <1>7, <2>1
  <2>. QED
    BY <1>1, <2>1, <2>2 DEF HandlerKnows
<1>12. ASSUME NEW r \in Readers PROVE ReaderKnows(r)'
  <2>1. /\ ReaderKnows(r) /\ reader[r].at \in Nat /\ reader[r].todo \subseteq Subs
        /\ reader[r].got # None => reader[r].got.sub \in Subs /\ reader[r].got.ver \in Nat
    BY DEF IInv, Typed, Read
  <2>2. reader[r].got # None => Knows(reader[r].got.sub, reader[r].got.ver, reader[r].at)'
    BY <1>1, <1>8, <2>1 DEF ReaderKnows, Knows
  <2>3. \A t \in reader[r].todo : current(t)' > 0
    BY <1>2, <1>3, <2>1 DEF ReaderKnows
  <2>. QED
    BY <1>1, <2>1, <2>2, <2>3 DEF ReaderKnows, Knows
<1>13. SettledKnown' /\ SettledIsCovered'
  <2>1. \A t \in Subs, c \in Changes : inbox[t][c] # "open" => c \in 1 .. current(t)
    <3>1. \A c \in Changes : c \in Nat \ {0}
      BY Constants
    <3>2. \A t \in Subs, c \in Changes : inbox[t][c] # "open" => c <= current(t)
      BY DEF IInv, SettledKnown
    <3>. QED
      BY <1>2, <3>1, <3>2
  <2>2. \A t \in Subs, c \in Changes : inbox[t][c] # "open" => c <= current(t)'
    BY <1>2, <1>3, <2>1
  <2>3. \A t \in Subs, c \in Changes : inbox[t][c] = "settled" => row[t] # None /\ Stamp(t, c)' <= row[t].at
    BY <1>7, <2>1 DEF IInv, SettledIsCovered
  <2>. QED
    BY <1>1, <2>2, <2>3 DEF SettledKnown, SettledIsCovered, Changes
<1>14. OneEntitlement'
  <2>1. \A t \in Subs : row[t] # None => row[t].ver \in 1 .. current(t)
    BY DEF IInv, RowKnows, Knows
  <2>2. \A t \in Subs : Live(t)' <=> Live(t)
    BY <1>1, <1>7, <2>1 DEF Live
  <2>. QED
    BY <1>1, <2>2, Constants DEF IInv, OneEntitlement
<1>. QED
  BY <1>6, <1>9, <1>10, <1>11, <1>12, <1>13, <1>14 DEF IInv

(* A deal's terms go only while no live subscription maps through them. *)
LEMMA DealIInv == ASSUME IInv, SetPlan \/ Clear PROVE IInv'
<1>1. UNCHANGED <<clock, provider, row, inbox, handler, reader>> /\ deal' \in BOOLEAN
      /\ (deal' \/ \A s \in Deals : ~Live(s))
  BY DEF SetPlan, Clear
<1>2. Typed'
  BY <1>1 DEF IInv, Typed, current
<1>3. \A s \in Subs : Live(s)' <=> Live(s)
  BY <1>1 DEF Live, word
<1>4. OneEntitlement'
  BY <1>1, <1>3, Constants DEF IInv, OneEntitlement
<1>. QED
  BY <1>1, <1>2, <1>4, OthersKnow DEF IInv
(* Nothing happens. *)
LEMMA StutterIInv == ASSUME IInv, UNCHANGED vars PROVE IInv'
<1>1. UNCHANGED <<clock, provider, row, inbox, handler, reader, deal>>
  BY DEF vars
<1>2. Typed'
  BY <1>1 DEF IInv, Typed, current
<1>. QED
  BY <1>1, <1>2, OthersKnow DEF IInv

(* Only an apply writes a row; no other step changes what a row stands for. *)
LEMMA NothingWritten ==
  ASSUME IInv, row' = row, \/ provider' = provider
                          \/ \E s \in Subs, w \in Words : Change(s, w)
  PROVE  \A s \in Subs : row[s] # None => ~Undone(s)
<1>. SUFFICES ASSUME NEW s \in Subs, row[s] # None PROVE ~Undone(s)
  OBVIOUS
<1>1. row[s] \in MirrorRow /\ row[s].ver \in 1 .. current(s) /\ provider[s] \in Seq(State)
  BY DEF IInv, RowKnows, Knows, Typed
<1>2. provider'[s][row[s].ver] = provider[s][row[s].ver]
  <2>1. CASE provider' = provider
    BY <2>1
  <2>2. ASSUME NEW t \in Subs, NEW w \in Words, Change(t, w) PROVE provider'[s][row[s].ver] = provider[s][row[s].ver]
    <3>1. provider' = [provider EXCEPT ![t] = Append(provider[t], [word |-> w, at |-> clock])]
      BY <2>2 DEF Change
    <3>2. provider \in [Subs -> Seq(State)] /\ [word |-> w, at |-> clock] \in State
      BY DEF IInv, Typed, State
    <3>. QED
      BY <1>1, <3>1, <3>2 DEF current
  <2>. QED
    BY <2>1, <2>2
<1>3. Live(s)' <=> Live(s)
  BY <1>2 DEF Live, word
<1>. QED
  BY <1>1, <1>3 DEF Undone, NeverRevivedByATie, StaysDated, MirrorRow

(* Every step keeps the invariant, and undoes no row. *)
LEMMA NextIInv ==
  ASSUME IInv, [Next]_vars PROVE IInv' /\ \A s \in Subs : row[s] # None => ~Undone(s)
<1>1. CASE Tick \/ SetPlan \/ Clear
  BY <1>1, TickIInv, DealIInv, NothingWritten DEF Tick, SetPlan, Clear
<1>2. ASSUME NEW s \in Subs, NEW w \in Words, Change(s, w)
      PROVE  IInv' /\ \A t \in Subs : row[t] # None => ~Undone(t)
  <2>1. row' = row
    BY <1>2 DEF Change
  <2>. QED
    BY <1>2, <2>1, ChangeIInv, NothingWritten
<1>3. ASSUME NEW a \in Attempts, (\E s \in Subs, c \in Changes : Deliver(a, s, c)) \/ Drop(a) \/ finishDelivery(a)
      PROVE  IInv' /\ \A s \in Subs : row[s] # None => ~Undone(s)
  <2>1. UNCHANGED <<provider, row>>
    BY <1>3 DEF Deliver, Drop, finishDelivery
  <2>2. IInv'
    BY <1>3, DeliverIInv, DropIInv, FinishIInv
  <2>. QED
    BY <2>1, <2>2, NothingWritten
<1>4. ASSUME NEW r \in Readers, \/ Reconcile(r)
                                \/ \E s \in Subs : ConfirmCheckout(r, s) \/ Fetch(r, s) \/ Unreadable(r, s)
      PROVE  IInv' /\ \A s \in Subs : row[s] # None => ~Undone(s)
  <2>1. UNCHANGED <<provider, row>>
    BY <1>4 DEF Reconcile, ConfirmCheckout, Fetch, Unreadable
  <2>2. IInv'
    BY <1>4, BeginIInv, FetchIInv, UnreadableIInv
  <2>. QED
    BY <2>1, <2>2, NothingWritten
<1>5. CASE UNCHANGED vars
  BY <1>5, StutterIInv, NothingWritten DEF vars
<1>. QED
  BY <1>1, <1>2, <1>3, <1>4, <1>5, ApplyDeliveryIInv, ApplyReadIInv DEF Next

(* Stamps bound what the rows, the deliveries and the reads know, in every reachable
   state.                                                                           *)
THEOREM SubscriptionStamps == Spec => []IInv
<1>1. IInv /\ [Next]_vars => IInv'
  BY NextIInv
<1>. QED
  BY <1>1, InitIInv, PTL DEF Spec

(* The types the run checks follow. *)
LEMMA IInvTypes == IInv => TypeOK
<1>. SUFFICES ASSUME IInv PROVE TypeOK
  OBVIOUS
<1>1. ASSUME NEW s \in Subs
      PROVE  /\ current(s) \in 0 .. MaxChanges[s]
             /\ \A v \in 1 .. current(s) : provider[s][v] \in [word : Words, at : 0 .. Horizon]
             /\ row[s] # None => /\ row[s].ver \in 1 .. current(s)
                                 /\ row[s].at \in 0 .. Horizon
                                 /\ row[s].grace # None =>
                                      /\ row[s].grace \in 1 .. current(s)
                                      /\ word(s, row[s].ver) = "past_due"
  <2>1. /\ current(s) \in Nat /\ current(s) <= MaxChanges[s] /\ MaxChanges[s] \in Nat
        /\ \A v \in 1 .. current(s) : provider[s][v] \in State
    BY Histories, SubscriptionAssumption DEF IInv, Typed
  <2>2. row[s] # None => /\ row[s].ver \in 1 .. current(s) /\ row[s].at \in Nat /\ row[s].at <= clock
    BY DEF IInv, RowKnows, Knows, Typed, MirrorRow
  <2>3. row[s] # None /\ row[s].grace # None => row[s].grace \in 1 .. current(s) /\ word(s, row[s].ver) = "past_due"
    BY DEF IInv, RowKnows
  <2>4. clock \in 0 .. Horizon
    BY DEF IInv, Typed
  <2>. QED
    BY <2>1, <2>2, <2>3, <2>4, Constants DEF State
<1>2. ASSUME NEW a \in Attempts PROVE handler[a].pc \in {"free", "stored", "applied", "refused"}
  BY DEF IInv, Typed, Delivery, Empty
<1>3. ASSUME NEW r \in Readers PROVE reader[r].todo \subseteq Subs
  BY DEF IInv, Typed
<1>4. clock \in 0 .. Horizon /\ DOMAIN provider = Subs /\ deal \in BOOLEAN
      /\ inbox \in [Subs -> [Changes -> {"open", "settled", "rejected"}]]
  BY DEF IInv, Typed
<1>. QED
  BY <1>1, <1>2, <1>3, <1>4 DEF TypeOK

(* The mirror is well typed, no row is older than its stamp says, and an org is never
   entitled by two subscriptions, nor by a deal whose terms no row holds: however
   deliveries, reads and operators' acts overlap.                                   *)
THEOREM MirrorIsFresh == Spec => []Inv
<1>1. IInv => AsFreshAsItsStamp /\ OneEntitlement
  BY DEF IInv, RowKnows, Knows, AsFreshAsItsStamp
<1>. QED
  BY <1>1, IInvTypes, SubscriptionStamps, PTL DEF Inv

(* A delivery that was answered with success, and has no reason on its row, is in the
   mirror, wherever its handler may have died before.                               *)
THEOREM SettledIsMirrored == Spec => []SettledIsCovered
<1>1. IInv => SettledIsCovered
  BY DEF IInv
<1>. QED
  BY <1>1, SubscriptionStamps, PTL

(* No write takes a row back in time, revives a subscription within one instant, or
   loses the deadline of an open grace window.                                     *)
THEOREM LateWritesUndoNothing == Spec => NothingUndone
<1>1. IInv /\ [Next]_vars => [\A s \in Subs : row[s] # None => NeverRevivedByATie(s) /\ StaysDated(s)]_vars
  BY NextIInv DEF Undone
<1>. QED
  BY <1>1, SubscriptionStamps, PTL DEF Spec, NothingUndone
===============================================================================
