----------------------------- MODULE Subscription -----------------------------
(* An org's provider subscriptions and the rows that mirror them: the webhook
   inbox, the reconcile pass, a buyer's confirmation, and the operator's row that
   maps a negotiated deal's product.

   A subscription is the history of the states its provider has held it in; a row
   holds a place in that history and the stamp it was written under.  clock counts
   parts of a second.  A read is stamped with the clock its pass began at, a
   delivery with the whole second of the change it tells of.                    *)
EXTENDS Integers, Sequences

CONSTANTS
  Subs,        \* the org's subscriptions at the provider
  Deals,       \* those bought by payment link against a negotiated deal's product
  Words,       \* the provider's words for a state of one
  Held,        \* those live and mirrored to begin with
  Readers,     \* reconcile passes and buyers' confirmations at one time
  Attempts,    \* deliveries on their way or in a handler at one time
  Second,      \* the clock's parts of a second
  MaxChanges, Quiet, Horizon, \* bounds: each subscription's states, the end of
               \* changes and failures, the last instant
  None         \* no row, no read, no deadline

ASSUME SubscriptionAssumption ==
  /\ "active" \in Words /\ Words \subseteq {"active", "past_due", "on_hold", "paused", "cancelled"}
  /\ Deals \subseteq Subs /\ Held \subseteq Subs /\ \A s, t \in Held : s = t
  /\ MaxChanges \in [Subs -> Nat \ {0}] /\ {Second, Quiet, Horizon} \subseteq Nat \ {0}
  /\ None \notin Nat /\ None \notin [ver : Nat, at : Nat, grace : Nat \cup {None}]
  /\ None \notin [sub : Subs, ver : Nat]

VARIABLES
  clock,
  provider,  \* each subscription's states, [word, at]
  row,       \* the mirror rows, [ver, at, grace]
  inbox,     \* the delivery rows; "open" is none, or one not processed
  handler,   \* the deliveries being handled, [sub, chg, ver, pc]
  reader,    \* each reader's progress, [at, todo, got]
  deal       \* whether the org's entitlement row names the deal's product

vars == <<clock, provider, row, inbox, handler, reader, deal>>

IsLive(w) == w \in {"active", "past_due", "on_hold"}
Changes == UNION {1 .. MaxChanges[s] : s \in Subs}
Empty == [pc |-> "free"]
Idle == [at |-> 0, todo |-> {}, got |-> None]

current(s) == Len(provider[s])
word(s, v) == provider[s][v].word
Live(s) == row[s] # None /\ IsLive(word(s, row[s].ver))
Stamp(s, c) == Second * (provider[s][c].at \div Second)

(* The grace window state v of s is in, named by the state that opened it. *)
Window(s, v) ==
  CHOOSE w \in 1 .. v : /\ \A u \in w .. v : word(s, u) = "past_due"
                        /\ w = 1 \/ word(s, w - 1) # "past_due"

TypeOK ==
  /\ clock \in 0 .. Horizon
  /\ DOMAIN provider = Subs
  /\ \A s \in Subs : /\ current(s) \in 0 .. MaxChanges[s]
                     /\ \A v \in 1 .. current(s) : provider[s][v] \in [word : Words, at : 0 .. Horizon]
                     /\ row[s] # None => /\ row[s].ver \in 1 .. current(s)
                                         /\ row[s].at \in 0 .. Horizon
                                         /\ row[s].grace # None =>
                                              /\ row[s].grace \in 1 .. current(s)
                                              /\ word(s, row[s].ver) = "past_due"
  /\ inbox \in [Subs -> [Changes -> {"open", "settled", "rejected"}]]
  /\ \A a \in Attempts : handler[a].pc \in {"free", "stored", "applied", "refused"}
  /\ \A r \in Readers : reader[r].todo \subseteq Subs
  /\ deal \in BOOLEAN

Init ==
  /\ clock = 0
  /\ provider = [s \in Subs |-> IF s \in Held THEN <<[word |-> "active", at |-> 0]>> ELSE <<>>]
  /\ row = [s \in Subs |-> IF s \in Held THEN [ver |-> 1, at |-> 0, grace |-> None] ELSE None]
  /\ inbox = [s \in Subs |-> [c \in Changes |-> "open"]]
  /\ handler = [a \in Attempts |-> Empty]
  /\ reader = [r \in Readers |-> Idle]
  /\ deal = TRUE

Tick ==
  /\ clock < Horizon
  /\ clock' = clock + 1
  /\ UNCHANGED <<provider, row, inbox, handler, reader, deal>>

(* The buyer or the provider changes a subscription; a cancelled one is over. *)
Change(s, w) ==
  /\ clock < Quiet /\ current(s) < MaxChanges[s]
  /\ current(s) > 0 => word(s, current(s)) \notin {w, "cancelled"}
  /\ current(s) = 0 => w = "active"
  /\ provider' = [provider EXCEPT ![s] = Append(@, [word |-> w, at |-> clock])]
  /\ UNCHANGED <<clock, row, inbox, handler, reader, deal>>

(* The delivery of change c is sent until it is processed: it carries the
   subscription as it is now and inserts or finds its row.  One already processed
   changes nothing.                                                             *)
Deliver(a, s, c) ==
  /\ handler[a] = Empty /\ clock < Quiet
  /\ c <= current(s) /\ inbox[s][c] = "open"
  /\ handler' = [handler EXCEPT ![a] = [sub |-> s, chg |-> c, ver |-> current(s), pc |-> "stored"]]
  /\ UNCHANGED <<clock, provider, row, inbox, reader, deal>>

(* A request lost, a handler that fails or dies, or a provider that hangs up. *)
Drop(a) ==
  /\ handler[a] # Empty /\ clock < Quiet
  /\ handler' = [handler EXCEPT ![a] = Empty]
  /\ UNCHANGED <<clock, provider, row, inbox, reader, deal>>

(* A catalog plan's checkout minted a ref, and a deal's payment link counts while
   the org's row names its product; a stored row attributes by its customer.    *)
attributed(s) == s \notin Deals \/ deal \/ row[s] # None

(* A subscription grants a plan only if its product still maps to one; ending a
   stored one needs no product.                                                 *)
planForProduct(s, v) == \/ s \notin Deals \/ deal
                        \/ ~IsLive(word(s, v)) /\ row[s] # None

Newer(s, at) ==
  \/ row[s] = None
  \/ row[s].at < at
  \/ row[s].at = at /\ Live(s)

(* billing_subscriptions_one_live_idx *)
TwoLive(s, v) == IsLive(word(s, v)) /\ \E t \in Subs \ {s} : Live(t)

(* What applySubscription does with state v of s, in the org's lock. *)
Outcome(s, v, at) ==
  IF ~planForProduct(s, v) THEN "unmapped"
  ELSE IF ~Newer(s, at) THEN "stale"
  ELSE IF TwoLive(s, v) THEN "two_live"
  ELSE "applied"

GraceErased(s, v, delivery) ==
  IF word(s, v) = "past_due" /\ delivery THEN Window(s, v) ELSE None

(* The deadline a delivery or a read of state v stores: only a delivery can see
   one inside a grace window, and a read there keeps the row's.                 *)
Grace(s, v, delivery) ==
  IF word(s, v) # "past_due" THEN None
  ELSE IF delivery THEN Window(s, v)
  ELSE IF row[s] = None THEN None ELSE row[s].grace

Applied(s, v, at, delivery) ==
  [row EXCEPT ![s] = [ver |-> v, at |-> at, grace |-> Grace(s, v, delivery)]]

(* A refused delivery still dates a window the row has no date for. *)
fillGraceDeadline(s, v) ==
  IF word(s, v) = "past_due" /\ word(s, row[s].ver) = "past_due" /\ row[s].grace = None
    THEN [row EXCEPT ![s].grace = Window(s, v)]
    ELSE row

applySubscription(s, v, at, delivery) ==
  row' = CASE Outcome(s, v, at) = "applied" -> Applied(s, v, at, delivery)
           [] Outcome(s, v, at) = "stale" /\ delivery -> fillGraceDeadline(s, v)
           [] OTHER -> row

(* What a handler does next: mark the row processed, or fail and be sent again. *)
ApplyDelivery(a) ==
  LET h == handler[a]
      out == Outcome(h.sub, h.ver, Stamp(h.sub, h.chg))
  IN
  /\ h.pc = "stored"
  /\ IF attributed(h.sub)
       THEN /\ applySubscription(h.sub, h.ver, Stamp(h.sub, h.chg), TRUE)
            /\ handler' = [handler EXCEPT ![a] =
                 CASE out = "two_live" -> Empty
                   [] out = "unmapped" -> [h EXCEPT !.pc = "refused"]
                   [] OTHER -> [h EXCEPT !.pc = "applied"]]
       ELSE /\ handler' = [handler EXCEPT ![a].pc = "refused"]
            /\ UNCHANGED row
  /\ UNCHANGED <<clock, provider, inbox, reader, deal>>

FinishWithoutReason(a) ==
  LET h == handler[a] IN
  /\ h.pc \in {"applied", "refused"}
  /\ inbox' = [inbox EXCEPT ![h.sub][h.chg] = "settled"]
  /\ handler' = [handler EXCEPT ![a] = Empty]
  /\ UNCHANGED <<clock, provider, row, reader, deal>>

finishDelivery(a) ==
  LET h == handler[a] IN
  /\ h.pc \in {"applied", "refused"}
  /\ inbox' = [inbox EXCEPT ![h.sub][h.chg] = IF h.pc = "applied" THEN "settled" ELSE "rejected"]
  /\ handler' = [handler EXCEPT ![a] = Empty]
  /\ UNCHANGED <<clock, provider, row, reader, deal>>

ReconcileLive(r) ==
  /\ reader[r].todo = {}
  /\ \E s \in Subs : row[s] # None
  /\ reader' = [reader EXCEPT ![r] = [at |-> clock, todo |-> {s \in Subs : Live(s)}, got |-> None]]
  /\ UNCHANGED <<clock, provider, row, inbox, handler, deal>>

(* A reconcile pass lists the rows; now is the clock it began at. *)
Reconcile(r) ==
  /\ reader[r].todo = {}
  /\ \E s \in Subs : row[s] # None
  /\ reader' = [reader EXCEPT ![r] = [at |-> clock, todo |-> {s \in Subs : row[s] # None}, got |-> None]]
  /\ UNCHANGED <<clock, provider, row, inbox, handler, deal>>

(* A buyer back from the checkout pug opened: no row is needed for it. *)
ConfirmCheckout(r, s) ==
  /\ reader[r].todo = {} /\ clock < Quiet
  /\ s \notin Deals /\ current(s) > 0
  /\ reader' = [reader EXCEPT ![r] = [at |-> clock, todo |-> {s}, got |-> None]]
  /\ UNCHANGED <<clock, provider, row, inbox, handler, deal>>

(* The provider is asked for one subscription. *)
Fetch(r, s) ==
  /\ s \in reader[r].todo /\ reader[r].got = None
  /\ reader' = [reader EXCEPT ![r].got = [sub |-> s, ver |-> current(s)]]
  /\ UNCHANGED <<clock, provider, row, inbox, handler, deal>>

(* A read that fails leaves its row for the next pass. *)
Unreadable(r, s) ==
  /\ s \in reader[r].todo /\ reader[r].got = None /\ clock < Quiet
  /\ reader' = [reader EXCEPT ![r].todo = @ \ {s}]
  /\ UNCHANGED <<clock, provider, row, inbox, handler, deal>>

ApplyReadStampedLate(r) ==
  LET got == reader[r].got IN
  /\ got # None
  /\ applySubscription(got.sub, got.ver, clock, FALSE)
  /\ reader' = [reader EXCEPT ![r] =
       IF reader[r].todo = {got.sub} THEN Idle
       ELSE [reader[r] EXCEPT !.todo = @ \ {got.sub}, !.got = None]]
  /\ UNCHANGED <<clock, provider, inbox, handler, deal>>

ApplyRead(r) ==
  LET got == reader[r].got IN
  /\ got # None
  /\ applySubscription(got.sub, got.ver, reader[r].at, FALSE)
  /\ reader' = [reader EXCEPT ![r] =
       IF reader[r].todo = {got.sub} THEN Idle
       ELSE [reader[r] EXCEPT !.todo = @ \ {got.sub}, !.got = None]]
  /\ UNCHANGED <<clock, provider, inbox, handler, deal>>

(* An operator stages the deal. *)
SetPlan ==
  /\ ~deal /\ clock < Quiet
  /\ deal' = TRUE
  /\ UNCHANGED <<clock, provider, row, inbox, handler, reader>>

(* An operator clears the row, or points it at another product: refused while a
   live subscription maps through it.                                           *)
Clear ==
  /\ deal /\ clock < Quiet
  /\ \A s \in Deals : ~Live(s)
  /\ deal' = FALSE
  /\ UNCHANGED <<clock, provider, row, inbox, handler, reader>>

Next ==
  \/ Tick \/ SetPlan \/ Clear
  \/ \E s \in Subs, w \in Words : Change(s, w)
  \/ \E a \in Attempts :
       \/ \E s \in Subs, c \in Changes : Deliver(a, s, c)
       \/ Drop(a) \/ ApplyDelivery(a) \/ finishDelivery(a)
  \/ \E r \in Readers :
       \/ Reconcile(r) \/ ApplyRead(r)
       \/ \E s \in Subs : ConfirmCheckout(r, s) \/ Fetch(r, s) \/ Unreadable(r, s)

Spec == Init /\ [][Next]_vars

(* The CronJob runs pass after pass, and time goes on; deliveries may all be lost. *)
FairSpec ==
  /\ Spec
  /\ WF_vars(Tick)
  /\ \A r \in Readers : WF_vars(Reconcile(r) \/ ApplyRead(r) \/ \E s \in Subs : Fetch(r, s))
  /\ \A a \in Attempts : WF_vars(ApplyDelivery(a) \/ finishDelivery(a))

-------------------------------------------------------------------------------
(* A row is as fresh as its stamp says: it holds every state the provider moved to
   before that instant, whatever was read when and landed in what order.        *)
AsFreshAsItsStamp ==
  \A s \in Subs : row[s] # None =>
    \A v \in 1 .. current(s) : provider[s][v].at < row[s].at => v <= row[s].ver

(* A delivery answered with success and no reason on its row is one the mirror has
   taken in: its subscription has a row, stamped no earlier than the delivery.   *)
SettledIsCovered ==
  \A s \in Subs, c \in Changes : inbox[s][c] = "settled" =>
    row[s] # None /\ Stamp(s, c) <= row[s].at

(* One org is never entitled by two subscriptions, nor by a deal whose terms no row
   holds: the clear and the apply take one lock.                                *)
OneEntitlement ==
  /\ \A s, t \in Subs : Live(s) /\ Live(t) => s = t
  /\ \A s \in Deals : Live(s) => deal

(* A write never takes a row back in time, and within one instant never revives a
   subscription.                                                                *)
NeverRevivedByATie(s) ==
  /\ row'[s].at >= row[s].at
  /\ ~Live(s) /\ Live(s)' => row'[s].at > row[s].at

(* A dated grace window stays dated until the provider says it has closed: reads,
   which cannot see the deadline, re-write the row on every pass.                *)
StaysDated(s) ==
  row[s].grace # None /\ row'[s].grace = None => word(s, row'[s].ver) # "past_due"

(* Neither the state of a row nor its deadline is lost to a write that came late. *)
NothingUndone == [][\A s \in Subs : row[s] # None => NeverRevivedByATie(s) /\ StaysDated(s)]_vars

(* Once the provider is quiet, the passes bring every row to its state, except one
   held off by a second live subscription or a product nothing maps.            *)
Unplaced(s) ==
  /\ IsLive(word(s, current(s)))
  /\ \/ s \in Deals /\ ~deal
     \/ \E t \in Subs \ {s} : current(t) > 0 /\ IsLive(word(t, current(t)))

Converges ==
  <>[](\A s \in Subs : row[s] # None => row[s].ver = current(s) \/ Unplaced(s))

(* Well typed, no row older than its stamp, and one entitlement an org. *)
Inv == TypeOK /\ AsFreshAsItsStamp /\ OneEntitlement
===============================================================================
