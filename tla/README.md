# pug: specifications, model checking and proofs

pug is a product-analytics server: SDKs send events and identify calls, workers
write them to ClickHouse and PostgreSQL over NATS JetStream, dashboards query
them, and cron jobs meter usage, bill it, enforce retention and erase what was
deleted. This directory holds TLA+ modules of the parts whose correctness
depends on the order in which several actors do things: a worker redelivered a
message, a pass cut short, a call whose answer was lost, two handlers on one row.

Everything is translated from the Go source and the SQL it runs; `PROJECT.json`
names the lines behind every definition.

## 1. The system

| component | state it keeps | operations | what is hard | what makes it correct |
|---|---|---|---|---|
| **Erasure** `core/profiles/erasure.go`, `workers/compliance` | `compliance_requests` ledger; erase messages; profiles, devices, events, activity, aliases | request by id / external id, re-drive, execute, fail | overlapping deliveries, crashes between stores, racing callers | completed means erased; the ledger names what was erased; every driven request completes |
| **NATS worker** `deps/nats/worker.go` | delivery counts, iterators, health flag | consume, ack, nak, dead letter, restart, drain | lost answers, prefetch, shutdown, shared flag | handled before ack, buried before term, every retry used, nothing left behind |
| **Billing meter** `core/billing/meter` | `billing_meter_periods` ledger; the provider's max meters | state, write ahead, ingest, acknowledge, resend | lost answers, late renewals, cut-overs, recounts | each day stated once, never overbilled, never understated |
| **Purge** `core/purge`, `core/projects` | `project_deletions` row, ClickHouse deletes, `usage_daily` | request, begin, round, batches, finish, watch, reopen | late writes, deletes applied later, lost lock | one delete at a time, empty after the watch, usage kept, gets done |
| **Subscriptions** `core/billing/subscription` | webhook inbox, `billing_subscriptions`, checkout refs | delivery, confirm, reconcile, prune | redelivered and reordered webhooks, reconcile racing them | a row as fresh as its stamp, one live subscription, rows converge |
| **Usage** `core/usage`, `cron/usage` | `usage_daily`, `usage_periods` | meter, record, reconcile, refresh, prune | empty or short ClickHouse reads, a pass failing half-way | a bad read never erases stored usage; sums agree with days |
| **Sessions** `core/auth` | refresh-token families, single-use links | sign in, rotate, reuse, sign out | two rotations of one token, rotation against revocation, deadlocks | one successor a token, what ended stays ended, every request is answered |
| **Identify** `workers/profiles` | PostgreSQL profiles and devices; ClickHouse profiles and aliases | upsert, merge, publish | publish order is not apply order, retries after a commit | a batch appears whole and in order in both stores, a merge is told to ClickHouse |
| **Campaigns** `workers/scheduler`, `workers/campaigns` | campaign status | publish when due, send, finish | republished until taken, redelivered half-sent | a due campaign is published until a worker takes it; that it is sent only once is not promised |
| **Devices** `workers/devices` | device rows | subscribe, status, token | subscribe before the profile exists | a device ends on its profile |
| **Cron locks** `app/cron/lock.go` | an advisory lock on a connection of its own | try, hold, drop | the connection can drop mid-pass | passes stay safe without it |
| **Orgs, domains, SSO** `core/orgs` | memberships, domains, connections | invite, join, verify | a role cache | single transactions under row locks |
| **Retention** `core/retention`, `cron/retention` | `retention_state`, ClickHouse deletes | pass, expire, override | three reads to tell a lapse, an expire during a pass, failed passes, dates | no event goes without notice, paid history only once asked for, the length in force gets enforced |
| events, email, insights, dashboards, server, seed, tools | | | | enrichment, queries and plumbing, no protocol of their own |

How they meet: RPC handlers and services publish to JetStream, and every queue
consumer runs on the NATS worker. The crons run under the advisory lock, each
over its own pool. Usage is counted from ClickHouse into `usage_daily`; the
billing meter reads those cells, the purge freezes them before it erases the
events they count. Subscriptions tell the meter which period is running. Erasure,
purge and usage meet in ClickHouse only.

`PROJECT.json` lists every component with its status, and under `hazards` what in
this code is hard to test, at the line where it bites.

## 2. The plan

1. **Erasure** (done): the core privacy promise, and the most interleaved code.
2. **Disposition, Delivery** (done): what a worker promises about a message, and
   the worker implementing it. Every consumer below relies on it.
3. **Statement, BillingMeter** (done): the arithmetic, then the pass around it.
4. **Purge** (done): the long-running deletion.
5. **ErasureProofs** and the first half of **WorkerProofs**, about Delivery (done).
6. **Subscription** (done): the webhook inbox, confirm and reconcile against the
   stamp and the one-live index.
7. **Identify** (done): a batch folded into messages, applied out of order to two
   stores.
8. **Usage** (done): the pass with its gates, beside the purge's freeze.
9. **Sessions** (done): a token family under READ COMMITTED with row locks.
10. **Retention** (done): the length's state and the deletes it leads to.
11. **SessionsProofs**, **SubscriptionProofs**, **PurgeProofs**, **RetentionProofs**,
    **MeterProofs**, **UsageProofs** and the second half of **WorkerProofs**, about
    Identify (done): section 6. Each rests on an invariant of what an actor between two
    steps still knows.
12. Open: campaigns, whose scheduler and worker promise no more than Delivery; the
    refusal of stale usage in the meter's loop over orgs.

Parameters are CONSTANTS with named assumptions, one action per operation, and no
module uses a RECURSIVE operator, so all of them can be proved about. Theorems stand
in the `*Proofs` modules, one per module they are about; WorkerProofs is about two, the
worker and the most intricate of the consumers that run on it.

## 3. The modules

**Erasure.** One data subject: a profile id, its external id and its merged
aliases. `ledger` is the table, `call[c]` an RPC handler between two of its
statements, `work[w]` a delivery between two of its own, the stores are sets of
ids with rows. The prelude is modelled statement by statement too: `Request` and
`ResolveID`; for an id without a live profile `ResolveAlias`, `ReopenCanonical`,
`ResolveCanonical`, `ResolveAsExternal` and `Probe`, and `ReopenExternal` and
`ResolveExternal` for an external id; then `InsertRow` or `InsertConflict`, `Revive`
and `Publish`. Between any two of them the worker may delete what the first one saw. A
canonical of one subject is no alias itself, so the lookup that fails closed on a chain
of aliases (`erasure.go:231-247`) always finds none. `Load` to `Complete` are
`ExecuteErasure` statement by statement, `Ack`, `MarkFailed`, `StepFails`, `Crash`
its ends. The partial unique indexes are `Conflicts`. A statement whose answer is
lost has happened (`DoneOrLost`). `claim` is a history variable: the ids a request
could name when it was made.

**Disposition** is the abstract specification of a consumer: handle before ack,
bury before term, settle once. **Delivery** is the worker: `loop[l]` is one of its
goroutines, `buf[l]` its iterator, `deliveries` and `settled` the server's side.
It implements Disposition under `buried <- dlq \cup dropped, fate <- settled`.

**Statement** is the arithmetic of the meter as operators: `Split` over tiers,
`carry`, `maxEach`, days and windows. **BillingMeter** is one org: `sub` its live
subscription, `cells` the day counts, `ledger` the rows, `held` what the provider's
max meters hold. `Begin`, `State`, `Superseded`, `Ingest`, `ack`, `Fail` are the
pass; the rest is the world it runs in: renewals, hold payments, plan changes,
recounts, and reports up to `Lag` late. `peak` and `starts` are history.
`TiersCountTheirEvents` compares `Split` with its meaning event by event, on `Inputs`.

**Purge** is one project: `deletion` its ledger row, `rows` and `deletes` ClickHouse,
`pg` what PostgreSQL has left, `pass[p]` a pass between two statements, working on
the row it listed (`d`) and the time it started (`now`). `covered[t]` are the rows
the last queued delete of a table covers: ClickHouse removes those, whenever it
applies it, and not the ones written since. `clock` counts hours.

**Subscription** is one org's subscriptions at the provider and their rows.
`provider[s]` is the history of a subscription's states; `row[s]` holds a place in
it (`ver`), the stamp it was written under and the window a grace deadline belongs
to. `Deliver`, `ApplyDelivery`, `finishDelivery` are `HandleDelivery`, with `Drop`
between any two of them; `Reconcile`, `ConfirmCheckout`, `Fetch`, `ApplyRead` the
reads, stamped when they began; `SetPlan` and `Clear` the operator's. The three
writers share `applySubscription`, the transaction under the org's lock. Stamps of
deliveries are whole seconds, as the header is, and tie.

**Identify** follows a batch: `fold` is the handler's coalescing, `work[m]` an
identify message between two statements of its handler, `rows`, `anons`, `device`
PostgreSQL, `upserts` and `claims` the streams the worker publishes to, `ch` and
`aliases` ClickHouse. The value of a trait is the number of the item that set it, so
the properties can say *in order*; one that an anonymous profile was given is `Guest`.
`Upsert` to `PublishAlias` are the worker's handler, which `HandlerFails` sends back to
its start; `Join` and `Commit` are the two statements of a merge's transaction.

**Usage** is the pass over projects and days: `events` is ClickHouse, `stored`
`usage_daily`, `periods` `usage_periods`, `lastFull` the row that remembers the wide
pass. `ReadCounts` may return nothing, leave a project out, or be another
deployment's; `Check` is the gate in front of `Reconcile`. `CountForPurge` and
`Freeze` are the purge's count and freeze, split where the code splits them.

**Sessions** is one family of tokens: `row` the table, `tx[r]` a request and its
transaction with the locks it holds. `Lookup`, `Rotate`, `Revoke`, `Update`,
`CommitRotation`, `CommitRevocation` are the statements and what READ COMMITTED lets them see: a statement waits for
the lock of a row and then sees its latest version, but not a row inserted since it
started. `Abort` is PostgreSQL breaking a deadlock.

**Retention** is one org, project and table: `org` and `config` what its length
resolves from, `state` the `retention_state` row, `pass` a pass between two statements,
`cmd` an operator's expire between its read and its update, `table` the oldest row and
the deletes. `nextState`, `cut` and `Resolve` are the code's pure functions. `asked`
and `seen` are history.

The `MC*` modules add symmetry sets and the tables of the runs. Operators commented
*Mutant of ...* are ways the code could have been wrong that a property catches; no
specification uses them.

## 4. The runs

| run | bounds | checks |
|---|---|---|
| `erasure_concurrent` | 2 workers, 2 messages, 1 row, 1 fault, 2 deliveries each, a late alias, asked for by the external id in either place | `TypeOK`, `CompletedErasesEvents`, `DeletesOnlyRecorded`, `DrivenCompletes` |
| `erasure_serial` | 2 callers, 1 worker, 2 rows, 3 messages of one delivery each, 2 faults, asked for by profile, alias or external id | `PromiseRecorded` |
| `delivery_worker` | 2 loops, a good and a poison message, 2 deliveries, 2 faults | `TypeOK`, `StrandedOnlyByLoss`, `UnhealthyIsReal`, `PromiseKept`, `RetriesAreUsed`, `GetsDone` |
| `meter_cutover` | two subscriptions, two plans and moves between them, reports one instant late | `EachDayStatedOnce`, `NeverOverbilled` |
| `meter_terms` | one subscription, two cycles, one plan, two allowances, held and paid off, recounts up and down; totals to 6 over up to 3 tiers | `Inv`, `TiersCountTheirEvents`, `StatedNeverDown`, `UsageIsStated` |
| `meter_tie` | three subscriptions within two days, reports one instant late | `CarriedOnce`, violated |
| `purge_locked` | one pass at a time, two tables and a rebuilt one, one late write, hours to past the watch | `Inv`, `DeletesHaveRows`, `Erased` |
| `subscription_mirror` | two subscriptions, of three states and of one, a deal's; a handler and a reader; a second of two instants | `Inv`, `SettledIsCovered`, `NothingUndone`, `Converges` |
| `identify_batch` | every pair of five kinds of items, longer batches split at a NUL, two identify messages, one failure | `Inv`, `BatchInOrder`, `MirroredInOrder`, `MergeIsTold` |
| `usage` | two orgs of one project, three days, two passes, one change of the events, one fault | `Inv`, `FullPassCountsAll`, `KeptAsFrozen` |
| `sessions` | three refreshes or sign-outs at once, one failure | `Inv`, `ExchangedForOne`, `EndedStaysEnded`, `Answered` |
| `retention` | six days, months of two days, a wait of two, three acts of the org, its operators and its events | `Inv`, `PaidUntilAsked`, `NoticeGiven`, `ExpireStands`, `Enforced` |

`Inv` joins a module's type invariant with the invariants its definition names; so do
`PromiseRecorded`, `GetsDone` and `NothingUndone` with the parts
of theirs. What each property says is the comment above it.

Why these bounds suffice: the interesting schedules are pairs. Two deliveries of
one request, two messages of it, two loops of a worker, two passes, two adjacent
periods or two subscriptions are every overlap the code distinguishes, and one
fault placed anywhere is every crash point; a second fault lets the recovery fail
too. `MaxDeliver` is 2 for 5: the code only compares with the last. `erasure_serial`
has one delivery of each of three messages instead: retries are re-drives there, and
the second row of a subject is opened between a dead letter and a re-drive. A day has
two instants and a cycle an odd number of them, so periods start at midnight and
within a day. A usage pass a day after a full one is full again, so three days have
a trailing pass between two wide ones, a month and an anniversary within. Retention
waits two days, so that a length can change and change back within its wait; changes
and failures end two days after the first, and the rest is the time the last wait and
its delete take. The dates of its cuts are checked on a year and the first half of a
leap year, at every anchor that falls off a month's end. The purge's hours keep the order of the real times: the hold is the
life of a cached key, the watch the age of a stream. Sizes named `Max...`, `Asked`, `Horizon`,
`Lag`, `Quiet`, `Prefetch`, `Happens` and `Inputs` are bounds of the runs, not of the code.

`CHECK_DEADLOCK FALSE` stands where a behaviour may really end: all messages
settled, the last instant reached.

Two facts, `TiersCountTheirEvents` and the `CutSparesRecount` within Retention's `Inv`,
are about operators alone: they quantify over inputs, and are evaluated where a run
starts.

### What the code's words promise, and where it differs

- `erasure.go` freezes the ids of a request "once so worker retries reuse the same
  set", by an unconditional UPDATE: a second, overlapping delivery freezes a smaller
  set. `CompletedErasesEvents` says why no event survives it: aliases are deleted last.
- "A redelivery after the aliases are deleted still cleans every store"
  (`ExecuteErasure`), and a completed request may still have left a ClickHouse profile.
  A caller already past its lookup opens a second row once the first has failed; the
  first, published twice, is delivered again, deletes the alias rows and fails before
  the profiles; the second resolves without the aliases and completes. `LeftTo` in
  `CompletedErasesProfiles` is what holds: the profile's alias is frozen on the first
  row, which is not completed, and a re-request of the subject finds and re-drives it.
- `/healthz` is green while every worker's consume loop runs; loops share a flag, and
  one that subscribes hides another that is down until that one ends again. So
  `UnhealthyIsReal` holds in one direction only: a flag that is down means a loop that
  is; for the other, `GetsDone` has the loop come back.
- `billing_meter.sql` finds the window a new one follows by the day it ends, and a tie
  by the later start, which "has carried the other already". It need not have. A deal
  that started before the old subscription's latest period is cut over to and stated on
  the day of the cut-over only: its window takes no day of its own yet, follows the old
  one and carries its shortfall, and both end on one day. A third subscription the next
  day finds the two tied, picks the old one, which starts later, and carries its
  shortfall again, where `payments.md` has it carried once. `meter_tie` is that run.
  Two subscriptions do it only where a report may be late by all but a day of a cycle,
  which MeterProofs excludes (`Lag + DayLength <= Cycle`); with no report late
  `CarriedOnce` held for three.
- An allowance an operator raises is recorded with the next statement that says
  something new; a row that only moves on (`AdvanceBillingMeterPeriod`) keeps the old one.
  The next period's carry splits this one's count by the allowance recorded, so a raise
  that leaves nothing to state is not seen by it.
- A delivery the stamp refused dates the row's grace window if its deadline is not past
  (`FillBillingSubscriptionGracePeriodEndsAt`). That keeps out most deliveries of another
  window of the subscription, not all: the deadline of one that still runs can be of an
  earlier window, or, of two states within one second, of a later. The row's type bounds
  it by the subscription's states only; the proof of it refuted a closer bound.
- "One message gives the result of applying them in order" (`coalesce`) is a claim about
  users whose items fold into one message, and `BatchInOrder` and `MirroredInOrder` speak
  of those only. A user whose items take several messages, because a later one carries an
  anonymous or device id or they are too large, may have them applied in any order.
- A rotation that commits while a revocation waits for its row leaves a successor the
  revocation cannot see, usable until it is presented or revoked again; `EndedStaysEnded`
  says so of every other one (`quiet`).

## 5. Fairness

- **Erasure, Delivery:** a goroutine that can run does (`WF` on a worker's own
  steps), JetStream delivers what is not settled, the orchestrator restarts a
  process that ended. Callers, faults and ingestion owe nothing; faults are finite
  because an endless fault defeats any retry.
- **BillingMeter:** the CronJob is hourly (`WF` on `Begin`), and a step tried again
  and again succeeds once (`SF` on `State`, `Ingest`, `ack`), since each pass starts
  over and would otherwise be allowed to fail at the same place forever.
- **Purge:** the CronJob runs every five minutes, so no hour passes without a pass
  that ran to its end (the guard of `Tick`; passes are cut off after three
  minutes); failures end after any number of them (`CalmDown`); ClickHouse
  applies its deletes and refreshes its view. `SF` on the emptying batch: a pass out
  of time resumes where the rows are. Writers and operators owe nothing, so
  `Erased` is `[]<>`: the operator may reopen a done deletion for ever.

- **Subscription:** the reconcile CronJob runs pass after pass and its reads end
  (`WF` per reader); deliveries may all be lost, so `Converges` rests on the passes.
- **Sessions:** a started request runs on, and PostgreSQL breaks deadlocks.
- **Retention:** the CronJob is daily, so from the day nothing changes any more no day
  passes without a pass that ran to its end (the guard of `Tick`); ClickHouse gets
  its deletes done, of other jobs too.
- **Identify** and **Usage** check no liveness: their workers' is Delivery's, and a
  usage pass is repeated whole.

## 6. What is proved

For every value of the constants, by TLAPS, from the named assumptions of each
module. A theorem of the form `Spec => []P` rests on an inductive invariant, which
TLC checked on the module's run before it was proved; the theorem for the invariant
itself is listed where it says something a reader wants to know.

**ErasureProofs**, for any number of workers, callers, messages and faults.
`TypeCorrect` needs `References` (a message, a delivery and a publishing call name a
row that exists), without which `Load` could read a row that is not one.
`ErasureErasesEvents` proves `CompletedErasesEvents`; its `IInv` adds that a claim is
bounded by the subject's ids, that a frozen set covers the claim but for aliases
already gone (`FrozenCovers`), that an alias whose row is gone has no event left
(`AliasesLast`), and how far each delivery has come (`WorkInOrder`). This is why the
unconditional freeze of section 4 is harmless to events: what a later freeze misses
was already erased. `ErasureDeletesRecorded` adds `Recorded`, that what a delivery is
about to erase is in its row or already gone. `ErasureKeepsPromise` proves
`PromiseRecorded` where at most one worker runs, the one hypothesis: an overlapping
freeze can lose an alias from the ledger. Its `SInv` adds that a delivery works with
what its row says, on a row not completed (`OwnRow`), and that an alias without its
row but with a profile is frozen on a row not completed (`AliasesLeft`). The strict
form, no profile at all, is not inductive, and TLC then found it false (section 4).

**WorkerProofs**, of Delivery, for any loops, messages, deliveries and faults. The worker
implements Disposition by initial states and steps, from `Earned` (a loop about to
ack has handled its message, one about to term has buried it). `HealthNeverAccuses`
rests on `Blamed`; `DeliveryUsesRetries` and `DeliveryStrandsOnlyByLoss` on what a
loop knows of a delivery's number (`Counted`, `LastIsKnown`) and on where an unsettled
message can be (`LastAround`, `DownIsIdle`).

**WorkerProofs**, of Identify, for any batches, users, anonymous ids, messages, rows and
failures, of finitely many trait names. First the handler's fold. What it has made of
the first n items is stated of the accumulator (`Folded`): each user's latest message is
the one `last` names, every trait set is an item's and none is lost but to a later item's,
messages ascend in every trait, and a user whose items all fit has one message. `NulStep`, `JoinStep` and
`StartStep` carry it over an item, one for each way an item is taken. The induction over
items is by the least prefix of which it would fail (`CoalesceFolded`), and the library's
fold is unfolded by well-founded recursion over the prefixes (`FollowsExists`,
`CoalesceFolds`). Then the stores. The invariant (`IdentifyInStep`) has, beside the
types and what the fold made, four parts:

- `Whole`: whatever is written of a user whose items fit one message holds all of them,
  in a row, in ClickHouse, in a published upsert, and in a handler that is between its
  upsert and its publish. So no order of the handlers matters (`BatchStaysInOrder`).
- `RowsTold`: a live row is told to ClickHouse, or a message that works on it is not yet
  settled; a handler starts over after a failure, so the message still owes it. With
  `Whole` this is `MirrorStaysInOrder`.
- `AnonsMerged`: what a handler between two statements knows of the anonymous profile it
  merges. It is gone once its merge has committed, whether it was this delivery or an
  earlier one that committed it, and a person has all its traits. Hence the alias comes
  after the commit (`IdentifyKeepsInv`).
- `MergesTold`: a merge that has committed is claimed and has a tombstone, or a message
  for it is unsettled and will come by `Join` again, or its person was deleted
  (`MergeStaysTold`).

`Advances` says what no step takes back: a row that exists, a deleted profile, a claim,
a tombstone. It settles every case of the last three parts in which another handler
moves.

**SessionsProofs**, for any requests and failures. The tokens of a family form a chain:
one tip, at most one rotation pending, and a revocation that no rotation slipped past
leaves nothing behind it (`SessionsChain`). From it, one successor a token
(`SessionsExchange`), what is ended stays so (`SessionsEnded`), and only a sign-out, a
reuse or SSO ends anything (`SessionsNotLost`).

**SubscriptionProofs**, for any subscriptions, deliveries and readers. A stamp bounds
what its holder knows: every row, delivery and read holds each state the provider
moved to before its stamp (`SubscriptionStamps`). The compare-and-swap keeps that
(`MirrorIsFresh`), so settled deliveries are in the mirror (`SettledIsMirrored`) and
late ones undo nothing (`LateWritesUndoNothing`).

**PurgeProofs**, for any tables, hours and writes, under `OnePass` (the cron lock is
held) and `WatchOutlasts` (the watch is as long as streams keep messages, which
`stage.go` chooses it for). `PurgeStaysInStep` says which status each step of a pass
can meet; the two theorems after it that deletes do not overlap, have rows to delete,
and that the end of the watch finds nothing.

**RetentionProofs**, for any lengths, wait, calendar and acts. The calendar is assumed
to be one: months 28 days or more apart, and a rescan no longer than the shortest,
which the code's constants are. The invariant (`RetentionInStep`) has four parts: what
the pass has read is what is stored but for an expire that landed since (`Current`),
a length that waits is all that was resolved since its wait began (`Noticed`), one in
force to pay stays (`Paying`), and a cut never takes what the wait still protects
(`Cutting`).

**MeterProofs**, for any subscriptions, plans, recounts and failures, where reports are
late by no more than a cycle less a day. Windows are proved to lie in an order in which
each fits after the ones before it, whatever order they were reported in (`Windows`),
so that each day is stated once (`MeterStatesDaysOnce`). A statement in flight is the
one its row holds (`Sending`), so the ledger never understates
(`MeterNeverUnderstates`) and never goes down (`MeterNeverDown`). `TiersCount` and
`TiersPartition` are about `Split` alone: for every total, allowance and list of rising
bounds, a tier counts the events that fall in it, and each falls in one; so what the run
checks on its inputs holds on all (`SplitCountsTiers`).

That the customer is never overbilled (`MeterNeverOverbills`) rests on a second
invariant, `Owed`, and a count. `Owed` bounds each row by `peak`, the most each day ever
held: what a period states of its own is of the days up to the last it has seen
(`Metered`); what a period carries comes from one period before it which has ended, on
the same plan, and together with what that one states of its own is no more than its
days held (`CarriesFrom`); the rows of one subscription start no earlier than those of
the one before have counted to. It is kept because a row that is carried from is never
stated again: `State` writes the row of the live period only. For the count, each
period is given the days from its start to the last it has counted, or to its heir's
start if another carries from it (`Until`). These sets of days share none
(`DaysApart`), a shortfall carried is counted with the days it comes from
(`PeriodOwed`), and the tiers of a total sum to no more than the total while bounds
rise (`TiersSum`), which `validateCatalog` of `plans.go` enforces and the module
assumes. `CarriedOnce` enters in one place: a period has one heir.

**UsageProofs**, for any projects, orgs, passes, calendar, changes and faults, in four
layers, each proved from those before it:

1. `UsageInStep`: while no read left projects out and no lock was lost, a pass is
   alone (`Alone`), what it read of live projects is what ClickHouse has but for what
   changed since the day before (`HasRead`), and is stored (`HasStored`). Hence
   `UsageCountsAll` and, without any of these conditions, `UsageKeepsFrozen`.
2. `UsageTypes`: the rest of the types, from `Shown`: a pass sees one midnight at most,
   so a row was read on the day it is stamped or on the one before.
3. `UsageFreshMeansCounted`, from `Counted`: a pass that comes to refresh has stored at
   least what ClickHouse had the day before, also by the way on which it read nothing
   and found nothing stored; a foreign read never gets there, because PostgreSQL knows
   none of its projects.
4. `UsageIsExact`, from `Settled`: once a wide pass of the last day is marked, the days
   of the current periods are exact and stay so, and an org's total is exact or its turn
   is yet to come.

The totals are folds over finite sets of cells. Where an argument about them would go
by induction over the set, it takes a smallest set that fails instead (`Smallest`,
`TotalGrows`, `TotalSame`; MeterProofs does the same for its sums); the bounds of calendars and days are found the same way
(`Least`, `Greatest`).

Only model-checked:

- all of liveness (`DrivenCompletes`, `GetsDone`, `UsageIsStated`, `Erased`, `Converges`,
  `Answered`, `Enforced`): fairness and ENABLED are beyond the prover.

`NeverOverbilled` is proved under `CarriedOnce`, without which `meter_tie` shows how one
shortfall is billed twice; the run `meter_cutover` checks it without the hypothesis, for
two subscriptions.

## 7. What is left out, and assumed

- **Erasure**: a project deletion cascading onto a request row under a worker;
  wording of reasons; batching of ClickHouse deletes. ClickHouse mutations are
  awaited, as `mutations_sync` makes them.
- **Delivery**: JetStream itself. An iterator that is stopped drops its buffer, as
  the client library does; settling twice is ignored by the server.
- **BillingMeter**: the org loop, its refusal of stale usage, and the match on
  `stated_at` in the acknowledgement, which never fails under the lock. A
  subscription has a customer of its own at the provider; two periods never start at
  one instant.
- **Purge**: other projects of the pass, the findings it records for operators, and
  failing ClickHouse mutations (retried by ClickHouse; `Apply` may be late).
  `full` reads all tables at once where `hasRows` reads them one by one: only
  writes and applied deletes fall between, and each is seen by the next check.
- **Subscription**: validation of payloads and undecodable ones, a customer shared by
  two orgs, catalogue products dropped from the configuration, pruning, the provider's
  own bound on retries, and the counters of the reconcile report. A deal is bought by
  payment link only, and a grace deadline does not pass within a run.
- **Identify**: the stripping of `$ip`, payloads too large for NATS, permanent errors of
  messages that do not decode, the devices worker's operations. Redeliveries are fewer
  than `max_deliver`. No anonymous id is a person's profile id (`IdentifyAssumption`): where it is
  the target's own, the guard of `identify.go:171-173` publishes the upsert and nothing
  else, as for an item without one. A profile deleted between the worker's snapshot and its upsert can
  stay visible in ClickHouse (the code says so); the model lets it, and no property
  speaks of deleted profiles.
- **Usage**: pruning beyond the horizon, a deployment without orgs. A truncated read
  lacks whole projects. An empty read over a window in which nothing is stored counts as
  idle, and the model's properties exclude it (`seen`); a pass that lost its lock beside
  another may leave either's counts until the next, which `PeriodsAreExact` excludes.
- **Sessions**: passwords, magic links, OAuth, access tokens, auto-join. The order in
  which a statement locks its rows is any.
- **Retention**: the lock is held. Tables cut by key are tables whose rows are dated by
  their key; projects are chunked by the thousand, and a delete ClickHouse fails for ever
  is left to its operator. A plan the catalogue does not know keeps everything and is
  not among the lengths. `PaidUntilAsked` counts an override as asking, even one taken
  back between two reads of a pass; an org that pays only between two passes was
  never seen paying.
- Components with status `not_modelled` in `PROJECT.json`, with their reasons; the
  ones with a protocol of their own are in the plan.
