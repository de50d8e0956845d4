------------------------------- MODULE Identify -------------------------------
(* An SDK's batch of identify calls, from the handler that folds it into messages
   to the two stores a profile lives in: PostgreSQL, where the identify worker
   upserts the person and merges the anonymous profile they used to be, and
   ClickHouse, which the upsert and alias workers fill from the messages that
   worker publishes.

   Every consumer runs many handlers at once, so messages apply in any order, and
   a message whose handler fails is handled again from its beginning.  ClickHouse
   keeps the row that arrived last.  The value of a trait is the number of the
   batch's item that set it.                                                    *)
EXTENDS Integers, SequencesExt

CONSTANTS
  Users,      \* external ids
  Anons,      \* anonymous ids
  Device,     \* the device the calls come from
  Keys,       \* trait names
  None,
  Batches,    \* the batches a client may send: sequences of items
  MaxBytes,   \* maxCoalescedBytes, an item's size being its number of traits
  MaxRows,    \* bound: profiles ever made for one user
  MaxMessages, \* bound: identify messages ever published
  MaxFailures  \* bound: handlers that fail or die, fewer than max_deliver

Item == [user : Users, anon : Anons \cup {None}, device : {Device, None},
         keys : SUBSET Keys, nul : BOOLEAN]

(* No client names a person's profile as its anonymous id: where it is the target's
   own, mergeAnonymous does what the worker does for none (PublishUpsert).        *)
ASSUME IdentifyAssumption ==
  /\ Batches \subseteq Seq(Item)
  /\ None \notin Anons \cup {Device} \cup (Users \X Nat)
  /\ Anons \cap (Users \X Nat) = {}
  /\ IsFiniteSet(Keys)
  /\ {MaxBytes, MaxRows, MaxMessages, MaxFailures} \subseteq Nat

VARIABLES
  batch,     \* the client's items
  messages,  \* what the handler folds them into
  next,      \* the message the handler publishes next
  work,      \* the identify stream: each message and how far it is
  rows,      \* profiles of users, a user's later rows after its earlier ones
  anons,     \* profiles of anonymous ids
  device,    \* the profile the device is linked to
  upserts,   \* the upsert stream
  claims,    \* the alias stream
  ch,        \* ClickHouse profiles, by id
  aliases,   \* ClickHouse profile_aliases
  failures

identifyVars ==
  <<batch, messages, next, work, rows, anons, device, upserts, claims, ch, aliases, failures>>
call == <<batch, messages, next>>
postgres == <<rows, anons, device>>
mirror == <<upserts, claims, ch, aliases>>

Rows == Users \X (1 .. MaxRows)
Ids == Rows \cup Anons
Guest == -1       \* the value of a trait an anonymous profile was given
Values == {Guest} \cup UNION {0 .. Len(b) : b \in Batches}
Profile == [state : {"none", "live", "deleted"}, traits : [Keys -> Values]]
Unset == [k \in Keys |-> 0]
NoRow == [state |-> "none", traits |-> Unset]
Live(traits) == [state |-> "live", traits |-> traits]
Deleted == [state |-> "deleted", traits |-> Unset]

(* Later values win per key; zero is no value. *)
over(new, old) == [k \in Keys |-> IF new[k] # 0 THEN new[k] ELSE old[k]]
-----------------------------------------------------------------------------
(* The handler. *)

asMessage(i, item) == [user |-> item.user, anon |-> item.anon, device |-> item.device,
                       traits |-> [k \in Keys |-> IF k \in item.keys THEN i ELSE 0],
                       nul |-> item.nul]
onlySetsTraits(item) == item.anon = None /\ item.device = None
size(item) == Cardinality(item.keys)

(* Mutant of fold: every item is a message. *)
foldNothing(items, acc, i) == [acc EXCEPT !.messages = Append(@, asMessage(i, items[i]))]

(* One step of coalesce: item i joins its user's latest message, or starts one. *)
fold(items, acc, i) ==
  LET item == items[i]
      u == item.user
      joins == /\ acc.last[u] # 0 /\ onlySetsTraits(item)
               /\ acc.size[u] + size(item) <= MaxBytes
  IN  IF item.nul
      THEN [acc EXCEPT !.messages = Append(@, asMessage(i, item))]
      ELSE IF joins
      THEN [acc EXCEPT !.messages[acc.last[u]].traits = over(asMessage(i, item).traits, @),
                       !.size[u] = @ + size(item)]
      ELSE [acc EXCEPT !.messages = Append(@, asMessage(i, item)),
                       !.last[u] = Len(acc.messages) + 1, !.size[u] = size(item)]

coalesce(items) ==
  FoldLeftDomain(LAMBDA acc, i : fold(items, acc, i),
                 [messages |-> <<>>, last |-> [u \in Users |-> 0], size |-> [u \in Users |-> 0]],
                 items).messages

(* Nobody is identified yet; a seed may have written anonymous profiles. *)
IdentifyInit ==
  /\ batch \in Batches /\ messages = coalesce(batch)
  /\ next = 1
  /\ work = <<>>
  /\ rows = [r \in Rows |-> NoRow]
  /\ \E seeded \in SUBSET Anons :
       /\ anons = [a \in Anons |-> IF a \in seeded THEN Live([k \in Keys |-> Guest]) ELSE NoRow]
       /\ device \in seeded \cup {None}
  /\ upserts = {} /\ claims = {}
  /\ ch = [i \in Ids |-> IF i \in Rows THEN rows[i] ELSE anons[i]]
  /\ aliases = [a \in Anons |-> None]
  /\ failures = 0

(* BatchIdentify publishes one message after another. *)
Publish ==
  /\ next <= Len(messages) /\ Len(work) < MaxMessages
  /\ work' = Append(work, [msg |-> messages[next], pc |-> "queued", row |-> None,
                            traits |-> Unset, sees |-> FALSE])
  /\ next' = next + 1
  /\ UNCHANGED <<batch, messages, postgres, mirror, failures>>

(* It stopped at a failure, or the answer was lost: the client sends it all again. *)
SendAgain ==
  /\ next > 1 /\ Len(work) < MaxMessages
  /\ next' = 1
  /\ UNCHANGED <<batch, messages, work, postgres, mirror, failures>>
-----------------------------------------------------------------------------
(* The identify worker on message m. A merge's transaction has changed its target
   when it is about to commit, and keeps the row locked.                        *)

Stands(m, pc) == m \in DOMAIN work /\ work[m].pc = pc
Proceed(m, pc) == work' = [work EXCEPT ![m].pc = pc]
msg(m) == work[m].msg
row(m) == work[m].row
locked == {work[m].row : m \in {n \in DOMAIN work : work[n].pc = "commit"}}

(* The row a user's upsert conflicts with, or the one it inserts. *)
upsertTarget(u) ==
  LET of(state) == {n \in 1 .. MaxRows : rows[<<u, n>>].state = state}
  IN  {<<u, n>> : n \in IF of("live") # {} THEN of("live")
                        ELSE {k \in of("none") : \A l \in of("none") : k <= l}}

(* Mutant of Upsert: the handler goes on with the row as it was before. *)
UpsertReturnsOld(m) == \E r \in upsertTarget(msg(m).user) \ locked :
  /\ Stands(m, "queued") /\ ~msg(m).nul
  /\ rows' = [rows EXCEPT ![r] = Live(over(msg(m).traits, @.traits))]
  /\ work' = [work EXCEPT ![m] = [@ EXCEPT !.pc = "link", !.row = r, !.traits = rows[r].traits]]
  /\ UNCHANGED <<call, anons, device, mirror, failures>>

(* UpsertProfileByExternalID commits on its own. *)
Upsert(m) == \E r \in upsertTarget(msg(m).user) \ locked :
  /\ Stands(m, "queued") /\ ~msg(m).nul
  /\ LET traits == over(msg(m).traits, rows[r].traits)
     IN  /\ rows' = [rows EXCEPT ![r] = Live(traits)]
         /\ work' = [work EXCEPT ![m] = [@ EXCEPT !.pc = "link", !.row = r, !.traits = traits]]
  /\ UNCHANGED <<call, anons, device, mirror, failures>>

(* A value jsonb cannot hold fails the upsert at every delivery, the last of which
   the worker buries: one step, as the ones before it leave nothing behind.       *)
DeadLetter(m) ==
  /\ Stands(m, "queued") /\ msg(m).nul
  /\ Proceed(m, "dead")
  /\ UNCHANGED <<call, postgres, mirror, failures>>

(* Mutant of Link: the alias is published with the device's link. *)
LinkAndClaim(m) ==
  /\ Stands(m, "link")
  /\ device' = IF msg(m).device # None /\ rows[row(m)].state = "live" THEN row(m) ELSE device
  /\ Proceed(m, IF msg(m).anon = None THEN "publish" ELSE "merge")
  /\ claims' = IF msg(m).anon = None THEN claims ELSE claims \cup {<<msg(m).anon, row(m)>>}
  /\ UNCHANGED <<call, rows, anons, upserts, ch, aliases, failures>>

(* LinkDeviceToProfile links no device to a deleted profile. *)
Link(m) ==
  /\ Stands(m, "link")
  /\ device' = IF msg(m).device # None /\ rows[row(m)].state = "live" THEN row(m) ELSE device
  /\ Proceed(m, IF msg(m).anon = None THEN "publish" ELSE "merge")
  /\ UNCHANGED <<call, rows, anons, mirror, failures>>

(* MergeProfileProperties sees the anonymous profile as it is when it starts. *)
Merge(m) ==
  /\ Stands(m, "merge")
  /\ work' = [work EXCEPT ![m] = [@ EXCEPT !.pc = "join",
                                           !.sees = (anons[msg(m).anon].state = "live")]]
  /\ UNCHANGED <<call, postgres, mirror, failures>>

(* Mutant of Join: with the anonymous profile gone there is nothing left to do. *)
JoinOnce(m) ==
  /\ Stands(m, "join") /\ (work[m].sees => row(m) \notin locked)
  /\ IF rows[row(m)].state # "live" THEN Proceed(m, "publish")
     ELSE IF ~work[m].sees THEN Proceed(m, "publish")
     ELSE work' = [work EXCEPT ![m] = [@ EXCEPT !.pc = "commit",
                     !.traits = over(rows[row(m)].traits, anons[msg(m).anon].traits)]]
  /\ UNCHANGED <<call, postgres, mirror, failures>>

(* It changes its target once that row is free; the target's keys win. With the
   anonymous profile gone it finds no row to change, waits for none, and goes on
   with the snapshot the upsert returned. With the target deleted the upsert alone
   is published.                                                                *)
Join(m) ==
  /\ Stands(m, "join") /\ (work[m].sees => row(m) \notin locked)
  /\ IF rows[row(m)].state # "live" THEN Proceed(m, "publish")
     ELSE IF ~work[m].sees THEN Proceed(m, "rejoin")
     ELSE work' = [work EXCEPT ![m] = [@ EXCEPT !.pc = "commit",
                     !.traits = over(rows[row(m)].traits, anons[msg(m).anon].traits)]]
  /\ UNCHANGED <<call, postgres, mirror, failures>>

Reassigned(m) == IF device = msg(m).anon THEN row(m) ELSE device
Retired(a) == [anons EXCEPT ![a].state = IF @ = "live" THEN "deleted" ELSE @]

(* Mutant of Commit: the target's merged traits are left out. *)
CommitNoTraits(m) ==
  /\ Stands(m, "commit") \/ Stands(m, "rejoin")
  /\ UNCHANGED rows
  /\ device' = Reassigned(m) /\ anons' = Retired(msg(m).anon)
  /\ Proceed(m, "upsert")
  /\ UNCHANGED <<call, mirror, failures>>

(* The anonymous profile's devices move, it is soft-deleted, and all commits. *)
Commit(m) ==
  /\ Stands(m, "commit") \/ Stands(m, "rejoin")
  /\ rows' = IF Stands(m, "commit") THEN [rows EXCEPT ![row(m)].traits = work[m].traits] ELSE rows
  /\ device' = Reassigned(m) /\ anons' = Retired(msg(m).anon)
  /\ Proceed(m, "upsert")
  /\ UNCHANGED <<call, mirror, failures>>

snapshot(m) == [id |-> row(m), doc |-> Live(work[m].traits)]

(* The three messages go out after the commit, in this order. *)
PublishUpsert(m) ==
  /\ Stands(m, "upsert") \/ Stands(m, "publish")
  /\ upserts' = upserts \cup {snapshot(m)}
  /\ Proceed(m, IF Stands(m, "upsert") THEN "tombstone" ELSE "settled")
  /\ UNCHANGED <<call, postgres, claims, ch, aliases, failures>>

PublishTombstone(m) ==
  /\ Stands(m, "tombstone")
  /\ upserts' = upserts \cup {[id |-> msg(m).anon, doc |-> Deleted]}
  /\ Proceed(m, "claim")
  /\ UNCHANGED <<call, postgres, claims, ch, aliases, failures>>

PublishAlias(m) ==
  /\ Stands(m, "claim")
  /\ claims' = claims \cup {<<msg(m).anon, row(m)>>}
  /\ Proceed(m, "settled")
  /\ UNCHANGED <<call, postgres, upserts, ch, aliases, failures>>

(* A statement or a publish fails, the handler times out, or its process dies: an
   open transaction rolls back and the message is delivered again.              *)
HandlerFails(m) ==
  /\ failures < MaxFailures /\ failures' = failures + 1
  /\ m \in DOMAIN work /\ work[m].pc \notin {"queued", "settled", "dead"}
  /\ Proceed(m, "queued")
  /\ UNCHANGED <<call, postgres, mirror>>
-----------------------------------------------------------------------------
(* The upsert and alias workers insert what they are handed; a message whose
   answer was lost is delivered again. The dashboard's delete soft-deletes a
   profile.                                                                     *)

Insert == \E u \in upserts :
  /\ ch' = [ch EXCEPT ![u.id] = u.doc]
  /\ \/ upserts' = upserts \ {u} /\ UNCHANGED failures
     \/ failures < MaxFailures /\ failures' = failures + 1 /\ UNCHANGED upserts
  /\ UNCHANGED <<call, work, postgres, claims, aliases>>

InsertAlias == \E c \in claims :
  /\ aliases' = [aliases EXCEPT ![c[1]] = c[2]]
  /\ \/ claims' = claims \ {c} /\ UNCHANGED failures
     \/ failures < MaxFailures /\ failures' = failures + 1 /\ UNCHANGED claims
  /\ UNCHANGED <<call, work, postgres, upserts, ch>>

Delete == \E r \in Rows \ locked :
  /\ rows[r].state = "live" /\ r[2] < MaxRows
  /\ rows' = [rows EXCEPT ![r].state = "deleted"]
  /\ UNCHANGED <<call, work, anons, device, mirror, failures>>

Step(m) == Upsert(m) \/ DeadLetter(m) \/ Link(m) \/ Merge(m) \/ Join(m) \/ Commit(m)
           \/ PublishUpsert(m) \/ PublishTombstone(m) \/ PublishAlias(m)

IdentifyNext ==
  \/ Publish \/ SendAgain \/ Insert \/ InsertAlias \/ Delete
  \/ \E m \in DOMAIN work : Step(m) \/ HandlerFails(m)
IdentifySpec == IdentifyInit /\ [][IdentifyNext]_identifyVars
-----------------------------------------------------------------------------
IdentifyTypeOK ==
  /\ batch \in Batches /\ next \in 1 .. Len(messages) + 1
  /\ rows \in [Rows -> Profile] /\ anons \in [Anons -> Profile] /\ ch \in [Ids -> Profile]
  /\ \A r, s \in Rows : r[1] = s[1] /\ rows[r].state = "live" /\ rows[s].state = "live" => r = s
  /\ device \in Ids \cup {None}
  /\ upserts \subseteq [id : Ids, doc : Profile] /\ claims \subseteq Anons \X Rows
  /\ aliases \in [Anons -> Rows \cup {None}]
  /\ Len(work) <= MaxMessages
  /\ \A m \in DOMAIN work :
       /\ work[m].pc \in {"queued", "link", "merge", "join", "commit", "rejoin", "publish",
                          "upsert", "tombstone", "claim", "settled", "dead"}
       /\ work[m].row \in Rows \cup {None} /\ work[m].traits \in [Keys -> Values]
  /\ failures \in 0 .. MaxFailures

(* User u's items that can be handled, and the traits the first n of them set. *)
itemsOf(u) == {i \in DOMAIN batch : batch[i].user = u /\ ~batch[i].nul}
traitsOf(u, n) == {t \in (1 .. n) \X Keys : t[1] \in itemsOf(u) /\ t[2] \in batch[t[1]].keys}

(* What user u's items set key k to, applied in the order they were given. *)
inOrder(u, k) == Max({0} \cup {i \in itemsOf(u) : k \in batch[i].keys})

messagesOf(u) == {i \in DOMAIN messages : messages[i].user = u /\ ~messages[i].nul}

(* The users whose items all belong in one message. *)
Foldable ==
  {u \in Users : /\ \A i, j \in itemsOf(u) : i < j => onlySetsTraits(batch[j])
                 /\ Cardinality(traitsOf(u, Len(batch))) <= MaxBytes}

(* "later values winning per top-level key, which is what jsonb_shallow_merge
   produces applying them in order": the messages of a batch applied in order set
   every user's traits as its items would, and an item holding a NUL takes no other
   with it.                                                                     *)
CoalesceKeepsOrder == \A u \in Users, k \in Keys :
  inOrder(u, k) = Max({0} \cup {messages[i].traits[k] : i \in messagesOf(u)})
    /\ \A i, j \in messagesOf(u) : i < j /\ messages[j].traits[k] # 0 =>
         messages[i].traits[k] < messages[j].traits[k]

AppliedInOrder(u, traits) ==
  \/ \A k \in Keys : inOrder(u, k) # 0 => traits[k] = inOrder(u, k)
  \/ \A k \in Keys : inOrder(u, k) # 0 => traits[k] = 0

(* "one message gives the result of applying them in order": a user whose items
   fold into one message is never seen with some of them applied, or an older one
   over a newer, in whatever order and however often the messages are handled.   *)
BatchInOrder == \A r \in Rows :
  rows[r].state = "live" /\ r[1] \in Foldable => AppliedInOrder(r[1], rows[r].traits)

Drained == upserts = {} /\ \A m \in DOMAIN work : work[m].pc \in {"settled", "dead"}

(* Once its messages are handled ClickHouse shows that user as PostgreSQL does. *)
MirroredInOrder == Drained => \A r \in Rows :
  rows[r].state = "live" /\ r[1] \in Foldable =>
    \A k \in Keys : inOrder(r[1], k) # 0 => ch[r].traits[k] = rows[r].traits[k]

(* "Post-commit: publish pre-validated messages": an anonymous id is claimed for a
   person only once its profile is gone, its devices are someone's, and a person
   has every trait it had.                                                      *)
ClaimedAfterCommit == \A a \in Anons :
  aliases[a] # None \/ anons[a].state = "deleted" =>
    /\ anons[a].state # "live" /\ device # a
    /\ anons[a].state = "deleted" => \E r \in Rows : \A k \in Keys : rows[r].traits[k] # 0

(* A merge that has committed is told to ClickHouse, though its handler died before
   it published and the next delivery found the anonymous profile gone: once all is
   handled the id is claimed and no longer a person. Deleting the person meanwhile
   excuses it.                                                                   *)
MergeIsTold == \A a \in Anons :
  Drained /\ claims = {} /\ anons[a].state = "deleted" =>
    \/ aliases[a] # None /\ ch[a].state = "deleted"
    \/ \E r \in Rows : rows[r].state = "deleted"

(* Well typed; a batch keeps its order however it is cut into messages, and ClickHouse
   never runs ahead of a merge.                                                      *)
Inv == IdentifyTypeOK /\ CoalesceKeepsOrder /\ ClaimedAfterCommit
===============================================================================
