----------------------------- MODULE PurgeProofs -----------------------------
(* What the purge job guarantees while its lock holds, for any tables, any length of
   the run and any number of late writes.                                         *)
EXTENDS Purge, FiniteSetTheorems, TLAPS

(* The advisory lock holds: there is one pass. *)
OnePass == \A p, q \in Passes : p = q

(* "The API-key cache's TTL" is the hold, "the NATS streams' max_age" the watch; and
   the watch is longer than the two hours that one pass may touch.                 *)
WatchOutlasts == KeyLife <= Hold /\ MaxAge <= WatchFor /\ 2 <= WatchFor

Kinds == {"own", "late"}
Deletion == [status : {"none", "pending", "deleting", "done"}, org : BOOLEAN,
             round : Hours \cup {None}, done : Hours \cup {None}]
Progress == [pc : {"idle", "count", "start", "running", "rows", "reopen", "live", "queue",
                   "record", "postgres", "finish"},
             d : Deletion, now : Hours, check : {"none", "erase", "watch", "start"},
             running : SUBSET Tables, waiting : SUBSET AllTables, todo : SUBSET Tables,
             count : Nat]

PassesOK == pass \in [Passes -> Progress]

(* Nothing is written from this hour on. *)
LastWrite == KeyLife + MaxAge

Dirty == \E t \in Tables : rows[t] # {}

(* What the ledger row says of the rest. *)
Ledger ==
  /\ deletion.status # "none" => project # "live"
  /\ pg => project # "gone"
  /\ deletion.status \in {"deleting", "done"} => Hold <= clock
  /\ deletion.status = "done" =>
       project = "gone" /\ Hold <= deletion.done /\ deletion.done <= clock

(* Rows that came back to a done deletion are still watched; and in the hour a pass
   ran to its end they are young, or that pass is the one that finished.           *)
Watching ==
  deletion.status = "done" /\ Dirty =>
    /\ clock <= deletion.done + WatchFor
    /\ passed => clock < LastWrite \/ clock = deletion.done + 1

(* The statuses a pass may meet at each of its steps. *)
Expects(p) ==
  CASE pass[p].pc \in {"count", "start"} -> {"pending"}
    [] pass[p].pc \in {"running", "rows"} /\ pass[p].check = "watch" -> {"done", "deleting"}
    [] pass[p].pc = "reopen" -> {"done", "deleting"}
    [] OTHER -> {"deleting"}

(* The steps of a round, after a check that found rows no delete covers. *)
Starts(p) ==
  \/ pass[p].pc \in {"live", "queue", "record"}
  \/ pass[p].pc \in {"running", "rows"} /\ pass[p].check = "start"

Underway(p) ==
  /\ Hold <= pass[p].now /\ pass[p].now <= clock /\ clock <= pass[p].now + 1
  /\ deletion.status \in Expects(p)
  /\ pass[p].pc \in {"running", "rows"} => pass[p].check # "none"
  /\ Starts(p) => pass[p].waiting # {}
  /\ pass[p].pc = "rows" => \A t \in Tables : deletes[t] > 0 => t \in pass[p].running
  /\ pass[p].pc = "queue" => \A t \in pass[p].todo : deletes[t] = 0 /\ rows[t] # {}
  /\ pass[p].pc \in {"postgres", "finish"} /\ pass[p].waiting = {} /\ Dirty =>
       pass[p].now < LastWrite
  /\ pass[p].pc = "finish" => pass[p].waiting = {}

IInv ==
  /\ TypeOK /\ PassesOK /\ OneDeleteAtATime /\ Ledger /\ Watching
  /\ \A p \in Passes : pass[p].pc # "idle" => Underway(p)
-----------------------------------------------------------------------------
(* Hours are naturals, and none of them is None. *)
LEMMA HoursNat ==
  /\ Hours \subseteq Nat /\ None \notin Hours
  /\ {Hold, RoundEvery, WatchFor, KeyLife, MaxAge, Horizon, MaxLate} \subseteq Nat
BY PurgeAssumption DEF Hours

(* The usage count is a number. *)
LEMMA CountNat == TypeOK => count \in Nat
<1> SUFFICES ASSUME TypeOK PROVE count \in Nat
  OBVIOUS
<1>1. rows[EventTable] \subseteq Kinds
  BY PurgeAssumption DEF TypeOK, AllTables, Kinds
<1>2. IsFiniteSet(Kinds)
  <2>1. IsFiniteSet({"own"})
    BY FS_Singleton
  <2>2. IsFiniteSet({"own"} \cup {"late"})
    BY <2>1, FS_AddElement
  <2>. QED  BY <2>2 DEF Kinds
<1>3. IsFiniteSet(rows[EventTable])
  BY <1>1, <1>2, FS_Subset
<1>. QED  BY <1>3, FS_CardinalityType DEF count

(* An idle pass, and a listed row, are well typed. *)
LEMMA IdleOK == Idle \in Progress /\ NoDeletion \in Deletion
<1>1. NoDeletion \in Deletion
  BY DEF NoDeletion, Deletion
<1>2. 0 \in Hours
  BY PurgeAssumption DEF Hours
<1>. QED  BY <1>1, <1>2 DEF Idle, Progress

(* A step of a pass keeps the invariant where the pass lands well, and so do the rest
   of the state.                                                                    *)
LEMMA PassStep ==
  ASSUME OnePass, PassesOK, NEW p \in Passes, NEW next \in Progress, Goto(p, next),
         TypeOK', OneDeleteAtATime', Ledger', Watching',
         next.pc # "idle" => Underway(p)'
  PROVE  IInv'
<1>1. PassesOK' /\ pass'[p] = next
  BY DEF PassesOK, Goto
<1>2. \A q \in Passes : pass'[q].pc # "idle" => Underway(q)'
  BY <1>1, OnePass DEF OnePass
<1>. QED  BY <1>1, <1>2 DEF IInv

(* A pass that ends leaves nothing to keep. *)
LEMMA EndStep ==
  ASSUME OnePass, PassesOK, NEW p \in Passes, Goto(p, Idle),
         TypeOK', OneDeleteAtATime', Ledger', Watching'
  PROVE  IInv'
<1>1. Idle \in Progress /\ Idle.pc = "idle"
  BY IdleOK DEF Idle
<1>. QED  BY <1>1, PassStep

(* The steps that move a pass on and nothing else. *)
LEMMA OwnStep ==
  ASSUME OnePass, IInv, NEW p \in Passes, NEW next \in Progress, Goto(p, next),
         UNCHANGED <<clock, project, deletion, usage, store, passed, calm>>,
         next.pc # "idle" => Underway(p)'
  PROVE  IInv'
<1>1. DOMAIN pass' = Passes
  BY DEF IInv, PassesOK, Goto
<1>2. TypeOK'
  BY <1>1 DEF IInv, TypeOK, store
<1>3. OneDeleteAtATime' /\ Ledger' /\ Watching'
  BY DEF IInv, OneDeleteAtATime, Ledger, Watching, Dirty, store
<1>. QED  BY <1>2, <1>3, PassStep DEF IInv

(* The steps that end a pass and change nothing else: where rows came back to a done
   deletion, the hour must be one that Watching allows a pass to end in.            *)
LEMMA OwnEnd ==
  ASSUME OnePass, IInv, NEW p \in Passes, End(p),
         UNCHANGED <<clock, project, deletion, usage, store, calm>>,
         ~(deletion.status = "done" /\ Dirty)
  PROVE  IInv'
<1>1. DOMAIN pass' = Passes /\ passed' \in BOOLEAN
  BY DEF IInv, PassesOK, End, Goto
<1>2. TypeOK'
  BY <1>1 DEF IInv, TypeOK, store
<1>3. OneDeleteAtATime' /\ Ledger' /\ Watching'
  BY DEF IInv, OneDeleteAtATime, Ledger, Watching, Dirty, store
<1>. QED  BY <1>2, <1>3, EndStep DEF IInv, End

(* What the invariant says of a pass that is under way. *)
LEMMA PassOK ==
  ASSUME IInv, NEW p \in Passes
  PROVE  /\ pass[p] \in Progress
         /\ pass[p].pc # "idle" => Underway(p)
         /\ deletion \in Deletion /\ clock \in Hours
BY DEF IInv, PassesOK, TypeOK, Deletion

(* List starts a pass on the status it read. *)
LEMMA ListKeeps ==
  ASSUME OnePass, IInv, NEW p \in Passes, List(p)
  PROVE  IInv'
<1>. DEFINE listed == [Idle EXCEPT !.d = deletion, !.now = clock]
<1>1. deletion \in Deletion /\ clock \in Hours /\ clock \in Nat /\ Hold \in Nat
  BY PassOK, HoursNat
<1>2. /\ listed \in Progress /\ listed.now = clock
      /\ [listed EXCEPT !.pc = "count"] \in Progress
      /\ [listed EXCEPT !.pc = "running", !.check = "erase"] \in Progress
      /\ [listed EXCEPT !.pc = "running", !.check = "watch"] \in Progress
  BY <1>1, IdleOK DEF Idle, Progress
<1>3. CASE Waits(deletion, clock) \/ ~Watched(deletion, clock)
  <2>1. ~(deletion.status = "done" /\ Dirty)
    <3>1. SUFFICES ASSUME deletion.status = "done", Dirty PROVE FALSE
      OBVIOUS
    <3>2. deletion.done \in Nat
      BY <3>1, HoursNat DEF IInv, TypeOK
    <3>. QED  BY <1>1, <1>3, <3>1, <3>2, HoursNat DEF IInv, Watching, Waits, Watched
  <2>2. End(p) /\ UNCHANGED <<clock, project, deletion, usage, store, calm>>
    BY <1>3 DEF List
  <2>. QED  BY <2>1, <2>2, OwnEnd
<1>4. CASE ~(Waits(deletion, clock) \/ ~Watched(deletion, clock))
  <2>1. Hold <= clock /\ deletion.status \in {"pending", "deleting", "done"}
    BY <1>1, <1>4 DEF List, IInv, Ledger, Waits, Deletion
  <2>2. UNCHANGED <<clock, project, deletion, usage, store, passed, calm>>
    BY <1>4 DEF List
  <2>3. CASE deletion.status = "pending"
    <3>1. Goto(p, [listed EXCEPT !.pc = "count"])
      BY <1>4, <2>3 DEF List
    <3>2. pass'[p] = [listed EXCEPT !.pc = "count"]
      BY <3>1 DEF IInv, PassesOK, Goto
    <3>3. pass'[p].pc = "count" /\ pass'[p].now = clock
      BY <3>2, <1>2 DEF Progress
    <3>4. Underway(p)'
      BY <3>3, <1>1, <2>1, <2>2, <2>3 DEF Underway, Expects, Starts
    <3>. QED  BY <1>2, <2>2, <3>1, <3>4, OwnStep
  <2>4. CASE deletion.status = "deleting"
    <3>1. Goto(p, [listed EXCEPT !.pc = "running", !.check = "erase"])
      BY <1>4, <2>4 DEF List
    <3>2. pass'[p] = [listed EXCEPT !.pc = "running", !.check = "erase"]
      BY <3>1 DEF IInv, PassesOK, Goto
    <3>3. pass'[p].pc = "running" /\ pass'[p].check = "erase" /\ pass'[p].now = clock
      BY <3>2, <1>2 DEF Progress
    <3>4. Underway(p)'
      BY <3>3, <1>1, <2>1, <2>2, <2>4 DEF Underway, Expects, Starts
    <3>. QED  BY <1>2, <2>2, <3>1, <3>4, OwnStep
  <2>5. CASE deletion.status = "done"
    <3>1. Goto(p, [listed EXCEPT !.pc = "running", !.check = "watch"])
      BY <1>4, <2>5 DEF List
    <3>2. pass'[p] = [listed EXCEPT !.pc = "running", !.check = "watch"]
      BY <3>1 DEF IInv, PassesOK, Goto
    <3>3. pass'[p].pc = "running" /\ pass'[p].check = "watch" /\ pass'[p].now = clock
      BY <3>2, <1>2 DEF Progress
    <3>4. Underway(p)'
      BY <3>3, <1>1, <2>1, <2>2, <2>5 DEF Underway, Expects, Starts
    <3>. QED  BY <1>2, <2>2, <3>1, <3>4, OwnStep
  <2>. QED  BY <2>1, <2>3, <2>4, <2>5
<1>. QED  BY <1>3, <1>4

(* A step that changes the program counter, and whatever else of its progress. *)
LEMMA Landed ==
  ASSUME IInv, NEW p \in Passes, NEW next, Goto(p, next)
  PROVE  pass'[p] = next
BY DEF IInv, PassesOK, Goto

(* Count reads the count and goes on to begin's transaction. *)
LEMMA CountKeeps ==
  ASSUME OnePass, IInv, NEW p \in Passes, Count(p)
  PROVE  IInv'
<1>. DEFINE n == IF pass[p].count = 0 /\ pass[p].d.org THEN count ELSE 0
            next == [pass[p] EXCEPT !.pc = "start", !.count = n]
<1>1. n \in Nat
  BY CountNat DEF IInv
<1>2. pass[p] \in Progress /\ Underway(p) /\ pass[p].pc = "count"
  BY PassOK DEF Count
<1>3. next \in Progress /\ next.pc = "start" /\ next.now = pass[p].now
  <2>. HIDE DEF n
  <2>. QED  BY <1>1, <1>2 DEF Progress
<1>4. Goto(p, next)
  BY DEF Count
<1>. HIDE DEF n, next
<1>5. pass'[p] = next
  BY <1>4, Landed
<1>6. UNCHANGED <<clock, project, deletion, usage, store, passed, calm>>
  BY DEF Count
<1>7. Underway(p)'
  BY <1>2, <1>3, <1>5, <1>6 DEF Underway, Expects, Starts
<1>. QED  BY <1>3, <1>4, <1>6, <1>7, OwnStep

(* begin's transaction: the deletion starts once the hold is over. *)
LEMMA StartKeeps ==
  ASSUME OnePass, IInv, NEW p \in Passes, StartDeletion(p)
  PROVE  IInv'
<1>. DEFINE next == [pass[p] EXCEPT !.pc = "running", !.check = "erase"]
<1>1. /\ pass[p] \in Progress /\ Underway(p) /\ pass[p].pc = "start"
      /\ deletion \in Deletion /\ clock \in Nat /\ Hold \in Nat
  BY PassOK, HoursNat DEF StartDeletion
<1>2. deletion.status = "pending"
  BY <1>1 DEF Underway, Expects, Starts
<1>3. next \in Progress /\ next.pc = "running" /\ next.check = "erase" /\ next.now = pass[p].now
  BY <1>1 DEF Progress
<1>4. Goto(p, next)
  BY DEF StartDeletion, CheckFor
<1>5. pass'[p] = next
  BY <1>4, Landed
<1>6. /\ deletion' = [deletion EXCEPT !.status = "deleting"]
      /\ usage' = IF pass[p].count = 0 THEN usage ELSE pass[p].count
      /\ UNCHANGED <<clock, project, store, passed, calm>>
  BY <1>2 DEF StartDeletion
<1>7. deletion' \in Deletion /\ deletion'.status = "deleting" /\ deletion'.done = deletion.done
  BY <1>1, <1>6 DEF Deletion
<1>8. usage' \in Nat /\ DOMAIN pass' = Passes /\ deletion.done = None
  BY <1>1, <1>2, <1>4, <1>6 DEF IInv, PassesOK, TypeOK, Goto, Progress
<1>. HIDE DEF next
<1>9. TypeOK'
  BY <1>6, <1>7, <1>8 DEF IInv, TypeOK, store, Deletion
<1>10. Hold <= clock
  <2>1. pass[p].now \in Nat
    BY <1>1, HoursNat DEF Progress
  <2>. QED  BY <1>1, <2>1 DEF Underway
<1>11. OneDeleteAtATime' /\ Ledger' /\ Watching'
  BY <1>2, <1>6, <1>7, <1>10 DEF IInv, OneDeleteAtATime, Ledger, Watching, store
<1>12. Underway(p)'
  BY <1>1, <1>3, <1>5, <1>6, <1>7 DEF Underway, Expects, Starts
<1>. QED  BY <1>3, <1>4, <1>9, <1>11, <1>12, PassStep DEF IInv

(* Check's first read. *)
LEMMA ReadRunningKeeps ==
  ASSUME OnePass, IInv, NEW p \in Passes, ReadRunning(p)
  PROVE  IInv'
<1>. DEFINE running == {t \in Tables : deletes[t] > 0}
            next == [pass[p] EXCEPT !.pc = "rows", !.running = running]
<1>1. pass[p] \in Progress /\ Underway(p) /\ pass[p].pc = "running"
  BY PassOK DEF ReadRunning
<1>2. running \in SUBSET Tables
  OBVIOUS
<1>3. /\ next \in Progress /\ next.pc = "rows" /\ next.running = running
      /\ next.now = pass[p].now /\ next.check = pass[p].check
      /\ next.waiting = pass[p].waiting
  <2>. HIDE DEF running
  <2>. QED  BY <1>1, <1>2 DEF Progress
<1>4. Goto(p, next) /\ UNCHANGED <<clock, project, deletion, usage, store, passed, calm>>
  BY DEF ReadRunning
<1>. HIDE DEF next
<1>5. pass'[p] = next
  BY <1>4, Landed
<1>6. Underway(p)'
  BY <1>1, <1>3, <1>4, <1>5 DEF Underway, Expects, Starts, store
<1>. QED  BY <1>3, <1>4, <1>6, OwnStep

(* What a check finds: tables, and with nothing found anywhere, no rows at all. *)
LEMMA Found ==
  ASSUME TypeOK, NEW p \in Passes
  PROVE  /\ full \subseteq AllTables /\ Left(p) \subseteq Tables
         /\ \A t \in Left(p) : rows[t] # {} /\ t \notin pass[p].running
         /\ full = {} => ~Dirty
BY DEF full, Left, Dirty, AllTables

(* Check's second read, and what each caller does with it. *)
LEMMA ReadRowsKeeps ==
  ASSUME OnePass, IInv, NEW p \in Passes, ReadRows(p)
  PROVE  IInv'
<1>1. /\ pass[p] \in Progress /\ Underway(p) /\ pass[p].pc = "rows" /\ TypeOK
      /\ UNCHANGED <<clock, project, deletion, usage, store, calm>>
  BY PassOK DEF ReadRows, IInv
<1>2. CASE pass[p].check = "watch"
  <2>1. CASE full = {}
    <3>1. End(p)
      BY <1>1, <1>2, <2>1 DEF ReadRows
    <3>. QED  BY <1>1, <2>1, <3>1, Found, OwnEnd
  <2>2. CASE full # {}
    <3>. DEFINE next == [pass[p] EXCEPT !.pc = "reopen"]
    <3>1. Goto(p, next) /\ UNCHANGED passed
      BY <1>1, <1>2, <2>2 DEF ReadRows
    <3>2. next \in Progress /\ next.pc = "reopen" /\ next.now = pass[p].now
      BY <1>1 DEF Progress
    <3>. HIDE DEF next
    <3>3. pass'[p] = next
      BY <3>1, Landed
    <3>4. Underway(p)'
      BY <1>1, <1>2, <3>1, <3>2, <3>3 DEF Underway, Expects, Starts
    <3>. QED  BY <1>1, <3>1, <3>2, <3>4, OwnStep
  <2>. QED  BY <2>1, <2>2
<1>3. CASE pass[p].check = "erase"
  <2>. DEFINE to == IF NextRound(pass[p].d, pass[p].now, Left(p)) THEN "live" ELSE "postgres"
              met == full \cup pass[p].running
              next == [pass[p] EXCEPT !.pc = to, !.waiting = met]
  <2>1. Goto(p, next) /\ UNCHANGED passed
    BY <1>1, <1>3 DEF ReadRows
  <2>2. /\ met \in SUBSET AllTables /\ to \in {"live", "postgres"}
        /\ to = "live" => met # {}
    BY <1>1, Found DEF Progress, AllTables, NextRound, Left
  <2>3. met = {} => ~Dirty
    BY <1>1, Found
  <2>. HIDE DEF to, met
  <2>4. /\ next \in Progress /\ next.pc = to /\ next.now = pass[p].now
        /\ next.waiting = met
    BY <1>1, <2>2 DEF Progress
  <2>. HIDE DEF next
  <2>5. pass'[p] = next
    BY <2>1, Landed
  <2>6. Underway(p)'
    BY <1>1, <1>3, <2>1, <2>2, <2>3, <2>4, <2>5 DEF Underway, Expects, Starts, Dirty, store
  <2>. QED  BY <1>1, <2>1, <2>4, <2>6, OwnStep
<1>4. CASE pass[p].check = "start"
  <2>. DEFINE left == Left(p)
              to == IF left = {} THEN "postgres" ELSE "queue"
              next == [pass[p] EXCEPT !.todo = left, !.pc = to]
  <2>1. Goto(p, next) /\ UNCHANGED passed
    BY <1>1, <1>4 DEF ReadRows
  <2>2. left \in SUBSET Tables /\ \A t \in left : rows[t] # {} /\ ~(deletes[t] > 0)
    BY <1>1, Found DEF Underway
  <2>3. \A t \in left : deletes[t] = 0
    BY <1>1, <2>2 DEF TypeOK
  <2>. HIDE DEF left
  <2>4. /\ next \in Progress /\ next.pc = to /\ next.now = pass[p].now
        /\ next.todo = left /\ next.waiting = pass[p].waiting
    BY <1>1, <2>2 DEF Progress
  <2>. HIDE DEF next
  <2>5. pass'[p] = next
    BY <2>1, Landed
  <2>6. Underway(p)'
    BY <1>1, <1>4, <2>1, <2>2, <2>3, <2>4, <2>5 DEF Underway, Expects, Starts, Dirty, store
  <2>. QED  BY <1>1, <2>1, <2>4, <2>6, OwnStep
<1>5. CASE pass[p].check = "none"
  <2>1. FALSE
    BY <1>1, <1>5 DEF Underway
  <2>. QED  BY <2>1
<1>. QED  BY <1>1, <1>2, <1>3, <1>4, <1>5 DEF Progress

(* reopen takes a done deletion back. *)
LEMMA ReopenKeeps ==
  ASSUME OnePass, IInv, NEW p \in Passes, Reopen(p)
  PROVE  IInv'
<1>. DEFINE next == [pass[p] EXCEPT !.pc = "running", !.check = "erase"]
<1>1. /\ pass[p] \in Progress /\ Underway(p) /\ pass[p].pc = "reopen"
      /\ deletion \in Deletion /\ TypeOK
  BY PassOK DEF Reopen, IInv
<1>2. next \in Progress /\ next.pc = "running" /\ next.check = "erase" /\ next.now = pass[p].now
  BY <1>1 DEF Progress
<1>3. Goto(p, next) /\ UNCHANGED <<clock, project, usage, store, passed, calm>>
  BY DEF Reopen, CheckFor
<1>4. deletion.status \in {"done", "deleting"}
  BY <1>1 DEF Underway, Expects, Starts
<1>5. /\ deletion' \in Deletion /\ deletion'.status = "deleting" /\ deletion'.done = None
  <2>1. CASE deletion.status = "done"
    <3>1. deletion' = [deletion EXCEPT !.status = "deleting", !.done = None]
      BY <2>1 DEF Reopen
    <3>. QED  BY <1>1, <3>1 DEF Deletion
  <2>2. CASE deletion.status = "deleting"
    <3>1. deletion' = deletion
      BY <2>2 DEF Reopen
    <3>. QED  BY <1>1, <2>2, <3>1 DEF TypeOK
  <2>. QED  BY <1>4, <2>1, <2>2
<1>. HIDE DEF next
<1>6. pass'[p] = next /\ DOMAIN pass' = Passes
  BY <1>3, Landed DEF IInv, PassesOK, Goto
<1>7. TypeOK'
  BY <1>1, <1>3, <1>5, <1>6 DEF TypeOK, store, Deletion
<1>8. OneDeleteAtATime' /\ Ledger' /\ Watching'
  BY <1>3, <1>4, <1>5 DEF IInv, OneDeleteAtATime, Ledger, Watching, store
<1>9. Underway(p)'
  BY <1>1, <1>2, <1>3, <1>5, <1>6 DEF Underway, Expects, Starts
<1>. QED  BY <1>2, <1>3, <1>7, <1>8, <1>9, PassStep DEF IInv

(* Start goes on only with a project that is not live. *)
LEMMA RefuseLiveKeeps ==
  ASSUME OnePass, IInv, NEW p \in Passes, RefuseLive(p)
  PROVE  IInv'
<1>. DEFINE next == [pass[p] EXCEPT !.pc = "running", !.check = "start"]
<1>1. /\ pass[p] \in Progress /\ Underway(p) /\ pass[p].pc = "live"
      /\ UNCHANGED <<clock, project, deletion, usage, store, passed, calm>>
  BY PassOK DEF RefuseLive
<1>2. project # "live"
  BY <1>1 DEF Underway, Expects, Starts, IInv, Ledger
<1>3. Goto(p, next)
  BY <1>2 DEF RefuseLive, CheckFor
<1>4. /\ next \in Progress /\ next.pc = "running" /\ next.check = "start"
      /\ next.now = pass[p].now /\ next.waiting = pass[p].waiting
  BY <1>1 DEF Progress
<1>. HIDE DEF next
<1>5. pass'[p] = next
  BY <1>3, Landed
<1>6. Underway(p)'
  BY <1>1, <1>4, <1>5 DEF Underway, Expects, Starts
<1>. QED  BY <1>1, <1>3, <1>4, <1>6, OwnStep

(* One delete is queued, for a table that has none. *)
LEMMA QueueKeeps ==
  ASSUME OnePass, IInv, NEW p \in Passes, NEW t \in Tables, Queue(p, t)
  PROVE  IInv'
<1>. DEFINE rest == pass[p].todo \ {t}
            to == IF pass[p].todo = {t} THEN "record" ELSE pass[p].pc
            next == [pass[p] EXCEPT !.todo = rest, !.pc = to]
<1>1. /\ pass[p] \in Progress /\ Underway(p) /\ pass[p].pc = "queue" /\ t \in pass[p].todo
      /\ UNCHANGED <<clock, project, deletion, usage, rows, pg, late, passed, calm>>
  BY PassOK DEF Queue
<1>2. Goto(p, next)
  <2>1. Goto(p, [pass[p] EXCEPT !.todo = @ \ {t}, !.pc = IF pass[p].todo = {t} THEN "record" ELSE @])
    BY DEF Queue
  <2>. QED  BY <2>1, <1>1
<1>3. rest \in SUBSET Tables /\ to \in {"record", "queue"}
  BY <1>1 DEF Progress
<1>4. /\ next \in Progress /\ next.pc = to /\ next.todo = rest
      /\ next.now = pass[p].now /\ next.waiting = pass[p].waiting
  <2>. HIDE DEF rest, to
  <2>. QED  BY <1>1, <1>3 DEF Progress
<1>5. /\ deletes' = [deletes EXCEPT ![t] = @ + 1] /\ deletes[t] = 0
      /\ covered' = [covered EXCEPT ![t] = rows[t]]
  BY <1>1 DEF Queue, Underway
<1>6. /\ deletes \in [Tables -> Nat] /\ covered \in [Tables -> SUBSET Kinds]
      /\ rows[t] \in SUBSET Kinds
  BY DEF IInv, TypeOK, Kinds, AllTables
<1>7. /\ deletes' \in [Tables -> Nat] /\ covered' \in [Tables -> SUBSET Kinds]
      /\ \A s \in Tables : deletes'[s] = IF s = t THEN 1 ELSE deletes[s]
  BY <1>5, <1>6
<1>. HIDE DEF next
<1>8. pass'[p] = next /\ DOMAIN pass' = Passes
  BY <1>2, Landed DEF IInv, PassesOK, Goto
<1>9. TypeOK'
  BY <1>1, <1>7, <1>8 DEF IInv, TypeOK, Kinds
<1>10. OneDeleteAtATime' /\ Ledger' /\ Watching'
  BY <1>1, <1>7 DEF IInv, OneDeleteAtATime, Ledger, Watching, Dirty
<1>11. \A s \in rest : deletes'[s] = 0 /\ rows'[s] # {}
  BY <1>1, <1>7, <1>3 DEF Underway
<1>12. Underway(p)'
  <2>. HIDE DEF rest
  <2>. QED  BY <1>1, <1>3, <1>4, <1>8, <1>11 DEF Underway, Expects, Starts
<1>. QED  BY <1>2, <1>4, <1>9, <1>10, <1>12, PassStep DEF IInv

(* The round is recorded once its deletes are queued. *)
LEMMA RecordKeeps ==
  ASSUME OnePass, IInv, NEW p \in Passes, RecordRound(p)
  PROVE  IInv'
<1>. DEFINE next == [pass[p] EXCEPT !.pc = "postgres"]
<1>1. /\ pass[p] \in Progress /\ Underway(p) /\ pass[p].pc = "record"
      /\ deletion \in Deletion /\ pass[p].now \in Hours
      /\ UNCHANGED <<clock, project, usage, store, passed, calm>>
  BY PassOK DEF RecordRound, Progress
<1>2. Goto(p, next)
  BY DEF RecordRound
<1>3. /\ next \in Progress /\ next.pc = "postgres" /\ next.now = pass[p].now
      /\ next.waiting = pass[p].waiting
  BY <1>1 DEF Progress
<1>4. deletion' = [deletion EXCEPT !.round = pass[p].now]
  BY DEF RecordRound
<1>5. /\ deletion' \in Deletion /\ deletion'.status = deletion.status
      /\ deletion'.done = deletion.done
  BY <1>1, <1>4 DEF Deletion
<1>. HIDE DEF next
<1>6. pass'[p] = next /\ DOMAIN pass' = Passes
  BY <1>2, Landed DEF IInv, PassesOK, Goto
<1>7. TypeOK'
  BY <1>1, <1>5, <1>6 DEF IInv, TypeOK, store, Deletion
<1>8. OneDeleteAtATime' /\ Ledger' /\ Watching'
  BY <1>1, <1>5 DEF IInv, OneDeleteAtATime, Ledger, Watching, Dirty, store
<1>9. Underway(p)'
  BY <1>1, <1>3, <1>5, <1>6 DEF Underway, Expects, Starts
<1>. QED  BY <1>2, <1>3, <1>7, <1>8, <1>9, PassStep DEF IInv

(* erasePostgres goes on to finish only where nothing was found. *)
LEMMA BatchesKeeps ==
  ASSUME OnePass, IInv, NEW p \in Passes, Batches(p)
  PROVE  IInv'
<1>. DEFINE next == [pass[p] EXCEPT !.pc = "finish"]
<1>1. /\ pass[p] \in Progress /\ Underway(p) /\ pass[p].pc = "postgres"
      /\ project # "live" /\ deletion.status = "deleting"
      /\ UNCHANGED <<clock, project, deletion, usage, rows, deletes, covered, late, calm>>
  BY PassOK DEF Batches, Underway, Expects, Starts
<1>2. pg' \in BOOLEAN /\ (pg' => pg)
  <2>1. pg \in BOOLEAN
    BY DEF IInv, TypeOK
  <2>2. PICK left \in {FALSE, pg} : pg' = left
    BY DEF Batches
  <2>3. CASE left = FALSE
    BY <2>2, <2>3
  <2>4. CASE left = pg
    BY <2>1, <2>2, <2>4
  <2>. QED  BY <2>3, <2>4
<1>3. \/ End(p)
      \/ Goto(p, next) /\ passed' = passed /\ pass[p].waiting = {}
  BY DEF Batches
<1>4. DOMAIN pass' = Passes /\ passed' \in BOOLEAN
  BY <1>3 DEF IInv, PassesOK, TypeOK, Goto, End
<1>5. TypeOK'
  BY <1>1, <1>2, <1>4 DEF IInv, TypeOK
<1>6. OneDeleteAtATime' /\ Ledger' /\ Watching'
  BY <1>1, <1>2 DEF IInv, OneDeleteAtATime, Ledger, Watching
<1>7. CASE End(p)
  BY <1>5, <1>6, <1>7, EndStep DEF IInv, End
<1>8. CASE Goto(p, next) /\ pass[p].waiting = {}
  <2>1. /\ next \in Progress /\ next.pc = "finish" /\ next.now = pass[p].now
        /\ next.waiting = pass[p].waiting
    BY <1>1 DEF Progress
  <2>. HIDE DEF next
  <2>2. pass'[p] = next
    BY <1>8, Landed
  <2>3. Underway(p)'
    BY <1>1, <1>8, <2>1, <2>2 DEF Underway, Expects, Starts, Dirty
  <2>. QED  BY <1>5, <1>6, <1>8, <2>1, <2>3, PassStep DEF IInv
<1>. QED  BY <1>3, <1>7, <1>8

(* The deletion is done: its project gone, and rows left only as young as the pass. *)
LEMMA FinishKeeps ==
  ASSUME OnePass, WatchOutlasts, IInv, NEW p \in Passes, Finish(p)
  PROVE  IInv'
<1>1. /\ pass[p] \in Progress /\ Underway(p) /\ pass[p].pc = "finish"
      /\ pass[p].waiting = {} /\ pass[p].now \in Hours /\ pass[p].now \in Nat
      /\ deletion \in Deletion /\ clock \in Nat
      /\ UNCHANGED <<clock, usage, rows, deletes, covered, late, calm>>
  BY PassOK, HoursNat DEF Finish, Underway, Progress
<1>2. deletion.status = "deleting"
  BY <1>1 DEF Underway, Expects, Starts
<1>3. project \in {"hidden", "gone"}
  BY <1>2 DEF IInv, Ledger, TypeOK
<1>4. project' = "gone" /\ pg' = FALSE
  BY <1>3 DEF Finish, IInv, Ledger, TypeOK
<1>5. deletion' = [deletion EXCEPT !.status = "done", !.done = pass[p].now]
  BY <1>2 DEF Finish
<1>6. deletion' \in Deletion /\ deletion'.status = "done" /\ deletion'.done = pass[p].now
  BY <1>1, <1>5 DEF Deletion
<1>7. Goto(p, Idle) /\ passed' = TRUE
  BY DEF Finish, End
<1>8. DOMAIN pass' = Passes
  BY <1>7 DEF IInv, PassesOK, Goto
<1>9. pass[p].now # None
  BY <1>1, PurgeAssumption
<1>10. TypeOK'
  BY <1>1, <1>4, <1>6, <1>7, <1>8, <1>9 DEF IInv, TypeOK, Deletion
<1>11. /\ Hold <= pass[p].now /\ pass[p].now <= clock /\ clock <= pass[p].now + 1
       /\ (Dirty => pass[p].now < LastWrite)
  BY <1>1 DEF Underway
<1>12. {Hold, WatchFor, KeyLife, MaxAge} \subseteq Nat
  BY HoursNat
<1>13. OneDeleteAtATime' /\ Ledger' /\ (Dirty' <=> Dirty)
  <2>1. Hold <= clock
    BY <1>1, <1>11, <1>12
  <2>2. Ledger'
    BY <1>1, <1>4, <1>6, <1>11, <2>1 DEF Ledger
  <2>. QED  BY <1>1, <2>2 DEF IInv, OneDeleteAtATime, Dirty
<1>14. Watching'
  <2>1. clock <= pass[p].now + WatchFor
    BY <1>1, <1>11, <1>12 DEF WatchOutlasts
  <2>2. Dirty => clock < LastWrite \/ clock = pass[p].now + 1
    BY <1>1, <1>11, <1>12 DEF LastWrite
  <2>. QED  BY <1>1, <1>6, <1>13, <2>1, <2>2 DEF Watching, LastWrite
<1>. QED  BY <1>7, <1>10, <1>13, <1>14, EndStep DEF IInv

(* A pass that fails leaves what it did. *)
LEMMA FailKeeps ==
  ASSUME OnePass, IInv, NEW p \in Passes, Fail(p)
  PROVE  IInv'
<1>1. Idle \in Progress /\ Idle.pc = "idle"
  BY IdleOK DEF Idle
<1>. QED  BY <1>1, OwnStep DEF Fail
-----------------------------------------------------------------------------
(* The steps beside the passes leave the passes alone: what they change must fit what
   every pass knows.                                                              *)
LEMMA BesideStep ==
  ASSUME IInv, UNCHANGED pass,
         TypeOK', OneDeleteAtATime', Ledger', Watching',
         \A p \in Passes : Underway(p) /\ pass[p].pc # "idle" => Underway(p)'
  PROVE  IInv'
BY DEF IInv, PassesOK

(* DeleteProject's transaction; no pass is under way before it. *)
LEMMA RequestKeeps == IInv /\ Request => IInv'
<1> SUFFICES ASSUME IInv, Request PROVE IInv'
  OBVIOUS
<1>1. /\ deletion' = [NoDeletion EXCEPT !.status = "pending", !.org = (project = "live")]
      /\ project' = IF project = "live" THEN "hidden" ELSE project
      /\ deletion.status = "none"
      /\ UNCHANGED <<clock, usage, store, pass, passed, calm>>
  BY DEF Request
<1>2. /\ deletion' \in Deletion /\ deletion'.status = "pending" /\ deletion'.done = None
  BY <1>1, IdleOK DEF Deletion, NoDeletion
<1>3. project' \in {"hidden", "gone"} /\ (project' = "gone" => project = "gone")
  BY <1>1 DEF IInv, TypeOK
<1>4. TypeOK'
  BY <1>1, <1>2, <1>3 DEF IInv, TypeOK, store, Deletion
<1>5. OneDeleteAtATime' /\ Ledger' /\ Watching'
  BY <1>1, <1>2, <1>3 DEF IInv, OneDeleteAtATime, Ledger, Watching, store
<1>6. \A p \in Passes : ~Underway(p)
  BY <1>1 DEF Underway, Expects, Starts
<1>. QED  BY <1>1, <1>4, <1>5, <1>6, BesideStep

(* The operator's command on a done deletion; a pass that watches it goes on. *)
LEMMA RequestAgainKeeps == IInv /\ RequestAgain => IInv'
<1> SUFFICES ASSUME IInv, RequestAgain PROVE IInv'
  OBVIOUS
<1>1. /\ deletion' = [deletion EXCEPT !.status = "deleting", !.done = None]
      /\ deletion.status = "done" /\ deletion \in Deletion
      /\ UNCHANGED <<clock, project, usage, store, pass, passed, calm>>
  BY DEF RequestAgain, IInv, TypeOK, Deletion
<1>2. /\ deletion' \in Deletion /\ deletion'.status = "deleting" /\ deletion'.done = None
  BY <1>1 DEF Deletion
<1>3. TypeOK'
  BY <1>1, <1>2 DEF IInv, TypeOK, store, Deletion
<1>4. OneDeleteAtATime' /\ Ledger' /\ Watching'
  BY <1>1, <1>2 DEF IInv, OneDeleteAtATime, Ledger, Watching, store
<1>5. \A p \in Passes : Underway(p) /\ pass[p].pc # "idle" => Underway(p)'
  <2> SUFFICES ASSUME NEW p \in Passes, Underway(p) PROVE Underway(p)'
    OBVIOUS
  <2>. QED  BY <1>1, <1>2 DEF Underway, Expects, Starts, store, Dirty
<1>. QED  BY <1>1, <1>3, <1>4, <1>5, BesideStep

(* The meter counts a live project. *)
LEMMA MeterKeeps == IInv /\ Meter => IInv'
<1> SUFFICES ASSUME IInv, Meter PROVE IInv'
  OBVIOUS
<1>1. usage' \in Nat
  BY CountNat DEF Meter, IInv
<1>2. UNCHANGED <<clock, project, deletion, store, pass, passed, calm>>
  BY DEF Meter
<1>3. TypeOK'
  BY <1>1, <1>2 DEF IInv, TypeOK, store
<1>4. OneDeleteAtATime' /\ Ledger' /\ Watching'
  BY <1>2 DEF IInv, OneDeleteAtATime, Ledger, Watching, Dirty, store
<1>5. \A p \in Passes : Underway(p) /\ pass[p].pc # "idle" => Underway(p)'
  BY <1>2 DEF Underway, Expects, Starts, Dirty, store
<1>. QED  BY <1>2, <1>3, <1>4, <1>5, BesideStep

(* A late write comes before LastWrite. *)
LEMMA WriteIsEarly ==
  ASSUME Ledger, MayWrite, deletion.status # "none"
  PROVE  clock < LastWrite
BY DEF Ledger, MayWrite, LastWrite

(* A late write: a round that is queued, and a done deletion, allow for it. *)
LEMMA WriteKeeps ==
  ASSUME WatchOutlasts, IInv, NEW t \in Tables, Write(t)
  PROVE  IInv'
<1>1. /\ rows' = [rows EXCEPT ![t] = @ \cup {"late"}]
      /\ covered' = [covered EXCEPT ![t] = @ \ {"late"}]
      /\ late' = late + 1
      /\ UNCHANGED <<clock, project, deletion, usage, deletes, pg, pass, passed, calm>>
      /\ MayWrite /\ TypeOK /\ Ledger
  BY DEF Write, IInv
<1>2. deletion.status # "none" => clock < LastWrite
  BY <1>1, WriteIsEarly
<1>3. rows' \in [AllTables -> SUBSET Kinds] /\ \A s \in AllTables : rows[s] # {} => rows'[s] # {}
  BY <1>1 DEF TypeOK, Kinds, AllTables
<1>4. covered' \in [Tables -> SUBSET Kinds]
  BY <1>1 DEF TypeOK, Kinds
<1>5. late' \in 0 .. MaxLate
  BY <1>1, HoursNat DEF TypeOK, MayWrite
<1>6. TypeOK'
  BY <1>1, <1>3, <1>4, <1>5 DEF TypeOK, Kinds
<1>7. OneDeleteAtATime' /\ Ledger'
  BY <1>1 DEF IInv, OneDeleteAtATime, Ledger
<1>8. Watching'
  <2>1. SUFFICES ASSUME deletion.status = "done"
        PROVE  clock <= deletion.done + WatchFor /\ clock < LastWrite
    BY <1>1 DEF Watching, LastWrite
  <2>2. Hold <= deletion.done /\ deletion.done \in Nat /\ clock \in Nat
    BY <1>1, <2>1, HoursNat DEF Ledger, TypeOK
  <2>. QED  BY <1>2, <2>1, <2>2, HoursNat DEF WatchOutlasts, LastWrite
<1>9. \A p \in Passes : Underway(p) /\ pass[p].pc # "idle" => Underway(p)'
  <2> SUFFICES ASSUME NEW p \in Passes, Underway(p), pass[p].pc # "idle" PROVE Underway(p)'
    OBVIOUS
  <2>1. pass[p] \in Progress /\ pass[p].now \in Nat /\ clock \in Nat
    BY PassOK, HoursNat DEF Progress
  <2>2. deletion.status # "none"
    BY DEF Underway, Expects, Starts
  <2>3. pass[p].now < LastWrite
    BY <1>2, <2>1, <2>2, HoursNat DEF Underway, LastWrite
  <2>4. pass[p].pc = "queue" => \A s \in pass[p].todo : rows'[s] # {}
    BY <1>3, <2>1 DEF Underway, Progress, AllTables
  <2>. QED  BY <1>1, <2>3, <2>4 DEF Underway, Expects, Starts, LastWrite
<1>. QED  BY <1>1, <1>6, <1>7, <1>8, <1>9, BesideStep

(* A late PostgreSQL row needs its project's row. *)
LEMMA WritePostgresKeeps == IInv /\ WritePostgres => IInv'
<1> SUFFICES ASSUME IInv, WritePostgres PROVE IInv'
  OBVIOUS
<1>1. /\ pg' = TRUE /\ late' = late + 1 /\ project # "gone" /\ MayWrite
      /\ UNCHANGED <<clock, project, deletion, usage, rows, deletes, covered, pass, passed, calm>>
  BY DEF WritePostgres
<1>2. late' \in 0 .. MaxLate
  BY <1>1, HoursNat DEF IInv, TypeOK, MayWrite
<1>3. TypeOK'
  BY <1>1, <1>2 DEF IInv, TypeOK
<1>4. OneDeleteAtATime' /\ Ledger' /\ Watching'
  BY <1>1 DEF IInv, OneDeleteAtATime, Ledger, Watching, Dirty
<1>5. \A p \in Passes : Underway(p) /\ pass[p].pc # "idle" => Underway(p)'
  BY <1>1 DEF Underway, Expects, Starts, Dirty
<1>. QED  BY <1>1, <1>3, <1>4, <1>5, BesideStep

(* A table that is rebuilt is none that rows are deleted from. *)
LEMMA RebuildKeeps ==
  ASSUME IInv, NEW t \in Rebuilt, Rebuild(t)
  PROVE  IInv'
<1>1. /\ rows' = [rows EXCEPT ![t] = rows[Source]]
      /\ UNCHANGED <<clock, project, deletion, usage, deletes, covered, pg, late, pass, passed, calm>>
  BY DEF Rebuild
<1>2. rows \in [AllTables -> SUBSET Kinds] /\ Source \in AllTables /\ t \notin Tables
  BY PurgeAssumption DEF IInv, TypeOK, Kinds, AllTables
<1>3. rows' \in [AllTables -> SUBSET Kinds] /\ \A s \in Tables : rows'[s] = rows[s]
  BY <1>1, <1>2 DEF AllTables
<1>4. TypeOK'
  BY <1>1, <1>3 DEF IInv, TypeOK, Kinds
<1>5. OneDeleteAtATime' /\ Ledger' /\ Watching' /\ (Dirty' <=> Dirty)
  BY <1>1, <1>3 DEF IInv, OneDeleteAtATime, Ledger, Watching, Dirty
<1>6. \A p \in Passes : Underway(p) /\ pass[p].pc # "idle" => Underway(p)'
  <2> SUFFICES ASSUME NEW p \in Passes, Underway(p) PROVE Underway(p)'
    OBVIOUS
  <2>1. pass[p].todo \subseteq Tables
    BY PassOK DEF Progress
  <2>. QED  BY <1>1, <1>3, <1>5, <2>1 DEF Underway, Expects, Starts
<1>. QED  BY <1>1, <1>4, <1>5, <1>6, BesideStep

(* A delete ClickHouse applies is none of the tables still to be queued. *)
LEMMA ApplyKeeps ==
  ASSUME IInv, NEW t \in Tables, Apply(t)
  PROVE  IInv'
<1>1. /\ deletes[t] > 0 /\ deletes' = [deletes EXCEPT ![t] = @ - 1]
      /\ rows' = [rows EXCEPT ![t] = @ \ covered[t]] \/ rows' = rows
      /\ UNCHANGED <<clock, project, deletion, usage, covered, pg, late, pass, passed, calm>>
  BY DEF Apply
<1>2. rows \in [AllTables -> SUBSET Kinds] /\ deletes \in [Tables -> Nat]
  BY DEF IInv, TypeOK, Kinds
<1>3. /\ rows' \in [AllTables -> SUBSET Kinds]
      /\ \A s \in Tables : rows'[s] \subseteq rows[s] /\ (s # t => rows'[s] = rows[s])
  BY <1>1, <1>2 DEF AllTables
<1>4. /\ deletes' \in [Tables -> Nat]
      /\ \A s \in Tables : deletes'[s] <= deletes[s] /\ (s # t => deletes'[s] = deletes[s])
  BY <1>1, <1>2
<1>5. TypeOK'
  BY <1>1, <1>3, <1>4 DEF IInv, TypeOK, Kinds
<1>6. Dirty' => Dirty
  BY <1>3 DEF Dirty
<1>7. OneDeleteAtATime'
  BY <1>2, <1>4 DEF IInv, OneDeleteAtATime
<1>8. Ledger' /\ Watching'
  BY <1>1, <1>6 DEF IInv, Ledger, Watching, LastWrite
<1>9. \A p \in Passes : Underway(p) /\ pass[p].pc # "idle" => Underway(p)'
  <2> SUFFICES ASSUME NEW p \in Passes, Underway(p) PROVE Underway(p)'
    OBVIOUS
  <2>1. pass[p].todo \subseteq Tables
    BY PassOK DEF Progress
  <2>2. pass[p].pc = "rows" => \A s \in Tables : deletes'[s] > 0 => s \in pass[p].running
    BY <1>2, <1>4 DEF Underway
  <2>3. pass[p].pc = "queue" => \A s \in pass[p].todo : deletes'[s] = 0 /\ rows'[s] # {}
    BY <1>1, <1>3, <1>4, <2>1 DEF Underway
  <2>. QED  BY <1>1, <1>6, <2>2, <2>3 DEF Underway, Expects, Starts, LastWrite
<1>. QED  BY <1>1, <1>5, <1>7, <1>8, <1>9, BesideStep

(* An hour goes by: one that a pass ran to its end in, and that a pass under way
   began in.  This is where the watch must outlast the streams.                  *)
LEMMA TickKeeps ==
  ASSUME WatchOutlasts, IInv, Tick
  PROVE  IInv'
<1>1. /\ clock < Horizon /\ passed /\ clock' = clock + 1 /\ passed' = FALSE
      /\ \A p \in Passes : pass[p].pc # "idle" => pass[p].now = clock
      /\ UNCHANGED <<project, deletion, usage, store, pass, calm>>
  BY DEF Tick
<1>2. clock \in Nat /\ clock' \in Hours /\ clock' \in Nat
  BY <1>1, HoursNat DEF IInv, TypeOK, Hours
<1>3. TypeOK'
  BY <1>1, <1>2 DEF IInv, TypeOK, store, Hours
<1>4. deletion.done \in Nat \cup {None} /\ (deletion.status = "done" => deletion.done \in Nat)
  BY HoursNat DEF IInv, TypeOK
<1>5. OneDeleteAtATime' /\ Ledger' /\ (Dirty' <=> Dirty)
  BY <1>1, <1>2, <1>4, HoursNat DEF IInv, OneDeleteAtATime, Ledger, Dirty, store
<1>6. Watching'
  <2>1. SUFFICES ASSUME deletion.status = "done", Dirty
        PROVE  clock + 1 <= deletion.done + WatchFor
    BY <1>1, <1>5 DEF Watching
  <2>2. Hold <= deletion.done /\ (clock < LastWrite \/ clock = deletion.done + 1)
    BY <1>1, <2>1 DEF IInv, Ledger, Watching
  <2>. QED  BY <1>2, <1>4, <2>1, <2>2, HoursNat DEF WatchOutlasts, LastWrite
<1>7. \A p \in Passes : Underway(p) /\ pass[p].pc # "idle" => Underway(p)'
  <2> SUFFICES ASSUME NEW p \in Passes, Underway(p), pass[p].pc # "idle" PROVE Underway(p)'
    OBVIOUS
  <2>1. pass[p].now <= clock' /\ clock' <= pass[p].now + 1
    BY <1>1, <1>2
  <2>. QED  BY <1>1, <1>5, <2>1 DEF Underway, Expects, Starts, store, LastWrite
<1>. QED  BY <1>1, <1>3, <1>5, <1>6, <1>7, BesideStep

(* No more failures. *)
LEMMA CalmKeeps == IInv /\ CalmDown => IInv'
<1> SUFFICES ASSUME IInv, CalmDown PROVE IInv'
  OBVIOUS
<1>1. /\ calm' = TRUE
      /\ UNCHANGED <<clock, project, deletion, usage, store, pass, passed>>
  BY DEF CalmDown
<1>2. TypeOK' /\ OneDeleteAtATime' /\ Ledger' /\ Watching'
  BY <1>1 DEF IInv, TypeOK, OneDeleteAtATime, Ledger, Watching, Dirty, store
<1>3. \A p \in Passes : Underway(p) /\ pass[p].pc # "idle" => Underway(p)'
  BY <1>1 DEF Underway, Expects, Starts, Dirty, store
<1>. QED  BY <1>1, <1>2, <1>3, BesideStep
-----------------------------------------------------------------------------
(* A live project, or one long gone, and no deletion. *)
LEMMA InitOK == Init => IInv
<1> SUFFICES ASSUME Init PROVE IInv
  OBVIOUS
<1>1. clock = 0 /\ deletion = NoDeletion /\ 0 \in Hours /\ 0 \in 0 .. MaxLate
  BY HoursNat DEF Init, Hours
<1>2. pg \in BOOLEAN /\ (pg => project # "gone")
  BY DEF Init
<1>3. /\ deletion \in Deletion /\ deletion.status = "none" /\ deletion.done = None
  BY <1>1, IdleOK DEF NoDeletion
<1>4. /\ rows \in [AllTables -> SUBSET Kinds] /\ covered \in [Tables -> SUBSET Kinds]
      /\ deletes \in [Tables -> Nat] /\ \A t \in Tables : deletes[t] = 0
  BY DEF Init, Kinds
<1>5. TypeOK
  BY <1>1, <1>2, <1>3, <1>4 DEF Init, TypeOK, Deletion, Kinds
<1>6. PassesOK /\ \A p \in Passes : pass[p].pc = "idle"
  <2>1. Idle.pc = "idle" /\ Idle \in Progress
    BY IdleOK DEF Idle
  <2>. QED  BY <2>1 DEF Init, PassesOK
<1>7. OneDeleteAtATime /\ Ledger /\ Watching
  BY <1>2, <1>3, <1>4 DEF OneDeleteAtATime, Ledger, Watching
<1>. QED  BY <1>5, <1>6, <1>7 DEF IInv

(* Every step keeps it. *)
LEMMA NextKeeps ==
  ASSUME OnePass, WatchOutlasts, IInv, [Next]_vars
  PROVE  IInv'
<1>1. CASE World
  BY <1>1, RequestKeeps, RequestAgainKeeps, MeterKeeps, WritePostgresKeeps, TickKeeps,
     CalmKeeps, WriteKeeps, ApplyKeeps, RebuildKeeps DEF World
<1>2. ASSUME NEW p \in Passes, Step(p) \/ Fail(p) PROVE IInv'
  BY <1>2, ListKeeps, CountKeeps, StartKeeps, ReadRunningKeeps, ReadRowsKeeps, ReopenKeeps,
     RefuseLiveKeeps, QueueKeeps, RecordKeeps, BatchesKeeps, FinishKeeps, FailKeeps DEF Step
<1>3. CASE UNCHANGED vars
  BY <1>3 DEF IInv, TypeOK, PassesOK, OneDeleteAtATime, Ledger, Watching, Underway, Expects,
     Starts, Dirty, LastWrite, vars
<1>. QED  BY <1>1, <1>2, <1>3 DEF Next

(* The ledger row, the rows and the passes stay in step: with one pass at a time, and a
   watch as long as the streams keep messages, rows that come back to a done deletion
   are always seen within its watch.                                                *)
THEOREM PurgeStaysInStep ==
  ASSUME OnePass, WatchOutlasts
  PROVE  Spec => []IInv
<1>1. Init => IInv
  BY InitOK
<1>2. IInv /\ [Next]_vars => IInv'
  BY NextKeeps
<1>. QED  BY <1>1, <1>2, PTL DEF Spec

(* Inv of the purge: types, one delete of a table at a time, and once the watch of a done
   deletion is over, nothing of the project left in any table.                       *)
THEOREM PurgeLeavesNothing ==
  ASSUME OnePass, WatchOutlasts
  PROVE  Spec => []Inv
<1>1. IInv => Inv
  <2> SUFFICES ASSUME IInv PROVE Inv
    OBVIOUS
  <2>1. NothingOutlivesTheWatch
    <3>1. SUFFICES ASSUME deletion.status = "done", ~Watched(deletion, clock)
          PROVE  project = "gone" /\ ~pg /\ ~Dirty
      BY DEF NothingOutlivesTheWatch, Dirty
    <3>2. deletion.done \in Nat /\ clock \in Nat /\ WatchFor \in Nat
      BY <3>1, HoursNat DEF IInv, TypeOK
    <3>3. project = "gone" /\ ~pg
      BY <3>1 DEF IInv, Ledger
    <3>4. ~Dirty
      BY <3>1, <3>2 DEF IInv, Watching, Watched
    <3>. QED  BY <3>3, <3>4
  <2>. QED  BY <2>1 DEF Inv, IInv
<1>. QED  BY <1>1, PurgeStaysInStep, PTL

(* A delete is queued only for a table with rows, of a project that is not live. *)
THEOREM PurgeDeletesRows ==
  ASSUME OnePass, WatchOutlasts
  PROVE  Spec => DeletesHaveRows
<1>. DEFINE Deletes == \A t \in Tables : deletes'[t] > deletes[t] => rows[t] # {} /\ project # "live"
<1>1. IInv /\ [Next]_vars => [Deletes]_vars
  <2> SUFFICES ASSUME IInv, [Next]_vars, NEW t \in Tables, deletes'[t] > deletes[t]
        PROVE  rows[t] # {} /\ project # "live"
    OBVIOUS
  <2>1. deletes \in [Tables -> Nat]
    BY DEF IInv, TypeOK
  <2>2. ~(UNCHANGED deletes)
    BY <2>1
  <2>3. \A s \in Tables : ~Apply(s)
    BY <2>1 DEF Apply
  <2>4. PICK p \in Passes, s \in Tables : Queue(p, s)
    BY <2>2, <2>3 DEF Next, World, Step, Fail, vars, store, Request, RequestAgain, Meter,
       WritePostgres, Tick, CalmDown, Write, Rebuild, List, Count, StartDeletion, ReadRunning,
       ReadRows, Reopen, RefuseLive, RecordRound, Batches, Finish
  <2>5. s = t
    BY <2>1, <2>4 DEF Queue
  <2>6. Underway(p) /\ pass[p].pc = "queue" /\ t \in pass[p].todo
    BY <2>4, <2>5, PassOK DEF Queue
  <2>7. rows[t] # {} /\ deletion.status = "deleting"
    BY <2>6 DEF Underway, Expects, Starts
  <2>. QED  BY <2>7 DEF IInv, Ledger
<1>. QED  BY <1>1, PurgeStaysInStep, PTL DEF Spec, DeletesHaveRows
===========================================================================
