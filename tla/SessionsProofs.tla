---------------------------- MODULE SessionsProofs ----------------------------
(* Proofs about Sessions, for every number of requests and failures: the types, that
   a token is exchanged for one successor, that what ended stays ended, and that no
   session ends that nobody ended.

   The argument is the chain.  A session has at most one token that is stored and not
   consumed, its tip (OneTip).  A rotation between its update and its commit holds
   the lock of the tip, so there is one such rotation, and its successor comes after
   every token there ever was (Pending); and a revocation that has locked all that
   was unrevoked leaves no rotation pending (Closing).                              *)
EXTENDS Sessions, FiniteSetTheorems, TLAPS

Steps == {"new", "lookup", "rotate", "revoke", "update", "commit", "done"}
Row == [in : BOOLEAN, from : Tokens \cup {None}, consumed : BOOLEAN,
        revoked : BOOLEAN, expired : BOOLEAN]
Tx == [pc : Steps, kind : Kinds \cup {None}, token : Tokens \cup {None},
       held : SUBSET Tokens, todo : SUBSET Tokens, next : Tokens \cup {None},
       issued : Tokens \cup {None}, quiet : BOOLEAN, sso : BOOLEAN, result : Results \cup {None}]

Typed ==
  /\ row \in [Tokens -> Row] /\ tx \in [Requests -> Tx]
  /\ proven \in BOOLEAN /\ required \in BOOLEAN /\ faults \in 0 .. MaxFaults

(* A request that has begun presents a token, and has the locks and numbers its step
   goes with; no two hold one row.                                                  *)
Working(r) ==
  /\ tx[r].pc # "new" => tx[r].token \in Tokens /\ tx[r].kind # None
  /\ tx[r].pc = "done" <=> tx[r].result # None
  /\ tx[r].pc \in {"new", "lookup", "done"} => tx[r].held = {}
  /\ tx[r].pc \in {"lookup", "rotate"} => tx[r].kind = "refresh"
  /\ tx[r].pc = "revoke" => tx[r].held \subseteq {tx[r].token}
  /\ tx[r].pc = "update" => tx[r].next \in tx[r].todo
  /\ tx[r].issued # None => tx[r].pc \in {"commit", "done"}
Locks == \A r, q \in Requests : r # q => tx[r].held \cap tx[q].held = {}

(* Numbers are given out in order, and each once. *)
Numbers == \A r \in Requests : tx[r].issued # None =>
  /\ tx[r].issued \in 2 .. fresh - 1
  /\ \A q \in Requests : tx[q].issued = tx[r].issued => q = r

(* The tokens there ever were. *)
Ever(t) == t = 1 \/ row[t].from # None
Rotated(r) == tx[r].result = "rotated"

(* A row says what the requests did: its successor, and who made it. *)
Chain ==
  /\ \A t \in Tokens : row[t].in \/ row[t].consumed \/ row[t].revoked \/ row[t].expired => Ever(t)
  /\ \A t \in Tokens : row[t].from # None =>
       /\ row[t].from < t /\ row[row[t].from].consumed
       /\ \E r \in Requests : Rotated(r) /\ tx[r].token = row[t].from /\ tx[r].issued = t
  /\ \A s, t \in Tokens : row[s].from = row[t].from /\ row[s].from # None => s = t
  /\ \A t \in Tokens : row[t].consumed =>
       /\ \E r \in Requests : Rotated(r) /\ tx[r].token = t
       /\ row[t].in => \E s \in Tokens : row[s].in /\ row[s].from = t
  /\ \A r \in Requests : Rotated(r) => tx[r].issued # None
  /\ \A s, t \in Tokens : row[s].expired /\ row[t].in /\ t < s => row[t].expired

OneTip == \A s, t \in Stored : ~row[s].consumed /\ ~row[t].consumed => s = t

(* What is held is stored; what is being rotated is the tip. *)
HeldStored == \A r \in Requests : \A t \in tx[r].held : row[t].in
Rotating(r) == At(r, "rotate") \/ (At(r, "commit") /\ tx[r].issued # None)
PendingOf(r) == Rotating(r) =>
  /\ tx[r].kind = "refresh" /\ tx[r].token \in tx[r].held
  /\ ~row[tx[r].token].consumed /\ ~row[tx[r].token].revoked
  /\ tx[r].issued # None => \A t \in Tokens : Ever(t) => t < tx[r].issued

(* A revocation that no rotation slipped past has locked, or will, all that is left. *)
Revoking(r) == At(r, "revoke") \/ At(r, "update") \/ (At(r, "commit") /\ tx[r].issued = None)
ClosingOf(r) ==
  /\ At(r, "update") /\ tx[r].quiet => Unrevoked \subseteq tx[r].todo \cup tx[r].held
  /\ At(r, "commit") /\ tx[r].issued = None /\ tx[r].quiet /\ tx[r].held # {} => Unrevoked \subseteq tx[r].held
  /\ tx[r].result = "ended" /\ tx[r].quiet => Unrevoked = {}

(* It was asked for. *)
Asked(r) == tx[r].kind = "signout" \/ tx[r].sso \/ \E q \in Requests : Rotated(q) /\ tx[q].token = tx[r].token
AskedFor ==
  /\ \A r \in Requests : Revoking(r) => Asked(r)
  /\ \A t \in Tokens : row[t].revoked => \E r \in Requests : tx[r].result = "ended" /\ Asked(r)

IInv ==
  /\ Typed /\ (\A r \in Requests : Working(r)) /\ Locks /\ Numbers /\ Chain /\ OneTip
  /\ HeldStored /\ (\A r \in Requests : PendingOf(r) /\ ClosingOf(r)) /\ AskedFor

-----------------------------------------------------------------------------
(* There are at most as many numbers as tokens. *)
LEMMA Requested == Cardinality(Requests) \in Nat /\ Tokens \subseteq Nat /\ 1 \in Tokens
  /\ None \notin Tokens /\ None \notin Results /\ None \notin Kinds
BY SessionsAssumption, FS_CardinalityType DEF Tokens

(* The next number is a token's, as long as a request has none. *)
LEMMA FreshIsToken ==
  /\ fresh \in Nat /\ fresh >= 2
  /\ \A r \in Requests : tx[r].issued = None => fresh \in Tokens
<1>. DEFINE With == {q \in Requests : tx[q].issued # None}
<1>1. IsFiniteSet(With) /\ Cardinality(With) \in Nat
  BY SessionsAssumption, FS_Subset, FS_CardinalityType
<1>2. ASSUME NEW r \in Requests, tx[r].issued = None
      PROVE  Cardinality(With) < Cardinality(Requests)
  <2>1. With \subseteq Requests /\ With # Requests
    BY <1>2
  <2>. QED
    BY <2>1, SessionsAssumption, FS_Subset, FS_CardinalityType
<1>. QED
  BY <1>1, <1>2, Requested DEF fresh, Tokens

(* It stays while no request takes one. *)
LEMMA FreshStays ==
  ASSUME \A q \in Requests : tx'[q].issued = tx[q].issued PROVE fresh' = fresh
<1>1. {q \in Requests : tx'[q].issued # None} = {q \in Requests : tx[q].issued # None}
  OBVIOUS
<1>. QED
  BY <1>1 DEF fresh

(* It moves on by one when a request takes it. *)
LEMMA FreshMoves ==
  ASSUME NEW r \in Requests, tx[r].issued = None, tx'[r].issued # None,
         \A q \in Requests \ {r} : tx'[q].issued = tx[q].issued
  PROVE  fresh' = fresh + 1
<1>. DEFINE With == {q \in Requests : tx[q].issued # None}
<1>1. {q \in Requests : tx'[q].issued # None} = With \cup {r} /\ r \notin With
  OBVIOUS
<1>2. IsFiniteSet(With) /\ Cardinality(With) \in Nat
  BY SessionsAssumption, FS_Subset, FS_CardinalityType
<1>3. Cardinality(With \cup {r}) = Cardinality(With) + 1
  BY <1>1, <1>2, FS_AddElement
<1>4. fresh = 2 + Cardinality(With) /\ fresh' = 2 + Cardinality(With \cup {r})
  BY <1>1 DEF fresh
<1>. HIDE DEF With
<1>. QED
  BY <1>2, <1>3, <1>4
-----------------------------------------------------------------------------
(* A sign-in starts a chain of one token, which nobody has presented. *)
LEMMA InitIInv == Init => IInv
<1>. SUFFICES ASSUME Init PROVE IInv
  OBVIOUS
<1>. USE Requested DEF Results
<1>1. tx \in [Requests -> Tx] /\ proven \in BOOLEAN /\ required \in BOOLEAN /\ faults \in 0 .. MaxFaults
  <2>1. NewTx \in Tx
    BY DEF Tx, NewTx, Steps
  <2>2. tx \in [Requests -> Tx] /\ faults \in 0 .. MaxFaults
    BY <2>1, SessionsAssumption DEF Init
  <2>3. proven \in BOOLEAN /\ required \in BOOLEAN
    BY DEF Init
  <2>. QED
    BY <2>1, <2>2, <2>3
<1>2. row \in [Tokens -> Row]
  <2>1. NoRow \in Row
    BY DEF NoRow, Row
  <2>2. \A t \in Tokens : [NoRow EXCEPT !.in = (t = 1)] \in Row
    <3>. SUFFICES ASSUME NEW t \in Tokens PROVE [NoRow EXCEPT !.in = (t = 1)] \in Row
      OBVIOUS
    <3>1. CASE t = 1
      BY <3>1, <2>1 DEF Row
    <3>2. CASE t # 1
      BY <3>2, <2>1 DEF Row
    <3>. QED
      BY <3>1, <3>2
  <2>. QED
    BY <2>2 DEF Init
<1>3. \A r \in Requests : tx[r] = NewTx
  BY DEF Init
<1>4. \A t \in Tokens : /\ row[t].in <=> t = 1
                        /\ row[t].from = None /\ ~row[t].consumed /\ ~row[t].revoked /\ ~row[t].expired
  BY DEF Init, NoRow
<1>5. \A r \in Requests : Working(r)
  BY <1>3 DEF Working, NewTx
<1>6. \A r \in Requests : PendingOf(r) /\ ClosingOf(r)
  BY <1>3 DEF PendingOf, ClosingOf, NewTx, Rotating, At
<1>7. Locks /\ Numbers /\ HeldStored /\ OneTip
  BY <1>3, <1>4 DEF Locks, Numbers, HeldStored, OneTip, Stored, NewTx
<1>8. Chain
  BY <1>3, <1>4 DEF Chain, NewTx, Ever, Rotated
<1>9. AskedFor
  BY <1>3, <1>4 DEF AskedFor, NewTx, Revoking, At
<1>. QED
  BY <1>1, <1>2, <1>5, <1>6, <1>7, <1>8, <1>9 DEF IInv, Typed

(* A step of one request that leaves the rows alone, takes no number, and ends
   neither in a rotation nor in a revocation, has to keep its own part only.   *)
LEMMA OwnStep ==
  ASSUME IInv, NEW r \in Requests, tx[r].pc # "done", NEW n \in Tx,
         Goto(r, n), row' = row, sso' = sso, faults' \in 0 .. MaxFaults,
         n.issued = tx[r].issued, n.result \notin {"rotated", "ended"},
         \A t \in n.held : row[t].in /\ Free(r, t),
         Working(r)', PendingOf(r)', ClosingOf(r)', (Revoking(r) => Asked(r))'
  PROVE  IInv'
<1>. USE Requested
<1>1. Typed'
  BY DEF IInv, Typed, Goto, sso, Row, Tokens
<1>2. tx' = [tx EXCEPT ![r] = n] /\ tx \in [Requests -> Tx] /\ tx'[r] = n
      /\ \A q \in Requests \ {r} : tx'[q] = tx[q]
  BY DEF IInv, Typed, Goto
<1>3. tx[r].result = None
  BY DEF IInv, Working
<1>4. \A q \in Requests : Rotated(q)' <=> Rotated(q)
  BY <1>2, <1>3 DEF Rotated, Results
<1>5. \A q \in Requests : Rotated(q) => q # r
  BY <1>3 DEF Rotated, Results
<1>6. \A q \in Requests \ {r} : Working(q)' /\ PendingOf(q)' /\ ClosingOf(q)'
  <2>. SUFFICES ASSUME NEW q \in Requests \ {r} PROVE Working(q)' /\ PendingOf(q)' /\ ClosingOf(q)'
    OBVIOUS
  <2>1. Working(q) /\ PendingOf(q) /\ ClosingOf(q)
    BY DEF IInv
  <2>. QED
    BY <1>2, <2>1 DEF Working, PendingOf, ClosingOf, Rotating, At, Ever, Unrevoked, Stored, Tokens
<1>7. Locks'
  BY <1>2 DEF IInv, Locks, Free
<1>8. Numbers'
  <2>1. \A q \in Requests : tx'[q].issued = tx[q].issued
    BY <1>2
  <2>. QED
    BY <2>1, FreshStays DEF IInv, Numbers
<1>9. Chain'
  <2>1. \A q \in Requests : tx'[q].issued = tx[q].issued
    BY <1>2
  <2>2. \A q \in Requests : Rotated(q) => tx'[q].token = tx[q].token
    BY <1>2, <1>5
  <2>3. \A t \in Tokens : Ever(t)' <=> Ever(t)
    BY DEF Ever
  <2>. QED
    BY <1>4, <2>1, <2>2, <2>3 DEF IInv, Chain, Tokens
<1>10. OneTip' /\ HeldStored'
  BY <1>2 DEF IInv, OneTip, HeldStored, Stored, Tokens
<1>11. AskedFor'
  <2>1. \A q \in Requests \ {r} : Asked(q) => Asked(q)'
    BY <1>2, <1>4, <1>5 DEF Asked
  <2>2. \A q \in Requests \ {r} : Revoking(q)' <=> Revoking(q)
    BY <1>2 DEF Revoking, At
  <2>3. \A q \in Requests : tx[q].result = "ended" => q # r /\ tx'[q].result = "ended"
    BY <1>2, <1>3 DEF Results
  <2>. QED
    BY <2>1, <2>2, <2>3 DEF IInv, AskedFor, Tokens
<1>. QED
  BY <1>1, <1>6, <1>7, <1>8, <1>9, <1>10, <1>11 DEF IInv
(* The parts of IInv about one request, as facts. *)
LEMMA Own ==
  ASSUME IInv, NEW r \in Requests
  PROVE  /\ tx \in [Requests -> Tx] /\ tx[r] \in Tx /\ Working(r) /\ PendingOf(r) /\ ClosingOf(r)
         /\ \A t \in tx[r].held : row[t].in /\ Free(r, t)
BY DEF IInv, Typed, HeldStored, Locks, Free

(* A request that presents a token holds nothing yet; a sign-out is asked for. *)
LEMMA PresentIInv ==
  ASSUME IInv, NEW r \in Requests, NEW kind \in Kinds, NEW t \in Tokens, Present(r, kind, t)
  PROVE  IInv'
<1>. DEFINE pc == IF kind = "refresh" THEN "lookup" ELSE "revoke"
            n == [tx[r] EXCEPT !.kind = kind, !.token = t, !.pc = pc]
<1>1. tx[r] \in Tx /\ Working(r) /\ tx[r].pc = "new" /\ Goto(r, n) /\ tx' = [tx EXCEPT ![r] = n]
  BY Own DEF Present, Goto, At
<1>2. tx[r].held = {} /\ tx[r].result = None /\ tx[r].issued = None
  BY <1>1 DEF Working
<1>3. n \in Tx
  <2>1. pc \in Steps
    BY DEF Steps
  <2>. HIDE DEF pc
  <2>. QED
    BY <1>1, <2>1 DEF Tx
<1>4. tx'[r] = n
  BY <1>1, Own
<1>. USE Requested DEF Results, Kinds
<1>5. Working(r)' /\ PendingOf(r)'
  BY <1>1, <1>2, <1>4 DEF Working, PendingOf, Rotating, At, Tx
<1>6. ClosingOf(r)'
  BY <1>1, <1>2, <1>4 DEF ClosingOf, At, Tx
<1>7. (Revoking(r) => Asked(r))'
  BY <1>1, <1>4 DEF Revoking, Asked, At, Tx
<1>8. n.held = {} /\ n.issued = tx[r].issued /\ n.result = None
  BY <1>1, <1>2 DEF Tx
<1>. HIDE DEF n
<1>. QED
  BY <1>1, <1>3, <1>5, <1>6, <1>7, <1>8, OwnStep DEF Present, IInv, Typed, sso

(* A request that ends with nothing done releases what it held. *)
LEMMA EndIInv ==
  ASSUME IInv, NEW r \in Requests, tx[r].pc # "done", NEW result \in {"refused", "failed"},
         End(r, result), row' = row, sso' = sso, faults' \in 0 .. MaxFaults, tx[r].pc # "new"
  PROVE  IInv'
<1>. USE DEF Results
<1>1. tx[r] \in Tx /\ Working(r) /\ PendingOf(r) /\ ClosingOf(r) /\ Goto(r, Ended(r, result))
  BY Own DEF End
<1>2. Ended(r, result) \in Tx
  BY <1>1 DEF Ended, Tx, Steps
<1>3. tx'[r] = Ended(r, result)
  BY <1>1, Own DEF Goto
<1>. USE Requested DEF Kinds
<1>4. Working(r)'
  BY <1>1, <1>3 DEF Ended, Working, Tx
<1>5. PendingOf(r)' /\ ClosingOf(r)' /\ (Revoking(r) => Asked(r))'
  BY <1>1, <1>3 DEF Ended, PendingOf, ClosingOf, Rotating, Revoking, At, Tx
<1>6. Ended(r, result).held = {} /\ Ended(r, result).issued = tx[r].issued /\ Ended(r, result).result = result
  BY <1>1 DEF Ended, Tx
<1>. QED
  BY <1>1, <1>2, <1>4, <1>5, <1>6, OwnStep

(* A token that was read is locked, and rotated only if it is the usable tip; a
   consumed one was exchanged by a rotation, which asks for the revocation.       *)
LEMMA LookupIInv == ASSUME IInv, NEW r \in Requests, Lookup(r) PROVE IInv'
<1>. DEFINE t == tx[r].token
            got == [tx[r] EXCEPT !.held = @ \cup {t}]
            n(pc, sso_) == [got EXCEPT !.pc = pc, !.sso = sso_]
<1>1. /\ tx[r] \in Tx /\ Working(r) /\ At(r, "lookup") /\ Free(r, t) /\ t \in Tokens
      /\ tx[r].held = {} /\ tx[r].issued = None /\ tx[r].result = None /\ tx[r].kind = "refresh"
  BY Own DEF Lookup, At, Working
<1>2. row' = row /\ sso' = sso /\ faults' \in 0 .. MaxFaults
  BY DEF Lookup, IInv, Typed
<1>3. CASE End(r, "refused")
  BY <1>1, <1>2, <1>3, EndIInv DEF At
<1>4. ASSUME NEW pc \in {"revoke", "rotate"}, NEW b \in BOOLEAN, Goto(r, n(pc, b)), row[t].in,
             pc = "revoke" => b \/ row[t].consumed, pc = "rotate" => Usable(t)
      PROVE  IInv'
  <2>1. n(pc, b) \in Tx
    BY <1>1 DEF Tx, Steps
  <2>2. tx' = [tx EXCEPT ![r] = n(pc, b)] /\ tx'[r] = n(pc, b)
    BY <1>4, Own DEF Goto
  <2>3. n(pc, b) = [tx[r] EXCEPT !.held = {t}, !.pc = pc, !.sso = b]
    BY <1>1 DEF Tx
  <2>. USE Requested DEF Results, Kinds
  <2>4. Working(r)' /\ ClosingOf(r)'
    BY <1>1, <2>2, <2>3 DEF Working, ClosingOf, At, Tx
  <2>5. PendingOf(r)'
    BY <1>1, <1>2, <1>4, <2>2, <2>3 DEF PendingOf, Rotating, Usable, At, Tx
  <2>6. (Revoking(r) => Asked(r))'
    <3>1. row[t].consumed => \E q \in Requests : Rotated(q) /\ tx[q].token = t
      BY <1>1 DEF IInv, Chain
    <3>2. \A q \in Requests : Rotated(q) => q # r /\ tx'[q] = tx[q]
      BY <1>1, <2>2, Own DEF Rotated
    <3>. QED
      BY <1>1, <1>4, <2>2, <2>3, <3>1, <3>2 DEF Revoking, Asked, Rotated, At, Tx
  <2>7. n(pc, b).held = {t} /\ n(pc, b).issued = tx[r].issued /\ n(pc, b).result = None
    BY <1>1, <2>3 DEF Tx
  <2>. HIDE DEF n
  <2>. QED
    BY <1>1, <1>2, <1>4, <2>1, <2>4, <2>5, <2>6, <2>7, OwnStep DEF At
<1>5. tx[r].sso \in BOOLEAN /\ \A pc : [got EXCEPT !.pc = pc] = n(pc, tx[r].sso)
  BY <1>1 DEF Tx
<1>6. \/ End(r, "refused")
      \/ row[t].in /\ row[t].consumed /\ Goto(r, [got EXCEPT !.pc = "revoke"])
      \/ Usable(t) /\ Goto(r, n("revoke", TRUE))
      \/ Usable(t) /\ Goto(r, [got EXCEPT !.pc = "rotate"])
  BY DEF Lookup
<1>. HIDE DEF n, got
<1>. QED
  BY <1>3, <1>4, <1>5, <1>6 DEF Usable

(* A failure rolls the transaction back. *)
LEMMA FailIInv == ASSUME IInv, NEW r \in Requests, Fail(r) PROVE IInv'
<1>1. faults' \in 0 .. MaxFaults
  BY SessionsAssumption DEF Fail, IInv, Typed
<1>. QED
  BY <1>1, EndIInv DEF Fail, sso

(* A request that others wait for holds a lock: it is under way. *)
LEMMA AbortIInv == ASSUME IInv, NEW r \in Requests, Abort(r) PROVE IInv'
<1>1. \E p \in Requests : WaitsFor(p, r)
  BY DEF Abort, Deadlocked
<1>2. tx[r].pc \notin {"new", "done"}
  BY <1>1, Own DEF WaitsFor, Working
<1>. QED
  BY <1>2, EndIInv DEF Abort, sso, IInv, Typed
(* What is revoked is what is left to revoke of the family, or nothing of it is. *)
LEMMA RevokeIInv == ASSUME IInv, NEW r \in Requests, Revoke(r) PROVE IInv'
<1>. DEFINE none == [tx[r] EXCEPT !.pc = "commit"]
            some(t) == [tx[r] EXCEPT !.pc = "update", !.todo = InFamily(r), !.next = t]
<1>1. /\ tx[r] \in Tx /\ Working(r) /\ At(r, "revoke") /\ tx[r].held \subseteq {tx[r].token}
      /\ tx[r].token \in Tokens /\ tx[r].kind # None /\ tx[r].result = None /\ tx[r].issued = None
  BY Own DEF Revoke, At, Working
<1>2. Asked(r) /\ \A q \in Requests : Rotated(q) => q # r
  BY <1>1, Requested DEF IInv, AskedFor, Revoking, Rotated, Results
<1>3. \A t \in tx[r].held : row[t].in /\ Free(r, t)
  BY Own
<1>4. row' = row /\ sso' = sso /\ faults' \in 0 .. MaxFaults /\ Unrevoked' = Unrevoked
  BY DEF Revoke, IInv, Typed, Unrevoked, Stored
<1>. USE Requested DEF Results
<1>5. CASE InFamily(r) = {} /\ Goto(r, none)
  <2>1. none \in Tx /\ tx'[r] = none /\ tx' = [tx EXCEPT ![r] = none]
    BY <1>1, <1>5, Own DEF Goto, Tx, Steps
  <2>2. none.pc = "commit" /\ none.held = tx[r].held /\ none.result = None /\ none.issued = None
        /\ none.token = tx[r].token /\ none.kind = tx[r].kind /\ none.sso = tx[r].sso
    BY <1>1 DEF Tx
  <2>. HIDE DEF none
  <2>3. tx[r].held # {} => Unrevoked = {}
    BY <1>1, <1>3, <1>5 DEF InFamily
  <2>4. Working(r)' /\ PendingOf(r)'
    BY <1>1, <2>1, <2>2 DEF Working, PendingOf, Rotating, At
  <2>5. ClosingOf(r)'
    BY <1>4, <2>1, <2>2, <2>3 DEF ClosingOf, At
  <2>6. Asked(r)'
    BY <1>2, <2>1, <2>2, Own DEF Asked, Rotated
  <2>. QED
    BY <1>1, <1>3, <1>4, <1>5, <2>1, <2>2, <2>4, <2>5, <2>6, OwnStep DEF At
<1>6. ASSUME NEW t \in InFamily(r), Goto(r, some(t)) PROVE IInv'
  <2>1. InFamily(r) = Unrevoked /\ Unrevoked \subseteq Tokens
    BY <1>6 DEF InFamily, Unrevoked, Stored
  <2>2. some(t) \in Tx
    BY <1>1, <1>6, <2>1 DEF Tx, Steps
  <2>3. tx'[r] = some(t) /\ tx' = [tx EXCEPT ![r] = some(t)]
    BY <1>6, Own DEF Goto
  <2>4. /\ some(t).pc = "update" /\ some(t).held = tx[r].held /\ some(t).result = None
        /\ some(t).issued = None /\ some(t).token = tx[r].token /\ some(t).kind = tx[r].kind
        /\ some(t).sso = tx[r].sso /\ some(t).todo = Unrevoked /\ some(t).next = t
    BY <1>1, <2>1 DEF Tx
  <2>. HIDE DEF some
  <2>5. Working(r)' /\ PendingOf(r)'
    BY <1>1, <1>6, <2>1, <2>3, <2>4 DEF Working, PendingOf, Rotating, At
  <2>6. ClosingOf(r)'
    BY <1>4, <2>3, <2>4 DEF ClosingOf, At
  <2>7. Asked(r)'
    BY <1>2, <2>3, <2>4, Own DEF Asked, Rotated
  <2>. QED
    BY <1>1, <1>3, <1>4, <1>6, <2>2, <2>4, <2>5, <2>6, <2>7, OwnStep DEF At
<1>. QED
  BY <1>5, <1>6 DEF Revoke

(* A row that is left is locked, unless it is no longer there. *)
LEMMA UpdateIInv == ASSUME IInv, NEW r \in Requests, Update(r) PROVE IInv'
<1>. DEFINE left == tx[r].todo \ {tx[r].next}
            locked == tx[r].held \cup ({tx[r].next} \cap Stored)
            n(pc, next) == [tx[r] EXCEPT !.held = locked, !.todo = left, !.pc = pc, !.next = next]
<1>1. /\ tx[r] \in Tx /\ Working(r) /\ ClosingOf(r) /\ At(r, "update") /\ Free(r, tx[r].next)
      /\ tx[r].token \in Tokens /\ tx[r].kind # None /\ tx[r].result = None
      /\ tx[r].issued = None /\ tx[r].next \in tx[r].todo
  BY Own DEF Update, At, Working
<1>2. Asked(r) /\ \A q \in Requests : Rotated(q) => q # r
  BY <1>1, Requested DEF IInv, AskedFor, Revoking, Rotated, Results
<1>3. locked \subseteq Tokens /\ \A t \in locked : row[t].in /\ Free(r, t)
  BY <1>1, Own DEF Stored, Tx
<1>4. row' = row /\ sso' = sso /\ faults' \in 0 .. MaxFaults /\ Unrevoked' = Unrevoked
  BY DEF Update, IInv, Typed, Unrevoked, Stored
<1>5. tx[r].quiet => Unrevoked \subseteq left \cup locked
  BY <1>1 DEF ClosingOf, Unrevoked
<1>. USE Requested DEF Results
<1>6. ASSUME NEW pc \in {"commit", "update"}, NEW next \in left \cup {None}, Goto(r, n(pc, next)),
             pc = "update" => next \in left, pc = "commit" => left = {}
      PROVE  IInv'
  <2>1. n(pc, next) \in Tx
    BY <1>1, <1>3 DEF Tx, Steps
  <2>2. tx'[r] = n(pc, next) /\ tx' = [tx EXCEPT ![r] = n(pc, next)]
    BY <1>6, Own DEF Goto
  <2>3. /\ n(pc, next).pc = pc /\ n(pc, next).held = locked /\ n(pc, next).result = None
        /\ n(pc, next).issued = None /\ n(pc, next).token = tx[r].token
        /\ n(pc, next).kind = tx[r].kind /\ n(pc, next).sso = tx[r].sso
        /\ n(pc, next).todo = left /\ n(pc, next).next = next /\ n(pc, next).quiet = tx[r].quiet
    BY <1>1 DEF Tx
  <2>. HIDE DEF n, left, locked
  <2>4. Working(r)' /\ PendingOf(r)'
    BY <1>1, <1>6, <2>2, <2>3 DEF Working, PendingOf, Rotating, At
  <2>5. ClosingOf(r)'
    BY <1>4, <1>5, <1>6, <2>2, <2>3 DEF ClosingOf, At
  <2>6. Asked(r)'
    BY <1>2, <2>2, <2>3, Own DEF Asked, Rotated
  <2>. QED
    BY <1>1, <1>3, <1>4, <1>6, <2>1, <2>3, <2>4, <2>5, <2>6, OwnStep DEF At
<1>7. \/ left = {} /\ Goto(r, n("commit", None))
      \/ \E t \in left : Goto(r, n("update", t))
  <2>. DEFINE got == [tx[r] EXCEPT !.held = locked, !.todo = left]
  <2>1. \/ left = {} /\ Goto(r, [got EXCEPT !.pc = "commit", !.next = None])
        \/ \E t \in left : Goto(r, [got EXCEPT !.next = t])
    BY DEF Update
  <2>2. [got EXCEPT !.pc = "commit", !.next = None] = n("commit", None)
    BY <1>1 DEF Tx
  <2>3. \A t \in left : [got EXCEPT !.next = t] = n("update", t)
    BY <1>1 DEF Tx, At
  <2>. QED
    BY <2>1, <2>2, <2>3
<1>. HIDE DEF n, left, locked
<1>. QED
  BY <1>6, <1>7
(* A pending rotation holds the lock of the tip, so there is one. *)
LEMMA OneRotation ==
  ASSUME IInv, NEW r \in Requests, NEW q \in Requests, Rotating(r), Rotating(q)
  PROVE  q = r
<1>1. /\ tx[r].token \in tx[r].held /\ tx[q].token \in tx[q].held
      /\ ~row[tx[r].token].consumed /\ ~row[tx[q].token].consumed
  BY Own DEF PendingOf
<1>2. tx[r].held \subseteq Tokens /\ tx[q].held \subseteq Tokens
  BY Own DEF Tx
<1>3. tx[r].token = tx[q].token
  BY <1>1, <1>2 DEF IInv, OneTip, Stored, HeldStored
<1>. QED
  BY <1>1, <1>3 DEF IInv, Locks

(* The tokens there were have numbers that were given out. *)
LEMMA EverGivenOut == ASSUME IInv, NEW t \in Tokens, Ever(t) PROVE t < fresh
BY FreshIsToken, Requested DEF IInv, Chain, Numbers, Ever

(* A successor's number comes after all the tokens there ever were. *)
LEMMA RotateIInv == ASSUME IInv, NEW r \in Requests, Rotate(r) PROVE IInv'
<1>. DEFINE n == [tx[r] EXCEPT !.held = @ \cup {tx[r].token}, !.issued = fresh, !.pc = "commit"]
<1>1. /\ tx[r] \in Tx /\ Working(r) /\ At(r, "rotate") /\ Free(r, tx[r].token) /\ tx[r].token \in Tokens
      /\ tx[r].kind = "refresh" /\ tx[r].result = None /\ tx[r].issued = None
      /\ tx[r].token \in tx[r].held /\ ~row[tx[r].token].consumed /\ ~row[tx[r].token].revoked
  BY Own DEF Rotate, At, Working, PendingOf, Rotating
<1>2. row' = row /\ sso' = sso /\ UNCHANGED faults
  BY DEF Rotate
<1>3. Goto(r, n)
  BY <1>1 DEF Rotate
<1>4. fresh \in Tokens /\ fresh \in Nat /\ fresh >= 2 /\ fresh # None
  BY <1>1, FreshIsToken, Requested
<1>5. n \in Tx
  BY <1>1, <1>4 DEF Tx, Steps
<1>6. tx'[r] = n /\ tx' = [tx EXCEPT ![r] = n] /\ tx' \in [Requests -> Tx]
      /\ \A q \in Requests \ {r} : tx'[q] = tx[q]
  BY <1>3, <1>5, Own DEF Goto
<1>7. /\ n.pc = "commit" /\ n.held = tx[r].held /\ n.issued = fresh /\ n.result = None
      /\ n.token = tx[r].token /\ n.kind = tx[r].kind
  BY <1>1 DEF Tx
<1>. HIDE DEF n
<1>8. fresh' = fresh + 1
  BY <1>1, <1>4, <1>6, <1>7, FreshMoves
<1>. USE Requested
<1>9. Typed'
  BY <1>2, <1>6 DEF IInv, Typed, sso, Row, Tokens
<1>10. \A q \in Requests : Rotated(q)' <=> Rotated(q)
  BY <1>1, <1>6, <1>7 DEF Rotated
<1>11. \A q \in Requests : Rotated(q) => q # r
  BY <1>1 DEF Rotated, Results
<1>12. Working(r)' /\ PendingOf(r)' /\ ClosingOf(r)'
  <2>1. Working(r)' /\ ClosingOf(r)'
    BY <1>1, <1>4, <1>6, <1>7 DEF Working, ClosingOf, At, Results
  <2>2. \A t \in Tokens : Ever(t)' <=> Ever(t)
    BY <1>2 DEF Ever
  <2>3. PendingOf(r)'
    BY <1>1, <1>2, <1>6, <1>7, <2>2, EverGivenOut DEF PendingOf, Rotating, At, Tokens
  <2>. QED
    BY <2>1, <2>3
<1>13. \A q \in Requests \ {r} : Working(q)' /\ PendingOf(q)' /\ ClosingOf(q)'
  <2>. SUFFICES ASSUME NEW q \in Requests \ {r} PROVE Working(q)' /\ PendingOf(q)' /\ ClosingOf(q)'
    OBVIOUS
  <2>1. Working(q) /\ PendingOf(q) /\ ClosingOf(q)
    BY DEF IInv
  <2>. QED
    BY <1>2, <1>6, <2>1 DEF Working, PendingOf, ClosingOf, Rotating, At, Ever, Unrevoked, Stored, Tokens
<1>14. Locks' /\ OneTip' /\ HeldStored'
  BY <1>2, <1>6, <1>7 DEF IInv, Locks, OneTip, HeldStored, Stored, Tokens
<1>15. Numbers'
  BY <1>1, <1>4, <1>6, <1>7, <1>8 DEF IInv, Numbers, Tx
<1>16. Chain'
  <2>1. \A q \in Requests : Rotated(q) => tx'[q].token = tx[q].token /\ tx'[q].issued = tx[q].issued
    BY <1>6, <1>11
  <2>2. \A t \in Tokens : Ever(t)' <=> Ever(t)
    BY <1>2 DEF Ever
  <2>. QED
    BY <1>2, <1>10, <2>1, <2>2 DEF IInv, Chain, Tokens
<1>17. AskedFor'
  <2>1. \A q \in Requests \ {r} : Asked(q) => Asked(q)'
    BY <1>6, <1>10, <1>11 DEF Asked
  <2>2. \A q \in Requests : Revoking(q)' => q # r /\ Revoking(q)
    BY <1>4, <1>6, <1>7 DEF Revoking, At
  <2>3. \A q \in Requests : tx[q].result = "ended" => q # r /\ tx'[q].result = "ended"
    BY <1>1, <1>6 DEF Results
  <2>. QED
    BY <1>2, <2>1, <2>2, <2>3 DEF IInv, AskedFor, Tokens
<1>. QED
  BY <1>9, <1>12, <1>13, <1>14, <1>15, <1>16, <1>17 DEF IInv
(* A rotation moves the tip on, and no other is pending. *)
LEMMA CommitRotationIInv == ASSUME IInv, NEW r \in Requests, CommitRotation(r) PROVE IInv'
<1>. DEFINE old == tx[r].token
            new == tx[r].issued
<1>1. /\ tx[r] \in Tx /\ Working(r) /\ At(r, "commit") /\ new \in Tokens /\ old \in Tokens
      /\ tx[r].result = None /\ Rotating(r) /\ old \in tx[r].held /\ row[old].in
      /\ ~row[old].consumed /\ ~row[old].revoked
      /\ \A t \in Tokens : Ever(t) => t < new
  BY Own DEF CommitRotation, At, Working, PendingOf, Rotating, Tx
<1>. USE Requested
<1>2. /\ ~row[new].in /\ ~row[new].consumed /\ ~row[new].revoked /\ ~row[new].expired
      /\ row[new].from = None /\ new # 1 /\ old < new /\ row[new] \in Row /\ row[old] \in Row
  <2>1. row[new] \in Row /\ row[old] \in Row
    BY <1>1 DEF IInv, Typed
  <2>2. Ever(old)
    BY <1>1 DEF IInv, Chain
  <2>3. \A t \in Tokens : ~(t < t)
    OBVIOUS
  <2>4. ~Ever(new)
    BY <1>1, <2>3
  <2>. QED
    BY <1>1, <2>1, <2>2, <2>4 DEF IInv, Chain, Ever
<1>3. /\ row' \in [Tokens -> Row]
      /\ row'[new] = [NoRow EXCEPT !.in = TRUE, !.from = old]
      /\ row'[old] = [row[old] EXCEPT !.consumed = TRUE]
      /\ \A t \in Tokens \ {old, new} : row'[t] = row[t]
  BY <1>1, <1>2 DEF CommitRotation, IInv, Typed, Row, NoRow
<1>4. /\ row'[new].in /\ row'[new].from = old /\ ~row'[new].consumed /\ ~row'[new].revoked /\ ~row'[new].expired
      /\ row'[old].in /\ row'[old].from = row[old].from /\ row'[old].consumed
      /\ ~row'[old].revoked /\ (row'[old].expired <=> row[old].expired)
  BY <1>1, <1>2, <1>3 DEF NoRow, Row
<1>5. /\ tx'[r] = Ended(r, "rotated")
      /\ \A q \in Requests \ {r} : tx'[q] = [tx[q] EXCEPT !.quiet = @ /\ tx[q].pc \notin {"update", "commit"}]
  BY DEF CommitRotation
<1>6. Ended(r, "rotated") \in Tx
  BY <1>1 DEF Ended, Tx, Steps, Results
<1>7. /\ tx'[r].pc = "done" /\ tx'[r].result = "rotated" /\ tx'[r].held = {}
      /\ tx'[r].token = old /\ tx'[r].issued = new /\ tx'[r].kind = tx[r].kind
  BY <1>1, <1>5 DEF Ended, Tx
<1>8. \A q \in Requests \ {r} :
        /\ tx'[q] \in Tx /\ tx'[q].pc = tx[q].pc /\ tx'[q].kind = tx[q].kind /\ tx'[q].token = tx[q].token
        /\ tx'[q].held = tx[q].held /\ tx'[q].todo = tx[q].todo /\ tx'[q].next = tx[q].next
        /\ tx'[q].issued = tx[q].issued /\ tx'[q].sso = tx[q].sso /\ tx'[q].result = tx[q].result
        /\ (tx'[q].quiet => tx[q].quiet /\ tx[q].pc \notin {"update", "commit"})
  <2>. SUFFICES ASSUME NEW q \in Requests \ {r}, NEW b \in BOOLEAN,
                       b <=> tx[q].quiet /\ tx[q].pc \notin {"update", "commit"},
                       tx'[q] = [tx[q] EXCEPT !.quiet = b]
                PROVE  /\ tx'[q] \in Tx /\ tx'[q].pc = tx[q].pc /\ tx'[q].kind = tx[q].kind
                       /\ tx'[q].token = tx[q].token /\ tx'[q].held = tx[q].held
                       /\ tx'[q].todo = tx[q].todo /\ tx'[q].next = tx[q].next
                       /\ tx'[q].issued = tx[q].issued /\ tx'[q].sso = tx[q].sso
                       /\ tx'[q].result = tx[q].result
                       /\ (tx'[q].quiet => tx[q].quiet /\ tx[q].pc \notin {"update", "commit"})
    BY <1>5
  <2>. QED
    BY Own DEF Tx
<1>9. Typed'
  <2>1. tx' \in [Requests -> Tx]
    BY <1>5, <1>6, <1>8 DEF CommitRotation
  <2>. QED
    BY <1>3, <2>1 DEF CommitRotation, sso, IInv, Typed, Row, Tx, Tokens
<1>10. \A t \in Tokens : Ever(t)' <=> Ever(t) \/ t = new
  BY <1>1, <1>3, <1>4 DEF Ever
<1>11. \A q \in Requests : Rotated(q)' <=> Rotated(q) \/ q = r
  BY <1>7, <1>8 DEF Rotated
<1>12. \A q \in Requests : Rotated(q) => q # r
  BY <1>1 DEF Rotated, Results
<1>13. \A q \in Requests \ {r} : ~Rotating(q)
  BY <1>1, OneRotation
<1>14. \A q \in Requests : Working(q)'
  BY <1>1, <1>7, <1>8 DEF IInv, Working, Results, Kinds
<1>15. \A q \in Requests : PendingOf(q)'
  BY <1>7, <1>8, <1>13 DEF PendingOf, Rotating, At
<1>16. \A q \in Requests : ClosingOf(q)'
  <2>1. \A q \in Requests : ~(tx[q].result = "ended" /\ tx[q].quiet)
    BY <1>1, Own DEF ClosingOf, Unrevoked, Stored
  <2>. QED
    BY <2>1, <1>7, <1>8 DEF ClosingOf, At
<1>17. Locks' /\ HeldStored'
  <2>1. \A q \in Requests : tx'[q].held \subseteq tx[q].held
    BY <1>7, <1>8
  <2>2. \A t \in Tokens : row[t].in => row'[t].in
    BY <1>3, <1>4
  <2>3. \A q \in Requests : tx[q].held \subseteq Tokens
    BY Own DEF Tx
  <2>. QED
    BY <2>1, <2>2, <2>3 DEF IInv, Locks, HeldStored
<1>18. Numbers'
  <2>1. \A q \in Requests : tx'[q].issued = tx[q].issued
    BY <1>7, <1>8
  <2>. QED
    BY <2>1, FreshStays DEF IInv, Numbers
<1>19. OneTip'
  <2>1. \A t \in Stored : ~row[t].consumed => t = old
    BY <1>1 DEF IInv, OneTip, Stored
  <2>2. \A t \in Tokens : row'[t].in /\ ~row'[t].consumed => t = new
    BY <1>2, <1>3, <1>4, <2>1 DEF Stored
  <2>. QED
    BY <2>2 DEF OneTip, Stored, Tokens
<1>20. Chain'
  <2>1. \A t \in Tokens : row'[t].in \/ row'[t].consumed \/ row'[t].revoked \/ row'[t].expired => Ever(t)'
    BY <1>1, <1>3, <1>4, <1>10 DEF IInv, Chain
  <2>2. \A t \in Tokens : row'[t].from # None =>
          /\ row'[t].from < t /\ row'[row'[t].from].consumed
          /\ \E q \in Requests : Rotated(q)' /\ tx'[q].token = row'[t].from /\ tx'[q].issued = t
    <3>1. CASE Rotated(r)'
      <4>. SUFFICES ASSUME NEW t \in Tokens, row'[t].from # None
                    PROVE  /\ row'[t].from < t /\ row'[row'[t].from].consumed
                           /\ \E q \in Requests : Rotated(q)' /\ tx'[q].token = row'[t].from /\ tx'[q].issued = t
        OBVIOUS
      <4>1. CASE t = new
        BY <1>2, <1>4, <1>7, <3>1, <4>1
      <4>2. CASE t # new
        <5>1. row'[t].from = row[t].from
          BY <1>3, <1>4, <4>2
        <5>2. /\ row[t].from < t /\ row[row[t].from].consumed
              /\ \E q \in Requests : Rotated(q) /\ tx[q].token = row[t].from /\ tx[q].issued = t
          BY <5>1 DEF IInv, Chain
        <5>3. row[t].from \in Tokens
          BY <5>1 DEF IInv, Typed, Row
        <5>4. row'[row[t].from].consumed
          BY <1>2, <1>3, <1>4, <5>2, <5>3
        <5>. QED
          BY <1>8, <1>11, <1>12, <5>1, <5>2, <5>4
      <4>. QED
        BY <4>1, <4>2
    <3>. QED
      BY <3>1, <1>11
  <2>3. \A s, t \in Tokens : row'[s].from = row'[t].from /\ row'[s].from # None => s = t
    <3>1. \A s \in Tokens \ {new} : row'[s].from = row[s].from
      BY <1>3, <1>4
    <3>2. \A s \in Tokens : row[s].from # old
      BY <1>1 DEF IInv, Chain
    <3>. QED
      BY <1>4, <3>1, <3>2 DEF IInv, Chain
  <2>4. \A t \in Tokens : row'[t].consumed =>
          /\ \E q \in Requests : Rotated(q)' /\ tx'[q].token = t
          /\ row'[t].in => \E s \in Tokens : row'[s].in /\ row'[s].from = t
    <3>. SUFFICES ASSUME NEW t \in Tokens, row'[t].consumed
                  PROVE  /\ \E q \in Requests : Rotated(q)' /\ tx'[q].token = t
                         /\ row'[t].in => \E s \in Tokens : row'[s].in /\ row'[s].from = t
      OBVIOUS
    <3>1. CASE t = old
      BY <1>1, <1>4, <1>7, <1>11, <3>1
    <3>2. CASE t # old
      <4>1. row'[t] = row[t] /\ row[t].consumed
        BY <1>3, <1>4, <3>2
      <4>2. /\ \E q \in Requests : Rotated(q) /\ tx[q].token = t
            /\ row[t].in => \E s \in Tokens : row[s].in /\ row[s].from = t
        BY <4>1 DEF IInv, Chain
      <4>3. \A s \in Tokens : row[s].in => row'[s].in /\ row'[s].from = row[s].from
        BY <1>2, <1>3, <1>4
      <4>. QED
        BY <1>8, <1>11, <1>12, <4>1, <4>2, <4>3
    <3>. QED
      BY <3>1, <3>2
  <2>5. \A q \in Requests : Rotated(q)' => tx'[q].issued # None
    BY <1>1, <1>7, <1>8, <1>11 DEF IInv, Chain
  <2>6. \A s, t \in Tokens : row'[s].expired /\ row'[t].in /\ t < s => row'[t].expired
    <3>1. \A s \in Tokens : row'[s].expired => row[s].expired /\ s < new
      BY <1>1, <1>3, <1>4 DEF IInv, Chain
    <3>2. \A t \in Tokens \ {new} : row'[t].in => row[t].in /\ (row[t].expired => row'[t].expired)
      BY <1>1, <1>3, <1>4
    <3>. QED
      BY <1>1, <3>1, <3>2 DEF IInv, Chain
  <2>. QED
    BY <2>1, <2>2, <2>3, <2>4, <2>5, <2>6 DEF Chain, Tokens
<1>21. AskedFor'
  <2>1. \A q \in Requests : Asked(q) => Asked(q)' \/ q = r
    BY <1>8, <1>11, <1>12 DEF Asked
  <2>2. \A q \in Requests : Revoking(q)' => Revoking(q) /\ q # r
    BY <1>7, <1>8 DEF Revoking, At
  <2>3. \A q \in Requests : tx[q].result = "ended" => q # r /\ tx'[q].result = "ended"
    BY <1>1, <1>8 DEF Results
  <2>4. \A t \in Tokens : row'[t].revoked => row[t].revoked
    BY <1>3, <1>4
  <2>. QED
    BY <2>1, <2>2, <2>3, <2>4 DEF IInv, AskedFor, Tokens
<1>. QED
  BY <1>9, <1>14, <1>15, <1>16, <1>17, <1>18, <1>19, <1>20, <1>21 DEF IInv
(* A revocation revokes what it holds, which is all that was left if no rotation
   slipped past it.                                                            *)
LEMMA CommitRevocationIInv == ASSUME IInv, NEW r \in Requests, CommitRevocation(r) PROVE IInv'
<1>. DEFINE answer == IF tx[r].held = {} THEN "nothing" ELSE "ended"
<1>1. /\ tx[r] \in Tx /\ Working(r) /\ ClosingOf(r) /\ At(r, "commit") /\ tx[r].issued = None
      /\ tx[r].result = None /\ tx[r].token \in Tokens /\ tx[r].kind # None
  BY Own DEF CommitRevocation, At, Working
<1>. USE Requested
<1>2. Asked(r) /\ \A q \in Requests : Rotated(q) => q # r
  BY <1>1 DEF IInv, AskedFor, Revoking, Rotated, Results
<1>3. /\ row' \in [Tokens -> Row]
      /\ \A t \in Tokens :
           /\ (row'[t].in <=> row[t].in) /\ row'[t].from = row[t].from
           /\ (row'[t].consumed <=> row[t].consumed) /\ (row'[t].expired <=> row[t].expired)
           /\ (row'[t].revoked <=> row[t].revoked \/ t \in tx[r].held)
  BY DEF CommitRevocation, IInv, Typed, Row
<1>4. answer \in Results /\ Goto(r, Ended(r, answer))
  BY DEF CommitRevocation, End, Results
<1>. HIDE DEF answer
<1>5. Ended(r, answer) \in Tx
  BY <1>1, <1>4 DEF Ended, Tx, Steps
<1>6. tx' \in [Requests -> Tx] /\ tx'[r] = Ended(r, answer) /\ \A q \in Requests \ {r} : tx'[q] = tx[q]
  BY <1>4, <1>5, Own DEF Goto
<1>7. /\ tx'[r].pc = "done" /\ tx'[r].result = answer /\ tx'[r].held = {} /\ tx'[r].token = tx[r].token
      /\ tx'[r].issued = None /\ tx'[r].kind = tx[r].kind /\ tx'[r].sso = tx[r].sso
      /\ tx'[r].quiet = tx[r].quiet
  BY <1>1, <1>6 DEF Ended, Tx
<1>8. answer # "rotated" /\ answer # None /\ (answer = "ended" <=> tx[r].held # {})
  BY <1>4 DEF Results, answer
<1>9. Typed'
  BY <1>3, <1>6 DEF CommitRevocation, sso, IInv, Typed, Row, Tx, Tokens
<1>10. \A t \in Tokens : Ever(t)' <=> Ever(t)
  BY <1>3 DEF Ever
<1>11. \A q \in Requests : Rotated(q)' <=> Rotated(q)
  BY <1>2, <1>6, <1>7, <1>8 DEF Rotated
<1>12. Unrevoked' = Unrevoked \ tx[r].held
  BY <1>1, <1>3 DEF Unrevoked, Stored, Tokens, Tx
<1>13. Working(r)' /\ PendingOf(r)' /\ ClosingOf(r)'
  BY <1>1, <1>7, <1>8, <1>12 DEF Working, PendingOf, ClosingOf, Rotating, At
<1>14. \A q \in Requests \ {r} : Working(q)' /\ PendingOf(q)' /\ ClosingOf(q)'
  <2>. SUFFICES ASSUME NEW q \in Requests \ {r} PROVE Working(q)' /\ PendingOf(q)' /\ ClosingOf(q)'
    OBVIOUS
  <2>1. Working(q) /\ PendingOf(q) /\ ClosingOf(q) /\ tx'[q] = tx[q]
    BY <1>6 DEF IInv
  <2>2. Working(q)' /\ ClosingOf(q)'
    BY <1>12, <2>1 DEF Working, ClosingOf, At, Tokens
  <2>3. PendingOf(q)'
    <3>1. tx[q].held \subseteq Tokens /\ tx[q].held \cap tx[r].held = {}
      BY Own DEF Tx, IInv, Locks
    <3>. QED
      BY <1>3, <1>10, <2>1, <3>1 DEF PendingOf, Rotating, At, Tokens
  <2>. QED
    BY <2>2, <2>3
<1>15. Locks' /\ HeldStored'
  <2>1. \A q \in Requests : tx'[q].held \subseteq tx[q].held /\ tx[q].held \subseteq Tokens
    BY <1>6, <1>7, Own DEF Tx
  <2>. QED
    BY <1>3, <2>1 DEF IInv, Locks, HeldStored
<1>16. Numbers'
  <2>1. \A q \in Requests : tx'[q].issued = tx[q].issued
    BY <1>1, <1>6, <1>7
  <2>. QED
    BY <2>1, FreshStays DEF IInv, Numbers
<1>17. OneTip'
  BY <1>3 DEF IInv, OneTip, Stored, Tokens
<1>18. Chain'
  <2>1. \A q \in Requests : Rotated(q) => tx'[q] = tx[q]
    BY <1>2, <1>6
  <2>2. \A t \in tx[r].held : t \in Tokens /\ Ever(t)
    BY Own DEF IInv, Chain, Tx
  <2>3. row \in [Tokens -> Row]
    BY DEF IInv, Typed
  <2>4. \A t \in Tokens : row'[t].in \/ row'[t].consumed \/ row'[t].revoked \/ row'[t].expired => Ever(t)'
    BY <1>3, <1>10, <2>2 DEF IInv, Chain
  <2>5. \A t \in Tokens : row'[t].from # None =>
          /\ row'[t].from < t /\ row'[row'[t].from].consumed
          /\ \E q \in Requests : Rotated(q)' /\ tx'[q].token = row'[t].from /\ tx'[q].issued = t
    <3>. SUFFICES ASSUME NEW t \in Tokens, row[t].from # None
                  PROVE  /\ row[t].from < t /\ row'[row[t].from].consumed
                         /\ \E q \in Requests : Rotated(q)' /\ tx'[q].token = row[t].from /\ tx'[q].issued = t
      BY <1>3
    <3>1. /\ row[t].from < t /\ row[row[t].from].consumed
          /\ \E q \in Requests : Rotated(q) /\ tx[q].token = row[t].from /\ tx[q].issued = t
      BY DEF IInv, Chain
    <3>2. row[t].from \in Tokens
      BY <2>3 DEF Row
    <3>. QED
      BY <1>3, <1>11, <2>1, <3>1, <3>2
  <2>6. \A t \in Tokens : row'[t].consumed =>
          /\ \E q \in Requests : Rotated(q)' /\ tx'[q].token = t
          /\ row'[t].in => \E s \in Tokens : row'[s].in /\ row'[s].from = t
    <3>. SUFFICES ASSUME NEW t \in Tokens, row[t].consumed
                  PROVE  /\ \E q \in Requests : Rotated(q)' /\ tx'[q].token = t
                         /\ row[t].in => \E s \in Tokens : row'[s].in /\ row'[s].from = t
      BY <1>3
    <3>1. /\ \E q \in Requests : Rotated(q) /\ tx[q].token = t
          /\ row[t].in => \E s \in Tokens : row[s].in /\ row[s].from = t
      BY DEF IInv, Chain
    <3>. QED
      BY <1>3, <1>11, <2>1, <3>1
  <2>. QED
    BY <1>3, <1>11, <2>1, <2>4, <2>5, <2>6 DEF IInv, Chain, Tokens
<1>19. AskedFor'
  <2>1. \A q \in Requests : Asked(q) => Asked(q)'
    BY <1>2, <1>6, <1>7, <1>11 DEF Asked
  <2>2. \A q \in Requests : Revoking(q)' => Revoking(q)
    BY <1>6, <1>7 DEF Revoking, At
  <2>3. \A q \in Requests : tx[q].result = "ended" => tx'[q].result = "ended"
    BY <1>1, <1>6 DEF Results
  <2>4. ASSUME NEW t \in Tokens, row'[t].revoked PROVE \E q \in Requests : tx'[q].result = "ended" /\ Asked(q)'
    <3>1. CASE row[t].revoked
      BY <2>1, <2>3, <3>1 DEF IInv, AskedFor
    <3>2. CASE t \in tx[r].held
      BY <1>2, <1>7, <1>8, <2>1, <3>2
    <3>. QED
      BY <1>3, <2>4, <3>1, <3>2
  <2>. QED
    BY <2>1, <2>2, <2>4 DEF IInv, AskedFor, Tokens
<1>. QED
  BY <1>9, <1>13, <1>14, <1>15, <1>16, <1>17, <1>18, <1>19 DEF IInv
(* What is left alone when no request moves and no row is consumed, revoked or
   issued: rows expire, and are deleted when nobody holds them.                *)
LEMMA RowsAge ==
  ASSUME IInv, tx' = tx, faults' = faults, proven' = proven, required' \in BOOLEAN, row' \in [Tokens -> Row],
         \A t \in Tokens : /\ row'[t].in => row[t].in
                           /\ row'[t].from = row[t].from /\ (row'[t].consumed <=> row[t].consumed)
                           /\ (row'[t].revoked <=> row[t].revoked) /\ (row[t].expired => row'[t].expired)
                           /\ (row'[t].expired => Ever(t)),
         \A r \in Requests : \A t \in tx[r].held : row'[t].in,
         \A s, t \in Tokens : row'[s].expired /\ row'[t].in /\ t < s => row'[t].expired,
         \A s, t \in Tokens : row'[t].in /\ row[s].in /\ row[s].from = t => row'[s].in
  PROVE  IInv'
<1>. USE Requested
<1>1. Typed'
  BY DEF IInv, Typed, Row, Tx, Tokens
<1>2. \A t \in Tokens : Ever(t)' <=> Ever(t)
  BY DEF Ever
<1>3. Unrevoked' \subseteq Unrevoked
  BY DEF Unrevoked, Stored, Tokens
<1>4. \A r \in Requests : Working(r)' /\ PendingOf(r)' /\ ClosingOf(r)'
  <2>. SUFFICES ASSUME NEW r \in Requests PROVE Working(r)' /\ PendingOf(r)' /\ ClosingOf(r)'
    OBVIOUS
  <2>1. Working(r) /\ PendingOf(r) /\ ClosingOf(r)
    BY Own
  <2>2. Working(r)' /\ ClosingOf(r)'
    BY <1>3, <2>1 DEF Working, ClosingOf, At, Tokens
  <2>3. PendingOf(r)'
    <3>1. Rotating(r) => tx[r].token \in Tokens
      BY <2>1 DEF Working, Rotating, At
    <3>. QED
      BY <1>2, <2>1, <3>1 DEF PendingOf, Rotating, At, Tokens
  <2>. QED
    BY <2>2, <2>3
<1>5. Locks' /\ HeldStored' /\ OneTip'
  BY DEF IInv, Locks, HeldStored, OneTip, Stored, Tokens
<1>6. Numbers'
  BY FreshStays DEF IInv, Numbers
<1>7. Chain'
  <2>1. row \in [Tokens -> Row]
    BY DEF IInv, Typed
  <2>2. \A t \in Tokens : row'[t].in \/ row'[t].consumed \/ row'[t].revoked \/ row'[t].expired => Ever(t)'
    BY <1>2 DEF IInv, Chain
  <2>3. ASSUME NEW t \in Tokens, row[t].from # None
        PROVE  /\ row[t].from < t /\ row'[row[t].from].consumed
               /\ \E r \in Requests : Rotated(r)' /\ tx[r].token = row[t].from /\ tx[r].issued = t
    <3>1. row[t].from \in Tokens
      BY <2>1, <2>3 DEF Row
    <3>. QED
      BY <2>3, <3>1 DEF IInv, Chain, Rotated
  <2>4. ASSUME NEW t \in Tokens, row[t].consumed
        PROVE  /\ \E r \in Requests : Rotated(r)' /\ tx[r].token = t
               /\ row'[t].in => \E s \in Tokens : row'[s].in /\ row[s].from = t
    <3>1. /\ \E r \in Requests : Rotated(r) /\ tx[r].token = t
          /\ row[t].in => \E s \in Tokens : row[s].in /\ row[s].from = t
      BY <2>4 DEF IInv, Chain
    <3>. QED
      BY <3>1 DEF Rotated
  <2>5. /\ \A s, t \in Tokens : row'[s].from = row'[t].from /\ row'[s].from # None => s = t
        /\ \A r \in Requests : Rotated(r)' => tx[r].issued # None
    BY DEF IInv, Chain, Rotated
  <2>. QED
    BY <2>2, <2>3, <2>4, <2>5 DEF Chain, Tokens
<1>8. AskedFor'
  <2>1. \A r \in Requests : (Asked(r)' <=> Asked(r)) /\ (Revoking(r)' <=> Revoking(r))
    BY DEF Asked, Rotated, Revoking, At
  <2>. QED
    BY <2>1 DEF IInv, AskedFor, Tokens
<1>. QED
  BY <1>1, <1>4, <1>5, <1>6, <1>7, <1>8 DEF IInv

(* Switching SSO touches no row and no transaction. *)
LEMMA SwitchSSOIInv == ASSUME IInv, SwitchSSO PROVE IInv'
<1>1. row \in [Tokens -> Row] /\ \A r \in Requests : tx[r].held \subseteq Tokens
  BY Own DEF IInv, Typed, Tx
<1>2. \A t \in Tokens : row[t].expired => Ever(t)
  BY DEF IInv, Chain
<1>3. \A s, t \in Tokens : row[s].expired /\ row[t].in /\ t < s => row[t].expired
  BY DEF IInv, Chain
<1>. QED
  BY <1>1, <1>2, <1>3, RowsAge, Own DEF SwitchSSO

(* Nothing happens. *)
LEMMA StutterIInv == ASSUME IInv, UNCHANGED vars PROVE IInv'
<1>1. row \in [Tokens -> Row] /\ required \in BOOLEAN /\ \A r \in Requests : tx[r].held \subseteq Tokens
  BY Own DEF IInv, Typed, Tx
<1>2. \A t \in Tokens : row[t].expired => Ever(t)
  BY DEF IInv, Chain
<1>3. \A s, t \in Tokens : row[s].expired /\ row[t].in /\ t < s => row[t].expired
  BY DEF IInv, Chain
<1>. QED
  BY <1>1, <1>2, <1>3, RowsAge, Own DEF vars

(* Tokens expire in the order they were issued in. *)
LEMMA ExpireIInv == ASSUME IInv, NEW t \in Tokens, Expire(t) PROVE IInv'
<1>1. /\ row' \in [Tokens -> Row] /\ row'[t] = [row[t] EXCEPT !.expired = TRUE]
      /\ \A s \in Tokens \ {t} : row'[s] = row[s]
  BY DEF Expire, IInv, Typed, Row
<1>2. row[t] \in Row /\ row[t].in /\ Ever(t) /\ \A r \in Requests : tx[r].held \subseteq Tokens
  BY Own DEF Expire, IInv, Typed, Chain, Tx
<1>3. /\ row'[t].in /\ row'[t].from = row[t].from /\ (row'[t].consumed <=> row[t].consumed)
      /\ (row'[t].revoked <=> row[t].revoked) /\ row'[t].expired
  BY <1>1, <1>2 DEF Row
<1>4. \A s \in Tokens : row[s].expired => Ever(s)
  BY DEF IInv, Chain
<1>5. \A s, u \in Tokens : row[s].expired /\ row[u].in /\ u < s => row[u].expired
  BY DEF IInv, Chain
<1>6. \A s, u \in Tokens : row'[s].expired /\ row'[u].in /\ u < s => row'[u].expired
  BY <1>1, <1>2, <1>3, <1>5 DEF Expire, Stored
<1>7. \A r \in Requests : \A s \in tx[r].held : row'[s].in
  BY <1>1, <1>2, <1>3, Own
<1>8. \A s \in Tokens : /\ row'[s].in <=> row[s].in
                        /\ row'[s].from = row[s].from /\ (row'[s].consumed <=> row[s].consumed)
                        /\ (row'[s].revoked <=> row[s].revoked) /\ (row[s].expired => row'[s].expired)
                        /\ (row'[s].expired => Ever(s))
  BY <1>1, <1>2, <1>3, <1>4
<1>9. tx' = tx /\ faults' = faults /\ proven' = proven /\ required' \in BOOLEAN
  BY DEF Expire, sso, IInv, Typed
<1>. QED
  BY <1>1, <1>6, <1>7, <1>8, <1>9, RowsAge

(* A used row that is still stored keeps its successor, which expires after it. *)
LEMMA DeleteExpiredIInv == ASSUME IInv, DeleteExpired PROVE IInv'
<1>1. \A t \in Tokens : row[t] \in Row
  BY DEF IInv, Typed
<1>2. row' \in [Tokens -> Row]
  BY <1>1 DEF DeleteExpired, Row
<1>3. \A t \in Tokens :
        /\ row'[t].in <=> row[t].in /\ ~row[t].expired
        /\ row'[t].from = row[t].from /\ (row'[t].consumed <=> row[t].consumed)
        /\ (row'[t].revoked <=> row[t].revoked) /\ (row'[t].expired <=> row[t].expired)
  BY <1>1 DEF DeleteExpired, Row
<1>4. \A t \in Tokens : row[t].expired => Ever(t)
  BY DEF IInv, Chain
<1>5. \A s, t \in Tokens : row[s].expired /\ row[t].in /\ t < s => row[t].expired
  BY DEF IInv, Chain
<1>6. \A s, t \in Tokens : row'[t].in /\ row[s].in /\ row[s].from = t => row'[s].in
  <2>1. \A s, t \in Tokens : row[s].from = t => t < s
    BY Requested DEF IInv, Chain
  <2>. QED
    BY <1>3, <1>5, <2>1
<1>7. \A r \in Requests : \A t \in tx[r].held : row'[t].in
  <2>1. \A r \in Requests : tx[r].held \subseteq Tokens
    BY Own DEF Tx
  <2>. QED
    BY <1>3, <2>1, Own DEF DeleteExpired, Stored
<1>8. tx' = tx /\ faults' = faults /\ proven' = proven /\ required' \in BOOLEAN
  BY DEF DeleteExpired, sso, IInv, Typed
<1>. QED
  BY <1>2, <1>3, <1>4, <1>5, <1>6, <1>7, <1>8, RowsAge

(* The chain holds in every reachable state. *)
THEOREM SessionsChain == Spec => []IInv
<1>1. ASSUME IInv, [Next]_vars PROVE IInv'
  <2>1. ASSUME NEW r \in Requests, Step(r) PROVE IInv'
    BY <1>1, <2>1, LookupIInv, RotateIInv, RevokeIInv, UpdateIInv, CommitRotationIInv,
       CommitRevocationIInv DEF Step
  <2>. QED
    BY <1>1, <2>1, FailIInv, AbortIInv, PresentIInv, SwitchSSOIInv, DeleteExpiredIInv, ExpireIInv,
       StutterIInv DEF Next
<1>. QED
  BY <1>1, InitIInv, PTL DEF Spec

(* The types the runs check follow. *)
LEMMA IInvTypes == IInv => TypeOK
<1>. SUFFICES ASSUME IInv PROVE TypeOK
  OBVIOUS
<1>1. /\ \A t \in Tokens : row[t].from # None => row[t].from < t
      /\ row \in [Tokens -> Row]
  BY DEF IInv, Chain, Typed
<1>2. ASSUME NEW r \in Requests
      PROVE  /\ tx[r].kind \in Kinds \cup {None}
             /\ tx[r].pc \in {"new", "lookup", "rotate", "revoke", "update", "commit", "done"}
             /\ tx[r].pc = "done" <=> tx[r].result # None
             /\ tx[r].todo \cup tx[r].held \subseteq Tokens
             /\ \A q \in Requests \ {r} : tx[r].held \cap tx[q].held = {}
  BY Own DEF Tx, Steps, Working, IInv, Locks
<1>3. proven \in BOOLEAN /\ required \in BOOLEAN /\ faults \in 0 .. MaxFaults
  BY DEF IInv, Typed
<1>. QED
  BY <1>1, <1>2, <1>3 DEF TypeOK, Row

(* Sessions are well typed, and none is lost that nobody ended: one that is revoked
   was signed out, refused for want of SSO, or had a token presented again after it
   was exchanged.                                                                  *)
THEOREM SessionsNotLost == Spec => []Inv
<1>1. IInv => NeverEndedUnasked
  BY DEF IInv, AskedFor, Asked, Rotated, NeverEndedUnasked
<1>. QED
  BY <1>1, IInvTypes, SessionsChain, PTL DEF Inv

(* A stored token is consumed just when it has a successor, and has one: a refresh is
   one transaction, whoever presents what at once.                                 *)
THEOREM SessionsExchange == Spec => []ExchangedForOne
<1>1. IInv => ExchangedForOne
  <2>. SUFFICES ASSUME IInv, NEW t \in Stored
                PROVE  Cardinality({s \in Stored : row[s].from = t}) = IF row[t].consumed THEN 1 ELSE 0
    BY DEF ExchangedForOne
  <2>. USE Requested DEF Stored
  <2>1. CASE row[t].consumed
    <3>1. PICK s \in Tokens : row[s].in /\ row[s].from = t
      BY <2>1 DEF IInv, Chain
    <3>2. {u \in Stored : row[u].from = t} = {s}
      BY <3>1 DEF IInv, Chain
    <3>. QED
      BY <2>1, <3>2, FS_Singleton
  <2>2. CASE ~row[t].consumed
    <3>1. {u \in Stored : row[u].from = t} = {}
      <4>1. \A u \in Tokens : row[u].from # None => row[row[u].from].consumed
        BY DEF IInv, Chain
      <4>. QED
        BY <2>2, <4>1
    <3>. QED
      BY <2>2, <3>1, FS_EmptySet
  <2>. QED
    BY <2>1, <2>2
<1>. QED
  BY <1>1, SessionsChain, PTL

(* A family that was revoked, with no rotation committed while the update waited for
   its rows, has no usable token and never has one again.                          *)
THEOREM SessionsEnded == Spec => []EndedStaysEnded
<1>1. IInv => EndedStaysEnded
  BY DEF IInv, ClosingOf, Unrevoked, Stored, EndedStaysEnded, Usable
<1>. QED
  BY <1>1, SessionsChain, PTL
===============================================================================
