------------------------------ MODULE Sessions ------------------------------
(* One session: a family of refresh tokens, each exchanged once for its successor.
   Refreshes and sign-outs are PostgreSQL transactions that run at once, under
   READ COMMITTED: a statement works on the rows committed when it starts, waits for
   the lock of each it writes, and then sees its latest version.

   A client may present any token it was ever given, as it does when an answer was
   lost.  Tokens are numbered as they are issued; a token expires after the one it
   came from.                                                                      *)
EXTENDS Naturals, FiniteSets

CONSTANTS
  Requests,   \* bound: the refreshes and sign-outs there are
  MaxFaults,  \* bound: the requests that fail
  None

(* What a request is, and how it is answered. *)
Kinds == {"refresh", "signout"}
Results == {"refused", "rotated", "ended", "nothing", "failed"}

ASSUME SessionsAssumption ==
  /\ IsFiniteSet(Requests) /\ MaxFaults \in Nat
  /\ None \notin Nat \cup Requests \cup Kinds \cup Results

VARIABLES
  row,      \* refresh_tokens
  tx,       \* each request and its transaction
  proven,   \* whether its sign-in proved its account's domain, or it is the demo's
  required, \* whether that domain requires SSO
  faults    \* the requests that failed so far

vars == <<row, tx, proven, required, faults>>
sso == <<proven, required>>

Tokens == 1 .. Cardinality(Requests) + 1
NoRow == [in |-> FALSE, from |-> None, consumed |-> FALSE, revoked |-> FALSE, expired |-> FALSE]
NewTx == [pc |-> "new", kind |-> None, token |-> None, held |-> {}, todo |-> {}, next |-> None,
          issued |-> None, quiet |-> TRUE, sso |-> FALSE, result |-> None]

Stored == {t \in Tokens : row[t].in}
Usable(t) == row[t].in /\ ~row[t].consumed /\ ~row[t].revoked /\ ~row[t].expired

TypeOK ==
  /\ row \in [Tokens -> [in : BOOLEAN, from : Tokens \cup {None}, consumed : BOOLEAN,
                         revoked : BOOLEAN, expired : BOOLEAN]]
  /\ \A t \in Tokens : row[t].from # None => row[t].from < t
  /\ proven \in BOOLEAN /\ required \in BOOLEAN /\ faults \in 0 .. MaxFaults
  /\ \A r \in Requests :
       /\ tx[r].kind \in Kinds \cup {None}
       /\ tx[r].pc \in {"new", "lookup", "rotate", "revoke", "update", "commit", "done"}
       /\ tx[r].pc = "done" <=> tx[r].result # None
       /\ tx[r].todo \cup tx[r].held \subseteq Tokens
       /\ \A q \in Requests \ {r} : tx[r].held \cap tx[q].held = {}

(* issueSession: a sign-in starts a family. *)
Init ==
  /\ row = [t \in Tokens |-> [NoRow EXCEPT !.in = (t = 1)]]
  /\ tx = [r \in Requests |-> NewTx]
  /\ proven \in BOOLEAN /\ required = FALSE /\ faults = 0
-----------------------------------------------------------------------------
At(r, pc) == tx[r].pc = pc
Goto(r, next) == tx' = [tx EXCEPT ![r] = next]

(* A transaction that ends releases its locks. *)
Ended(r, result) ==
  [tx[r] EXCEPT !.pc = "done", !.result = result, !.held = {}, !.todo = {}, !.next = None]
End(r, result) == Goto(r, Ended(r, result))

Free(r, t) == \A q \in Requests \ {r} : t \notin tx[q].held

Present(r, kind, t) ==
  /\ At(r, "new") /\ row[t].in
  /\ Goto(r, [tx[r] EXCEPT !.kind = kind, !.token = t,
                           !.pc = IF kind = "refresh" THEN "lookup" ELSE "revoke"])
  /\ UNCHANGED <<row, sso, faults>>

(* Mutants of Lookup: a refused refresh leaves its transaction open; an expired token
   counts as a replay.                                                              *)
LookupLeavesOpen(r) ==
  /\ At(r, "lookup") /\ Free(r, tx[r].token)
  /\ LET t == tx[r].token
         got == [tx[r] EXCEPT !.held = @ \cup {t}]
     IN  CASE row[t].in /\ row[t].consumed -> Goto(r, [got EXCEPT !.pc = "revoke"])
           [] ~(row[t].in /\ row[t].consumed) /\ ~Usable(t) ->
                Goto(r, [Ended(r, "refused") EXCEPT !.held = {t}])
           [] Usable(t) -> Goto(r, [got EXCEPT !.pc = "rotate"])
  /\ UNCHANGED <<row, sso, faults>>
LookupExpired(r) ==
  /\ At(r, "lookup") /\ Free(r, tx[r].token)
  /\ LET t == tx[r].token
     IN  Goto(r, [tx[r] EXCEPT !.held = @ \cup {t}, !.pc = IF Usable(t) THEN "rotate" ELSE "revoke"])
  /\ UNCHANGED <<row, sso, faults>>

(* The presented token is locked and read as it then is, however it was used.  One
   already consumed is a replay, one revoked, expired or deleted is refused, and a
   session that did not prove a domain that requires it is refused and revoked.   *)
Lookup(r) ==
  /\ At(r, "lookup") /\ Free(r, tx[r].token)
  /\ LET t == tx[r].token
         got == [tx[r] EXCEPT !.held = @ \cup {t}]
     IN  CASE row[t].in /\ row[t].consumed -> Goto(r, [got EXCEPT !.pc = "revoke"])
           [] ~(row[t].in /\ row[t].consumed) /\ ~Usable(t) -> End(r, "refused")
           [] Usable(t) /\ required /\ ~proven -> Goto(r, [got EXCEPT !.pc = "revoke", !.sso = TRUE])
           [] Usable(t) /\ (required => proven) -> Goto(r, [got EXCEPT !.pc = "rotate"])
  /\ UNCHANGED <<row, sso, faults>>

fresh == 2 + Cardinality({q \in Requests : tx[q].issued # None})

(* Mutant of Rotate: the token is consumed outside the transaction. *)
RotateOutside(r) ==
  /\ At(r, "rotate")
  /\ row' = [row EXCEPT ![tx[r].token].consumed = TRUE]
  /\ Goto(r, [tx[r] EXCEPT !.issued = fresh, !.pc = "commit"])
  /\ UNCHANGED <<sso, faults>>

(* It is consumed, unless it meanwhile was or is revoked, and its successor inserted;
   both show once they commit.                                                      *)
Rotate(r) ==
  /\ At(r, "rotate") /\ Free(r, tx[r].token)
  /\ LET t == tx[r].token
     IN  IF row[t].consumed \/ row[t].revoked THEN End(r, "refused")
         ELSE Goto(r, [tx[r] EXCEPT !.held = @ \cup {t}, !.issued = fresh, !.pc = "commit"])
  /\ UNCHANGED <<row, sso, faults>>

Unrevoked == {t \in Stored : ~row[t].revoked}

(* Mutant of InFamily: the presented token alone. *)
Alone(r) == Unrevoked \cap {tx[r].token}

(* The rows of the presented token's family; a deleted token has none. *)
InFamily(r) == IF row[tx[r].token].in THEN Unrevoked ELSE {}

(* The update that revokes a family takes the rows committed when it starts, and
   locks them in some order.                                                    *)
Revoke(r) ==
  /\ At(r, "revoke")
  /\ IF InFamily(r) = {} THEN Goto(r, [tx[r] EXCEPT !.pc = "commit"])
     ELSE \E t \in InFamily(r) :
            Goto(r, [tx[r] EXCEPT !.pc = "update", !.todo = InFamily(r), !.next = t])
  /\ UNCHANGED <<row, sso, faults>>

(* A row deleted while it waited is passed over. *)
Update(r) ==
  /\ At(r, "update") /\ Free(r, tx[r].next)
  /\ LET left == tx[r].todo \ {tx[r].next}
         got == [tx[r] EXCEPT !.held = @ \cup ({tx[r].next} \cap Stored), !.todo = left]
     IN  IF left = {} THEN Goto(r, [got EXCEPT !.pc = "commit", !.next = None])
         ELSE \E t \in left : Goto(r, [got EXCEPT !.next = t])
  /\ UNCHANGED <<row, sso, faults>>

(* A rotation shows: its token is consumed, its successor is there.  quiet is history:
   a revocation under way did not see that successor.                               *)
CommitRotation(r) ==
  /\ At(r, "commit") /\ tx[r].issued # None
  /\ row' = [row EXCEPT ![tx[r].token].consumed = TRUE,
                        ![tx[r].issued] = [NoRow EXCEPT !.in = TRUE, !.from = tx[r].token]]
  /\ tx' = [q \in Requests |->
              IF q = r THEN Ended(r, "rotated")
              ELSE [tx[q] EXCEPT !.quiet = @ /\ tx[q].pc \notin {"update", "commit"}]]
  /\ UNCHANGED <<sso, faults>>

(* A revocation shows. *)
CommitRevocation(r) ==
  /\ At(r, "commit") /\ tx[r].issued = None
  /\ row' = [t \in Tokens |-> IF t \in tx[r].held THEN [row[t] EXCEPT !.revoked = TRUE] ELSE row[t]]
  /\ End(r, IF tx[r].held = {} THEN "nothing" ELSE "ended")
  /\ UNCHANGED <<sso, faults>>

(* A statement fails or the server dies: the transaction is rolled back. *)
Fail(r) ==
  /\ tx[r].pc \notin {"new", "done"}
  /\ faults < MaxFaults /\ faults' = faults + 1
  /\ End(r, "failed")
  /\ UNCHANGED <<row, sso>>

Wants(r) == IF At(r, "lookup") \/ At(r, "rotate") THEN tx[r].token ELSE tx[r].next
WaitsFor(r, q) == r # q /\ Wants(r) \in tx[q].held

(* PostgreSQL aborts one of the transactions that wait on each other. *)
Deadlocked(r) == \E qs \in SUBSET Requests :
  r \in qs /\ \A q \in qs : (\E p \in qs : WaitsFor(q, p)) /\ (\E p \in qs : WaitsFor(p, q))
Abort(r) ==
  /\ Deadlocked(r)
  /\ End(r, "failed")
  /\ UNCHANGED <<row, sso, faults>>

(* Require SSO is switched on or off. *)
SwitchSSO ==
  /\ required' = ~required
  /\ UNCHANGED <<row, tx, proven, faults>>

Expire(t) ==
  /\ row[t].in /\ ~row[t].expired
  /\ \A s \in Stored : s < t => row[s].expired
  /\ row' = [row EXCEPT ![t].expired = TRUE]
  /\ UNCHANGED <<tx, sso, faults>>

(* The expired-token pass deletes used rows too, once nobody holds them. *)
DeleteExpired ==
  /\ \E t \in Stored : row[t].expired
  /\ \A t \in Stored, r \in Requests : row[t].expired => t \notin tx[r].held
  /\ row' = [t \in Tokens |-> IF row[t].expired THEN [row[t] EXCEPT !.in = FALSE] ELSE row[t]]
  /\ UNCHANGED <<tx, sso, faults>>

Step(r) == Lookup(r) \/ Rotate(r) \/ Revoke(r) \/ Update(r) \/ CommitRotation(r) \/ CommitRevocation(r)

Next ==
  \/ \E r \in Requests : \/ Step(r) \/ Fail(r) \/ Abort(r)
                         \/ \E t \in Tokens, kind \in Kinds : Present(r, kind, t)
  \/ SwitchSSO \/ DeleteExpired \/ \E t \in Tokens : Expire(t)

Spec == Init /\ [][Next]_vars

(* A request that has started runs on, and PostgreSQL breaks deadlocks. *)
FairSpec == Spec /\ \A r \in Requests : WF_vars(Step(r)) /\ WF_vars(Abort(r))
-----------------------------------------------------------------------------
(* "Each refresh consumes the current token and inserts its successor": whoever
   presents what at once, and wherever a request fails, a stored token is consumed
   just when it has a successor, and it has one, so a session has one way on.     *)
ExchangedForOne == \A t \in Stored :
  LET successors == {s \in Stored : row[s].from = t}
  IN  Cardinality(successors) = IF row[t].consumed THEN 1 ELSE 0

(* Once a sign-out, a replay or a refused refresh has revoked the family, nobody goes
   on with it.  A rotation that commits while the update waits is not seen by it, and
   its successor stays usable; without one the family is over.                      *)
EndedStaysEnded ==
  (\E r \in Requests : tx[r].result = "ended" /\ tx[r].quiet) => \A t \in Tokens : ~Usable(t)

(* A client that presents no token again once it was exchanged keeps its session, with
   any requests failing: it ends by a sign-out, by SSO, or by such a replay.           *)
NeverEndedUnasked == (\E t \in Tokens : row[t].revoked) =>
  \E r \in Requests :
    /\ tx[r].result = "ended"
    /\ \/ tx[r].kind = "signout" \/ tx[r].sso
       \/ \E q \in Requests : tx[q].result = "rotated" /\ tx[q].token = tx[r].token

(* Refreshes and sign-outs wait for one another, a replay and a sign-out in a circle:
   every one of them ends.                                                          *)
Answered == \A r \in Requests : tx[r].pc # "new" ~> tx[r].pc = "done"

(* Well typed, and no session is lost that nobody ended: through every interleaving of
   refreshes and sign-outs.                                                          *)
Inv == TypeOK /\ NeverEndedUnasked
==============================================================================
