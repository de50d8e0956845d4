----------------------------- MODULE MeterProofs -----------------------------
(* What the billing meter promises, for any calendar of days, any plans and
   allowances, and any number of subscriptions, renewals and changes of terms.   *)
EXTENDS BillingMeter, FiniteSetTheorems, SequenceTheorems, WellFoundedInduction, TLAPS

(* The instant up to which days have been stated. *)
Now == IF pass = NoPass THEN clock ELSE pass.now

(* A row counts what its plan has tiers for. *)
Typed ==
  /\ TypeOK
  /\ \A p \in DOMAIN ledger : /\ ledger[p].own \in [Tiers(TierUpTo[ledger[p].plan]) -> Nat]
                              /\ ledger[p].carry \in [Tiers(TierUpTo[ledger[p].plan]) -> Nat]

(* The live subscription is the last there was, and has begun. *)
Live ==
  /\ \A s, t \in sub : s = t
  /\ \A s \in sub : s.id = subs /\ s.start \in starts /\ s.start <= clock /\ s.start < s.end
  /\ \A p \in DOMAIN ledger : ledger[p].sub <= subs

(* The pass took its time within the period it listed, whose end can only have moved on. *)
Listed ==
  pass # NoPass =>
    /\ pass.sub.id <= subs /\ pass.sub.start \in starts
    /\ pass.sub.start <= pass.now /\ pass.now < pass.sub.end
    /\ pass.now <= clock /\ clock <= pass.now + 1
    /\ \A t \in sub : t.id = pass.sub.id /\ t.start = pass.sub.start => pass.sub.end <= t.end

(* The days of the period at p end before those of the period at q begin. *)
Before(p, q) == daysFor(ledger[p], ledger[q].sub).end <= ledger[q].start

(* The row of a subscription's period is its own and the last; the days that other
   rows state end before the period does.                                         *)
Fits(s) ==
  /\ s.start \in DOMAIN ledger =>
       /\ ledger[s.start].sub = s.id /\ ledger[s.start].end <= day(s.end)
       /\ \A p \in DOMAIN ledger \ {s.start} : Before(p, s.start)
  /\ \A p \in DOMAIN ledger \ {s.start} :
       IF ledger[p].sub = s.id THEN ledger[p].end <= day(s.start)
       ELSE ledger[p].through <= day(s.end)

(* The windows of the rows are in an order, and state no day ahead. *)
Windows ==
  /\ \A p, q \in DOMAIN ledger : p # q => Before(p, q) \/ Before(q, p)
  /\ \A p \in DOMAIN ledger : ledger[p].through <= day(Now) + 1
  /\ \A s \in sub : Fits(s)
  /\ pass # NoPass => Fits(pass.sub)

(* What a pass sends is in the ledger, and has arrived once it was answered. *)
Sending ==
  /\ pass # NoPass /\ pass.pc # "state" => pass.sub.start \in DOMAIN ledger
  /\ pass # NoPass /\ pass.pc \in {"resent", "stated"} =>
       \A k \in DOMAIN stated(ledger[pass.sub.start]) :
         held[pass.sub.start][k] = stated(ledger[pass.sub.start])[k]

IInv == Typed /\ Live /\ Listed /\ Windows /\ Sending /\ LedgerNeverUnderstates
-----------------------------------------------------------------------------
(* The constants are numbers. *)
LEMMA Numbers ==
  /\ DayLength \in Nat /\ 0 < DayLength
  /\ Horizon \in Nat /\ Cycle \in Nat /\ 0 < Cycle /\ Lag \in Nat /\ Lag + DayLength <= Cycle
  /\ MaxSubs \in Nat /\ 1 <= MaxSubs /\ MaxCount \in Nat /\ Allowances \subseteq Nat
BY DayLengthAssumption, MeterAssumption

(* A day holds the instants from its first on. *)
LEMMA DayIs ==
  ASSUME NEW t \in Nat
  PROVE  day(t) \in Nat /\ day(t) * DayLength <= t /\ t < day(t) * DayLength + DayLength
<1>1. DayLength \in Nat /\ 0 < DayLength
  BY Numbers
<1>2. day(t) \in Int /\ day(t) * DayLength <= t /\ t < day(t) * DayLength + DayLength
  BY <1>1 DEF day
<1>3. day(t) \in Nat
  <2>1. 0 < (day(t) + 1) * DayLength
    BY <1>1, <1>2
  <2>2. SUFFICES ASSUME day(t) + 1 <= 0 PROVE FALSE
    BY <1>2
  <2>3. (day(t) + 1) * DayLength <= 0
    BY <1>1, <1>2, <2>2
  <2>. QED  BY <2>1, <2>3, <1>1, <1>2
<1>. QED  BY <1>2, <1>3

(* A later instant is on no earlier day. *)
LEMMA DayGrows ==
  ASSUME NEW a \in Nat, NEW b \in Nat, a <= b
  PROVE  day(a) <= day(b)
<1>1. DayLength \in Nat /\ 0 < DayLength
  BY Numbers
<1>2. /\ day(a) \in Nat /\ day(a) * DayLength <= a
      /\ day(b) \in Nat /\ b < day(b) * DayLength + DayLength
  BY DayIs
<1>. HIDE DEF day
<1>3. SUFFICES ASSUME day(b) + 1 <= day(a) PROVE FALSE
  BY <1>2
<1>4. (day(b) + 1) * DayLength <= day(a) * DayLength
  BY <1>1, <1>2, <1>3
<1>. QED  BY <1>1, <1>2, <1>4

(* An instant a day's length later is on a later day. *)
LEMMA DayAfter ==
  ASSUME NEW a \in Nat, NEW b \in Nat, a + DayLength <= b
  PROVE  day(a) + 1 <= day(b)
<1>1. DayLength \in Nat /\ 0 < DayLength
  BY Numbers
<1>2. /\ day(a) \in Nat /\ day(a) * DayLength <= a
      /\ day(b) \in Nat /\ b < day(b) * DayLength + DayLength
  BY DayIs
<1>. HIDE DEF day
<1>3. SUFFICES ASSUME day(b) <= day(a) PROVE FALSE
  BY <1>2
<1>4. day(b) * DayLength <= day(a) * DayLength
  BY <1>1, <1>2, <1>3
<1>. QED  BY <1>1, <1>2, <1>4

(* A set of natural numbers has a least one. *)
LEMMA Least ==
  ASSUME NEW T, T \subseteq Nat, T # {}
  PROVE  \E n \in T : \A m \in T : n <= m
<1>1. PICK n \in T : \A m \in T : <<m, n>> \notin OpToRel(<, Nat)
  BY NatLessThanWellFounded, WFMin
<1>2. \A m \in T : ~(m < n)
  BY <1>1 DEF OpToRel
<1>. QED  BY <1>2

(* Max picks the greatest, where there is one. *)
LEMMA MaxOf ==
  ASSUME NEW S \in SUBSET Int, \E m \in S : \A y \in S : m >= y
  PROVE  Max(S) \in S /\ \A y \in S : Max(S) >= y
BY DEF Max

(* A function on a finite set has a greatest value. *)
LEMMA GreatestValue ==
  ASSUME NEW S, IsFiniteSet(S), S # {}, NEW f \in [S -> Nat]
  PROVE  \E x \in S : \A y \in S : f[y] <= f[x]
<1>. DEFINE Bad == {s \in SUBSET S : s # {} /\ ~ \E x \in s : \A y \in s : f[y] <= f[x]}
            Sizes == {Cardinality(s) : s \in Bad}
<1>1. \A s \in SUBSET S : IsFiniteSet(s) /\ Cardinality(s) \in Nat
  BY FS_Subset, FS_CardinalityType
<1>2. Bad = {}
  <2>1. SUFFICES ASSUME Bad # {} PROVE FALSE
    OBVIOUS
  <2>2. Sizes \subseteq Nat /\ Sizes # {}
    BY <1>1, <2>1
  <2>. HIDE DEF Sizes
  <2>3. PICK n \in Sizes : \A m \in Sizes : n <= m
    BY <2>2, Least
  <2>4. PICK s \in Bad : n = Cardinality(s)
    BY <2>3 DEF Sizes
  <2>5. PICK x \in s : TRUE
    BY <2>4
  <2>6. Cardinality(s \ {x}) = n - 1 /\ n \in Nat /\ n - 1 < n
    BY <1>1, <2>2, <2>4, <2>5, FS_RemoveElement
  <2>7. s \ {x} \notin Bad
    <3>1. n - 1 \notin Sizes
      BY <2>2, <2>3, <2>6
    <3>. HIDE DEF Bad
    <3>. QED  BY <2>6, <3>1 DEF Sizes
  <2>8. CASE s \ {x} = {}
    <3>1. s = {x} /\ f[x] \in Nat
      BY <2>4, <2>5, <2>8
    <3>. QED  BY <2>4, <3>1
  <2>9. CASE s \ {x} # {}
    <3>1. PICK m \in s \ {x} : \A y \in s \ {x} : f[y] <= f[m]
      BY <2>4, <2>7, <2>9
    <3>2. f[x] \in Nat /\ f[m] \in Nat /\ \A y \in s : f[y] \in Nat
      BY <2>4, <2>5
    <3>3. CASE f[x] <= f[m]
      <4>1. \A y \in s : f[y] <= f[m]
        BY <3>1, <3>3
      <4>. QED  BY <2>4, <3>1, <4>1
    <3>4. CASE f[m] <= f[x]
      <4>1. \A y \in s : f[y] <= f[x]
        BY <3>1, <3>2, <3>4
      <4>. QED  BY <2>4, <2>5, <4>1
    <3>. QED  BY <3>2, <3>3, <3>4
  <2>. QED  BY <2>8, <2>9
<1>. QED  BY <1>2

(* The element a sum over a set takes next. *)
pick(s) == CHOOSE x \in s : TRUE

(* The recursion that a sum over a set follows, on the sets of a collection. *)
Follows(g, f, C) ==
  g = [s \in C |-> IF s = {} THEN 0 ELSE f[pick(s)] + g[s \ {pick(s)}]]

(* A sum over a set is a value of that recursion. *)
LEMMA SumIs ==
  ASSUME NEW f, NEW S
  PROVE  SumFunctionOnSet(f, S) = (CHOOSE g : Follows(g, f, SUBSET S))[S]
BY DEF SumFunctionOnSet, FoldFunctionOnSet, MapThenFoldSet, Follows, pick

(* Such a function exists on the subsets of a finite set. *)
LEMMA SumExists ==
  ASSUME NEW f, NEW S, IsFiniteSet(S)
  PROVE  \E g : Follows(g, f, SUBSET S)
<1>. DEFINE Upto(n) == {s \in SUBSET S : Cardinality(s) <= n}
            Bad == {n \in Nat : ~ \E g : Follows(g, f, Upto(n))}
<1>1. \A s \in SUBSET S : /\ IsFiniteSet(s) /\ Cardinality(s) \in Nat
                          /\ Cardinality(s) = 0 <=> s = {}
                          /\ s # {} => /\ pick(s) \in s
                                       /\ Cardinality(s \ {pick(s)}) = Cardinality(s) - 1
  <2> SUFFICES ASSUME NEW s \in SUBSET S
      PROVE /\ IsFiniteSet(s) /\ Cardinality(s) \in Nat
            /\ Cardinality(s) = 0 <=> s = {}
            /\ s # {} => /\ pick(s) \in s
                         /\ Cardinality(s \ {pick(s)}) = Cardinality(s) - 1
    OBVIOUS
  <2>1. IsFiniteSet(s) /\ Cardinality(s) \in Nat
    BY FS_Subset, FS_CardinalityType
  <2>2. Cardinality(s) = 0 <=> s = {}
    BY <2>1, FS_EmptySet
  <2>3. s # {} => pick(s) \in s
    BY DEF pick
  <2>4. s # {} => Cardinality(s \ {pick(s)}) = Cardinality(s) - 1
    BY <2>1, <2>3, FS_RemoveElement
  <2>. QED  BY <2>1, <2>2, <2>3, <2>4
<1>2. \E g : Follows(g, f, Upto(0))
  <2>. DEFINE g == [s \in Upto(0) |-> 0]
  <2>1. \A s \in Upto(0) : s = {}
    <3>. SUFFICES ASSUME NEW s \in SUBSET S, Cardinality(s) <= 0 PROVE s = {}
      OBVIOUS
    <3>1. Cardinality(s) \in Nat /\ (Cardinality(s) = 0 <=> s = {})
      BY <1>1
    <3>. QED  BY <3>1
  <2>2. Follows(g, f, Upto(0))
    BY <2>1 DEF Follows
  <2>. QED  BY <2>2
<1>3. ASSUME NEW n \in Nat, NEW g, Follows(g, f, Upto(n))
      PROVE  \E h : Follows(h, f, Upto(n + 1))
  <2>. DEFINE h == [s \in Upto(n + 1) |-> IF s = {} THEN 0 ELSE f[pick(s)] + g[s \ {pick(s)}]]
  <2>1. Upto(n) \subseteq Upto(n + 1)
    <3>. SUFFICES ASSUME NEW s \in SUBSET S, Cardinality(s) <= n
                  PROVE  Cardinality(s) <= n + 1
      OBVIOUS
    <3>1. Cardinality(s) \in Nat
      BY <1>1
    <3>. QED  BY <3>1
  <2>2. \A s \in Upto(n) : g[s] = IF s = {} THEN 0 ELSE f[pick(s)] + g[s \ {pick(s)}]
    BY <1>3 DEF Follows
  <2>3. \A s \in Upto(n) : h[s] = g[s]
    BY <2>1, <2>2
  <2>4. \A s \in Upto(n + 1) : s # {} => s \ {pick(s)} \in Upto(n)
    BY <1>1
  <2>5. \A s \in Upto(n + 1) : h[s] = IF s = {} THEN 0 ELSE f[pick(s)] + h[s \ {pick(s)}]
    BY <2>3, <2>4
  <2>6. h = [s \in Upto(n + 1) |-> IF s = {} THEN 0 ELSE f[pick(s)] + h[s \ {pick(s)}]]
    <3>1. h = [s \in Upto(n + 1) |-> h[s]]
      OBVIOUS
    <3>. HIDE DEF h, Upto
    <3>. QED  BY <2>5, <3>1
  <2>. QED  BY <2>6 DEF Follows
<1>4. Bad = {}
  <2>1. SUFFICES ASSUME Bad # {} PROVE FALSE
    OBVIOUS
  <2>2. Bad \subseteq Nat
    OBVIOUS
  <2>. HIDE DEF Bad
  <2>3. PICK n \in Bad : \A m \in Bad : n <= m
    BY <2>1, <2>2, Least
  <2>. USE DEF Bad
  <2>. HIDE DEF Upto
  <2>4. n # 0
    BY <1>2
  <2>5. n - 1 \in Nat /\ n - 1 \notin Bad
    BY <2>3, <2>4
  <2>6. \E g : Follows(g, f, Upto(n - 1))
    BY <2>5
  <2>7. \E h : Follows(h, f, Upto((n - 1) + 1))
    BY <1>3, <2>5, <2>6
  <2>8. (n - 1) + 1 = n
    BY <2>2
  <2>. QED  BY <2>3, <2>7, <2>8
<1>5. Cardinality(S) \in Nat /\ Upto(Cardinality(S)) = SUBSET S
  <2>1. \A s \in SUBSET S : Cardinality(s) <= Cardinality(S)
    BY FS_Subset
  <2>. QED  BY <2>1, FS_CardinalityType
<1>. HIDE DEF Upto
<1>6. \E g : Follows(g, f, Upto(Cardinality(S)))
  BY <1>4, <1>5
<1>. QED  BY <1>5, <1>6

(* A sum of natural numbers over a finite set is a natural number. *)
LEMMA SumType ==
  ASSUME NEW f, NEW S, IsFiniteSet(S), \A x \in S : f[x] \in Nat
  PROVE  SumFunctionOnSet(f, S) \in Nat
<1>. DEFINE g == CHOOSE h : Follows(h, f, SUBSET S)
            Bad == {s \in SUBSET S : g[s] \notin Nat}
            Sizes == {Cardinality(s) : s \in Bad}
<1>1. Follows(g, f, SUBSET S)
  BY SumExists
<1>. HIDE DEF g
<1>2. \A s \in SUBSET S : g[s] = IF s = {} THEN 0 ELSE f[pick(s)] + g[s \ {pick(s)}]
  BY <1>1 DEF Follows
<1>3. Bad = {}
  <2>1. SUFFICES ASSUME Bad # {} PROVE FALSE
    OBVIOUS
  <2>2. \A s \in SUBSET S : IsFiniteSet(s) /\ Cardinality(s) \in Nat
    BY FS_Subset, FS_CardinalityType
  <2>3. Sizes \subseteq Nat /\ Sizes # {}
    BY <2>1, <2>2
  <2>. HIDE DEF Sizes
  <2>4. PICK n \in Sizes : \A m \in Sizes : n <= m
    BY <2>3, Least
  <2>5. PICK s \in Bad : n = Cardinality(s)
    BY <2>4 DEF Sizes
  <2>6. s \in SUBSET S /\ g[s] \notin Nat /\ s # {}
    BY <1>2
  <2>7. pick(s) \in s /\ pick(s) \in S
    BY <2>6 DEF pick
  <2>8. Cardinality(s \ {pick(s)}) = Cardinality(s) - 1 /\ Cardinality(s) \in Nat
    BY <2>2, <2>6, <2>7, FS_RemoveElement
  <2>9. s \ {pick(s)} \notin Bad
    BY <2>3, <2>4, <2>5, <2>8 DEF Sizes
  <2>10. g[s \ {pick(s)}] \in Nat /\ f[pick(s)] \in Nat
    BY <2>6, <2>7, <2>9
  <2>11. g[s] = f[pick(s)] + g[s \ {pick(s)}]
    BY <1>2, <2>6
  <2>. QED  BY <2>6, <2>10, <2>11
<1>4. SumFunctionOnSet(f, S) = g[S]
  BY SumIs DEF g
<1>. QED  BY <1>3, <1>4
-----------------------------------------------------------------------------
(* The kinds of the values a statement is made of. *)
LEMMA SumNat ==
  ASSUME TypeOK, NEW a, NEW b
  PROVE  sum(cells, a, b) \in Nat
<1>1. /\ DOMAIN cells = 0 .. day(Horizon)
      /\ \A d \in DOMAIN cells : cells[d] \in Nat
  BY Numbers DEF TypeOK, Days
<1>2. IsFiniteSet(DOMAIN cells)
  BY <1>1, Numbers, DayIs, FS_Interval
<1>. DEFINE S == {d \in DOMAIN cells : a <= d /\ d < b}
<1>3. S \in SUBSET DOMAIN cells /\ IsFiniteSet(S)
  BY <1>2, FS_Subset
<1>. HIDE DEF S
<1>4. SumFunctionOnSet(cells, S) \in Nat
  BY <1>1, <1>3, SumType
<1>. QED  BY <1>4 DEF sum, S

(* A count for each tier of a plan is a sequence. *)
LEMMA TierSeq ==
  ASSUME NEW u \in Seq(Nat), NEW f \in [Tiers(u) -> Nat]
  PROVE  f \in Seq(Nat)
<1>1. Len(u) + 1 \in Nat
  BY LenProperties
<1>. QED  BY <1>1, SeqDef DEF Tiers

LEMMA TierBounds ==
  ASSUME NEW p \in Plans
  PROVE  TierUpTo[p] \in Seq(Nat) /\ Len(TierUpTo[p]) \in Nat
<1>1. TierUpTo[p] \in Seq(Nat)
  BY MeterAssumption
<1>. QED  BY <1>1, LenProperties

LEMMA SplitType ==
  ASSUME NEW total \in Nat, NEW free \in Nat, NEW u \in Seq(Nat)
  PROVE  Split(total, free, u) \in [Tiers(u) -> Nat]
<1>1. Len(u) \in Nat /\ \A k \in 1 .. Len(u) : u[k] \in Nat
  BY LenProperties, ElementOfSeq
<1>2. SUFFICES ASSUME NEW k \in Tiers(u)
               PROVE  LET from  == Larger(IF k = 1 THEN 0 ELSE u[k - 1], free)
                          until == IF k <= Len(u) THEN Smaller(total, u[k]) ELSE total
                      IN  Larger(0, until - from) \in Nat
  BY DEF Split
<1>. DEFINE from  == Larger(IF k = 1 THEN 0 ELSE u[k - 1], free)
            until == IF k <= Len(u) THEN Smaller(total, u[k]) ELSE total
<1>3. k \in 1 .. Len(u) + 1
  BY DEF Tiers
<1>4. from \in Nat
  BY <1>1, <1>3 DEF Larger
<1>5. until \in Nat
  BY <1>1, <1>3 DEF Smaller
<1>. HIDE DEF from, until
<1>6. Larger(0, until - from) \in Nat
  BY <1>4, <1>5 DEF Larger
<1>. QED  BY <1>6 DEF from, until

(* No plan has more tiers than the meters are numbered for. *)
LEMMA TiersFit ==
  /\ MaxTiers \in Nat
  /\ \A p \in Plans : Tiers(TierUpTo[p]) \subseteq 1 .. MaxTiers
<1>. DEFINE f == [p \in Plans |-> Len(TierUpTo[p])]
            L == {Len(TierUpTo[p]) : p \in Plans}
<1>1. f \in [Plans -> Nat]
  BY TierBounds
<1>2. Plans # {} /\ IsFiniteSet(Plans)
  BY MeterAssumption
<1>. HIDE DEF f
<1>3. PICK x \in Plans : \A y \in Plans : f[y] <= f[x]
  BY <1>1, <1>2, GreatestValue
<1>4. L \in SUBSET Nat
  BY TierBounds
<1>5. f[x] \in L /\ \A y \in L : f[x] >= y
  BY <1>1, <1>3 DEF f
<1>. HIDE DEF L
<1>6. Max(L) \in Nat /\ \A y \in L : y <= Max(L)
  <2>1. L \in SUBSET Int
    BY <1>4
  <2>2. \E m \in L : \A y \in L : m >= y
    BY <1>5
  <2>3. Max(L) \in L /\ \A y \in L : Max(L) >= y
    BY <2>1, <2>2, MaxOf
  <2>. QED  BY <1>4, <2>3
<1>7. MaxTiers = 1 + Max(L)
  BY DEF MaxTiers, L
<1>8. ASSUME NEW p \in Plans, NEW k \in Tiers(TierUpTo[p])
      PROVE  k \in 1 .. MaxTiers
  <2>1. Len(TierUpTo[p]) <= Max(L) /\ Len(TierUpTo[p]) \in Nat
    BY <1>6, TierBounds DEF L
  <2>. QED  BY <1>6, <1>7, <2>1 DEF Tiers
<1>. QED  BY <1>6, <1>7, <1>8

(* The rows of the ledger. *)
LEMMA Rows ==
  ASSUME IInv, NEW p \in DOMAIN ledger
  PROVE  /\ p \in Nat /\ p \in Instants
         /\ ledger[p].start \in Nat /\ ledger[p].end \in Nat /\ ledger[p].through \in Nat
         /\ ledger[p].start <= ledger[p].through /\ ledger[p].through <= ledger[p].end
         /\ ledger[p].plan \in Plans /\ ledger[p].allowance \in Nat
         /\ ledger[p].sub \in Nat
         /\ ledger[p].acked \in BOOLEAN
         /\ ledger[p].own \in [Tiers(TierUpTo[ledger[p].plan]) -> Nat]
         /\ ledger[p].carry \in [Tiers(TierUpTo[ledger[p].plan]) -> Nat]
<1>1. TypeOK /\ Typed
  BY DEF IInv, Typed
<1>2. p \in Instants /\ ledger[p] \in Row
  BY <1>1 DEF TypeOK
<1>3. ledger[p].start <= ledger[p].through /\ ledger[p].through <= ledger[p].end
  BY <1>1 DEF TypeOK
<1>4. p \in Nat
  BY <1>2, Numbers DEF Instants
<1>5. /\ ledger[p].start \in Nat /\ ledger[p].end \in Nat /\ ledger[p].through \in Nat
      /\ ledger[p].plan \in Plans /\ ledger[p].allowance \in Allowances
      /\ ledger[p].sub \in 1 .. MaxSubs /\ ledger[p].acked \in BOOLEAN
  BY <1>2 DEF Row
<1>6. /\ ledger[p].own \in [Tiers(TierUpTo[ledger[p].plan]) -> Nat]
      /\ ledger[p].carry \in [Tiers(TierUpTo[ledger[p].plan]) -> Nat]
  BY <1>1 DEF Typed
<1>7. ledger[p].allowance \in Nat
  BY <1>5, Numbers
<1>8. ledger[p].sub \in Nat
  BY <1>5, Numbers
<1>. QED  BY <1>2, <1>3, <1>4, <1>5, <1>6, <1>7, <1>8

(* A row says in each tier what it counts of its own and what it carries. *)
LEMMA StatedIs ==
  ASSUME NEW row, NEW T, row.own \in [T -> Nat], row.carry \in [T -> Nat]
  PROVE  /\ DOMAIN stated(row) = T
         /\ \A k \in T : /\ stated(row)[k] = row.own[k] + row.carry[k]
                         /\ stated(row)[k] \in Nat
BY DEF stated, sumEach

(* The days of a row that other periods follow. *)
LEMMA DaysFor ==
  ASSUME IInv, NEW p \in DOMAIN ledger, NEW id
  PROVE  /\ daysFor(ledger[p], id).start = ledger[p].start
         /\ daysFor(ledger[p], id).end \in Nat
         /\ daysFor(ledger[p], id).end = IF ledger[p].sub = id THEN ledger[p].end
                                         ELSE ledger[p].through
BY Rows DEF daysFor

(* At most one period is the one before. *)
LEMMA OnePrevious ==
  ASSUME IInv, NEW start, NEW id,
         NEW p \in previous(start, id), NEW q \in previous(start, id)
  PROVE  p = q
<1>1. p \in DOMAIN ledger /\ q \in DOMAIN ledger
  BY DEF previous
<1>2. p \in Nat /\ q \in Nat
  BY <1>1, Rows
<1>3. daysFor(ledger[p], id).end \in Nat /\ daysFor(ledger[q], id).end \in Nat
  BY <1>1, DaysFor
<1>4. /\ \/ daysFor(ledger[q], id).end < daysFor(ledger[p], id).end
         \/ daysFor(ledger[q], id).end = daysFor(ledger[p], id).end /\ q <= p
      /\ \/ daysFor(ledger[p], id).end < daysFor(ledger[q], id).end
         \/ daysFor(ledger[p], id).end = daysFor(ledger[q], id).end /\ p <= q
  BY <1>1 DEF previous
<1>. QED  BY <1>2, <1>3, <1>4

(* There is one before, where there is any other, and its days end last. *)
LEMMA LastPrevious ==
  ASSUME IInv, NEW start, NEW id, NEW q \in DOMAIN ledger \ {start}
  PROVE  \E p \in previous(start, id) :
           daysFor(ledger[q], id).end <= daysFor(ledger[p], id).end
<1>. DEFINE others == DOMAIN ledger \ {start}
            f == [p \in others |-> daysFor(ledger[p], id).end]
<1>1. others \subseteq 0 .. Horizon /\ IsFiniteSet(others) /\ others # {}
  <2>1. others \subseteq 0 .. Horizon
    BY Rows DEF Instants
  <2>2. IsFiniteSet(0 .. Horizon)
    BY Numbers, FS_Interval
  <2>. QED  BY <2>1, <2>2, FS_Subset
<1>2. f \in [others -> Nat]
  BY DaysFor
<1>. HIDE DEF f
<1>3. PICK x \in others : \A y \in others : f[y] <= f[x]
  BY <1>1, <1>2, GreatestValue
<1>. DEFINE K == {p \in others : f[p] = f[x]}
<1>4. K \subseteq 0 .. Horizon /\ K # {}
  BY <1>1
<1>. HIDE DEF K
<1>5. PICK p \in K : \A m \in K : m <= p
  <2>1. IsFiniteSet(K) /\ K \subseteq Nat
    <3>1. 0 .. Horizon \subseteq Nat /\ IsFiniteSet(0 .. Horizon)
      BY Numbers, FS_Interval
    <3>. QED  BY <1>4, <3>1, FS_Subset
  <2>. DEFINE own == [k \in K |-> k]
  <2>2. own \in [K -> Nat]
    BY <2>1
  <2>3. PICK p \in K : \A m \in K : own[m] <= own[p]
    BY <1>4, <2>1, <2>2, GreatestValue
  <2>. QED  BY <2>3
<1>6. p \in others /\ f[p] = f[x]
  BY DEF K
<1>7. \A y \in others : f[y] < f[p] \/ (f[y] = f[p] /\ y <= p)
  <2>. SUFFICES ASSUME NEW y \in others PROVE f[y] < f[p] \/ (f[y] = f[p] /\ y <= p)
    OBVIOUS
  <2>1. f[y] \in Nat /\ f[p] \in Nat /\ f[y] <= f[p]
    BY <1>2, <1>3, <1>6
  <2>2. f[y] = f[p] => y <= p
    BY <1>5, <1>6 DEF K
  <2>. QED  BY <2>1, <2>2
<1>8. p \in previous(start, id)
  BY <1>6, <1>7 DEF previous, f
<1>9. f[q] <= f[p]
  BY <1>3, <1>6
<1>. QED  BY <1>6, <1>8, <1>9 DEF f
-----------------------------------------------------------------------------
(* The statement a pass computes. *)
LEMMA PassIs ==
  ASSUME IInv, pass # NoPass
  PROVE  /\ pass \in [pc : {"resend", "resent", "state", "ingest", "stated"},
                      sub : Sub, now : Instants]
         /\ pass.sub \in Sub /\ pass.sub.id \in 1 .. MaxSubs /\ pass.sub.id \in Nat
         /\ pass.sub.start \in Instants /\ pass.sub.start \in Nat /\ pass.sub.end \in Nat
         /\ pass.now \in Nat /\ pass.now \in Instants
         /\ pass.sub.start <= pass.now /\ pass.now < pass.sub.end
         /\ day(pass.sub.start) \in Nat /\ day(pass.sub.end) \in Nat /\ day(pass.now) \in Nat
         /\ day(pass.sub.start) <= day(pass.now)
         /\ day(pass.sub.start) <= day(pass.sub.end)
<1>1. pass \in [pc : {"resend", "resent", "state", "ingest", "stated"},
                sub : Sub, now : Instants]
  BY DEF IInv, Typed, TypeOK
<1>2. pass.sub \in Sub /\ pass.now \in Instants
  BY <1>1
<1>3. pass.sub.id \in 1 .. MaxSubs /\ pass.sub.start \in Instants /\ pass.sub.end \in Nat
  BY <1>2 DEF Sub
<1>4. pass.sub.id \in Nat /\ pass.sub.start \in Nat /\ pass.now \in Nat
  BY <1>2, <1>3, Numbers DEF Instants
<1>5. pass.sub.start <= pass.now /\ pass.now < pass.sub.end
  BY DEF IInv, Listed
<1>6. day(pass.sub.start) \in Nat /\ day(pass.sub.end) \in Nat /\ day(pass.now) \in Nat
  BY <1>3, <1>4, DayIs
<1>7. day(pass.sub.start) <= day(pass.now)
  BY <1>4, <1>5, DayGrows
<1>8. day(pass.sub.start) <= day(pass.sub.end)
  <2>1. pass.sub.start <= pass.sub.end
    BY <1>3, <1>4, <1>5
  <2>. QED  BY <1>3, <1>4, <2>1, DayGrows
<1>. QED  BY <1>1, <1>2, <1>3, <1>4, <1>5, <1>6, <1>7, <1>8

(* The row of the listed period, where there is one. *)
LEMMA KnownRow ==
  ASSUME IInv, pass # NoPass, pass.sub.start \in DOMAIN ledger
  PROVE  /\ ledger[pass.sub.start].sub = pass.sub.id
         /\ ledger[pass.sub.start].end <= day(pass.sub.end)
         /\ ledger[pass.sub.start].start <= day(pass.sub.end)
         /\ ledger[pass.sub.start].through <= day(pass.now) + 1
         /\ ledger[pass.sub.start].start <= day(pass.now) + 1
         /\ \A p \in DOMAIN ledger \ {pass.sub.start} : Before(p, pass.sub.start)
<1>1. Fits(pass.sub)
  BY DEF IInv, Windows
<1>2. /\ ledger[pass.sub.start].sub = pass.sub.id
      /\ ledger[pass.sub.start].end <= day(pass.sub.end)
      /\ \A p \in DOMAIN ledger \ {pass.sub.start} : Before(p, pass.sub.start)
  BY <1>1 DEF Fits
<1>3. ledger[pass.sub.start].through <= day(pass.now) + 1
  BY DEF IInv, Windows, Now
<1>4. /\ ledger[pass.sub.start].start \in Nat /\ ledger[pass.sub.start].end \in Nat
      /\ ledger[pass.sub.start].through \in Nat
      /\ ledger[pass.sub.start].start <= ledger[pass.sub.start].through
      /\ ledger[pass.sub.start].through <= ledger[pass.sub.start].end
  BY Rows
<1>. QED  BY <1>2, <1>3, <1>4, PassIs

(* The days other rows state end within the listed period's, and no later than now. *)
LEMMA OtherRow ==
  ASSUME IInv, pass # NoPass, NEW p \in DOMAIN ledger \ {pass.sub.start}
  PROVE  /\ daysFor(ledger[p], pass.sub.id).end \in Nat
         /\ daysFor(ledger[p], pass.sub.id).end <= day(pass.sub.end)
         /\ daysFor(ledger[p], pass.sub.id).end <= day(pass.now) + 1
<1>1. Fits(pass.sub) /\ ledger[p].through <= day(pass.now) + 1
  BY DEF IInv, Windows, Now
<1>2. IF ledger[p].sub = pass.sub.id THEN ledger[p].end <= day(pass.sub.start)
      ELSE ledger[p].through <= day(pass.sub.end)
  BY <1>1 DEF Fits
<1>3. /\ daysFor(ledger[p], pass.sub.id).end \in Nat
      /\ daysFor(ledger[p], pass.sub.id).end = IF ledger[p].sub = pass.sub.id THEN ledger[p].end
                                               ELSE ledger[p].through
  BY DaysFor
<1>4. ledger[p].end \in Nat /\ ledger[p].through \in Nat
  BY Rows
<1>. QED  BY <1>1, <1>2, <1>3, <1>4, PassIs

(* A window keeps the start it was first given; a new one begins after all the days
   that were stated before.                                                        *)
LEMMA Window ==
  ASSUME IInv, pass # NoPass
  PROVE  /\ windowOf(pass.sub).end = day(pass.sub.end)
         /\ windowOf(pass.sub).start \in Nat
         /\ windowOf(pass.sub).start <= day(pass.sub.end)
         /\ windowOf(pass.sub).start <= day(pass.now) + 1
         /\ pass.sub.start \in DOMAIN ledger =>
              windowOf(pass.sub).start = ledger[pass.sub.start].start
         /\ pass.sub.start \notin DOMAIN ledger =>
              \A q \in DOMAIN ledger :
                daysFor(ledger[q], pass.sub.id).end <= windowOf(pass.sub).start
<1>. DEFINE s == pass.sub
            P == {daysFor(ledger[p], s.id).end : p \in previous(s.start, s.id)}
            F == {ledger[p].start : p \in DOMAIN ledger \cap {s.start}}
            M == {day(s.start)} \cup P
            W == windowOf(s)
<1>1. W.end = day(s.end)
  BY DEF windowOf, windowFor
<1>2. W.start = Smaller(IF F # {} THEN Max(F) ELSE Max(M), day(s.end))
  BY DEF windowOf, windowFor
<1>3. /\ day(s.start) \in Nat /\ day(s.end) \in Nat /\ day(pass.now) \in Nat
      /\ day(s.start) <= day(pass.now) /\ day(s.start) <= day(s.end)
  BY PassIs
<1>4. CASE s.start \in DOMAIN ledger
  <2>1. F = {ledger[s.start].start} /\ ledger[s.start].start \in Nat
    BY <1>4, Rows
  <2>2. F \in SUBSET Int /\ \E m \in F : \A y \in F : m >= y
    BY <2>1
  <2>3. Max(F) \in F
    <3>. HIDE DEF F
    <3>. QED  BY <2>2, MaxOf
  <2>4. Max(F) = ledger[s.start].start /\ F # {}
    BY <2>1, <2>3
  <2>5. /\ ledger[s.start].start <= day(s.end)
        /\ ledger[s.start].start <= day(pass.now) + 1
    BY <1>4, KnownRow
  <2>6. W.start = ledger[s.start].start
    BY <1>2, <1>3, <2>1, <2>4, <2>5 DEF Smaller
  <2>. QED  BY <1>1, <1>4, <2>1, <2>5, <2>6
<1>5. CASE s.start \notin DOMAIN ledger
  <2>1. F = {}
    BY <1>5
  <2>2. \A y \in M : y \in Nat /\ y <= day(s.end) /\ y <= day(pass.now) + 1
    <3>1. ASSUME NEW p \in previous(s.start, s.id)
          PROVE  /\ daysFor(ledger[p], s.id).end \in Nat
                 /\ daysFor(ledger[p], s.id).end <= day(s.end)
                 /\ daysFor(ledger[p], s.id).end <= day(pass.now) + 1
      <4>1. p \in DOMAIN ledger \ {s.start}
        BY DEF previous
      <4>. QED  BY <4>1, OtherRow
    <3>. QED  BY <1>3, <3>1
  <2>3. \E m \in M : \A y \in M : m >= y
    <3>1. CASE previous(s.start, s.id) = {}
      BY <1>3, <3>1
    <3>2. CASE previous(s.start, s.id) # {}
      <4>1. PICK p \in previous(s.start, s.id) : TRUE
        BY <3>2
      <4>2. \A q \in previous(s.start, s.id) : q = p
        BY <4>1, OnePrevious
      <4>. DEFINE e == daysFor(ledger[p], s.id).end
      <4>3. e \in M /\ \A y \in M : y = day(s.start) \/ y = e
        BY <4>1, <4>2
      <4>4. e \in Nat
        BY <2>2, <4>3
      <4>5. CASE e <= day(s.start)
        BY <1>3, <4>3, <4>4, <4>5
      <4>6. CASE day(s.start) <= e
        BY <1>3, <4>3, <4>4, <4>6
      <4>. QED  BY <1>3, <4>4, <4>5, <4>6
    <3>. QED  BY <3>1, <3>2
  <2>4. Max(M) \in M /\ \A y \in M : Max(M) >= y
    <3>1. M \in SUBSET Int
      BY <2>2
    <3>. HIDE DEF M
    <3>. QED  BY <2>3, <3>1, MaxOf
  <2>5. W.start = Max(M) /\ Max(M) \in Nat /\ Max(M) <= day(s.end) /\ Max(M) <= day(pass.now) + 1
    <3>1. Max(M) \in Nat /\ Max(M) <= day(s.end) /\ Max(M) <= day(pass.now) + 1
      BY <2>2, <2>4
    <3>. HIDE DEF M
    <3>. QED  BY <1>2, <1>3, <2>1, <3>1 DEF Smaller
  <2>6. ASSUME NEW q \in DOMAIN ledger
        PROVE  daysFor(ledger[q], s.id).end <= Max(M)
    <3>1. q \in DOMAIN ledger \ {s.start}
      BY <1>5
    <3>2. PICK p \in previous(s.start, s.id) :
            daysFor(ledger[q], s.id).end <= daysFor(ledger[p], s.id).end
      BY <3>1, LastPrevious
    <3>3. daysFor(ledger[p], s.id).end \in M
      OBVIOUS
    <3>4. daysFor(ledger[q], s.id).end \in Nat
      BY DaysFor
    <3>5. daysFor(ledger[p], s.id).end \in Nat /\ daysFor(ledger[p], s.id).end <= Max(M)
      BY <2>2, <2>4, <3>3
    <3>. HIDE DEF M
    <3>. QED  BY <2>5, <3>2, <3>4, <3>5
  <2>. HIDE DEF M
  <2>. QED  BY <1>1, <1>5, <2>5, <2>6
<1>. HIDE DEF W, M, F, P
<1>. QED  BY <1>4, <1>5 DEF W

(* What a period carries is a count for each tier of its plan. *)
LEMMA CarryType ==
  ASSUME IInv, pass # NoPass, NEW plan \in Plans, NEW win
  PROVE  carryInto(pass.sub, plan, win) \in [Tiers(TierUpTo[plan]) -> Nat]
<1>. DEFINE s == pass.sub
            meets == {p \in previous(s.start, s.id) : /\ daysFor(ledger[p], s.id).end = win.start
                                                      /\ ledger[p].plan = plan}
<1>1. CASE meets = {}
  BY <1>1 DEF carryInto, None
<1>2. CASE meets # {}
  <2>1. PICK p \in meets : TRUE
    BY <1>2
  <2>2. p \in previous(s.start, s.id) /\ ledger[p].plan = plan /\ p \in DOMAIN ledger
    BY <2>1 DEF previous
  <2>3. meets = {p}
    BY <2>1, OnePrevious
  <2>4. /\ p \in Nat /\ ledger[p].allowance \in Nat
        /\ ledger[p].own \in [Tiers(TierUpTo[plan]) -> Nat]
    BY <2>2, Rows
  <2>5. Max(meets) = p
    <3>1. meets \in SUBSET Int /\ \E m \in meets : \A y \in meets : m >= y
      BY <2>3, <2>4
    <3>2. Max(meets) \in meets
      <4>. HIDE DEF meets
      <4>. QED  BY <3>1, MaxOf
    <3>. QED  BY <2>3, <3>2
  <2>. DEFINE days == daysFor(ledger[p], s.id)
              split == Split(sum(cells, days.start, days.end), ledger[p].allowance, TierUpTo[plan])
  <2>6. carryInto(s, plan, win) = carry(split, ledger[p].own)
    <3>1. carryInto(s, plan, win) =
            LET prev == ledger[Max(meets)]
                d == daysFor(prev, s.id)
            IN  carry(Split(sum(cells, d.start, d.end), prev.allowance, TierUpTo[plan]), prev.own)
      BY <1>2 DEF carryInto
    <3>. HIDE DEF meets
    <3>. QED  BY <2>5, <3>1
  <2>7. split \in [Tiers(TierUpTo[plan]) -> Nat]
    <3>1. sum(cells, days.start, days.end) \in Nat
      BY SumNat DEF IInv, Typed
    <3>2. TierUpTo[plan] \in Seq(Nat)
      BY TierBounds
    <3>. QED  BY <2>4, <3>1, <3>2, SplitType
  <2>. HIDE DEF split
  <2>8. carry(split, ledger[p].own) \in [Tiers(TierUpTo[plan]) -> Nat]
    BY <2>4, <2>7 DEF carry, Larger
  <2>. QED  BY <2>6, <2>8
<1>. QED  BY <1>1, <1>2

(* The statement a pass computes under a plan the row has, if there is a row. *)
LEMMA StatementIs ==
  ASSUME IInv, pass # NoPass, NEW plan \in Plans, NEW row,
         row = Statement(pass.sub, plan, pass.now),
         pass.sub.start \in DOMAIN ledger => ledger[pass.sub.start].plan = plan
  PROVE  /\ row \in Row
         /\ row.start = windowOf(pass.sub).start /\ row.end = day(pass.sub.end)
         /\ row.start <= row.through /\ row.through <= row.end
         /\ row.through <= day(pass.now) + 1
         /\ row.through = row.end \/ row.through >= day(pass.now) + 1
         /\ row.plan = plan /\ row.sub = pass.sub.id /\ row.acked = FALSE
         /\ row.own \in [Tiers(TierUpTo[plan]) -> Nat]
         /\ row.carry \in [Tiers(TierUpTo[plan]) -> Nat]
         /\ pass.sub.start \in DOMAIN ledger =>
              \A k \in Tiers(TierUpTo[plan]) :
                /\ row.own[k] >= ledger[pass.sub.start].own[k]
                /\ row.carry[k] >= ledger[pass.sub.start].carry[k]
<1>. DEFINE s == pass.sub
            T == Tiers(TierUpTo[plan])
            win == windowOf(s)
            first == s.start \notin DOMAIN ledger
            own == Split(sum(cells, win.start, throughDay(win, pass.now)), allowance, TierUpTo[plan])
            carried == carryInto(s, plan, win)
            thr == throughDay(win, pass.now)
            fullOwn == IF first THEN own ELSE maxEach(ledger[s.start].own, own)
            fullCarry == IF first THEN carried ELSE maxEach(ledger[s.start].carry, carried)
<1>1. row = [start |-> win.start, end |-> win.end, through |-> thr,
             plan |-> plan, allowance |-> allowance, own |-> fullOwn, carry |-> fullCarry,
             sub |-> s.id, acked |-> FALSE]
  BY DEF Statement
<1>2. /\ win.end = day(s.end) /\ win.start \in Nat /\ win.start <= day(s.end)
      /\ win.start <= day(pass.now) + 1
  BY Window
<1>3. s.id \in 1 .. MaxSubs /\ day(s.end) \in Nat /\ day(pass.now) \in Nat
  BY PassIs
<1>4. allowance \in Allowances /\ allowance \in Nat
  BY Numbers DEF IInv, Typed, TypeOK
<1>5. own \in [T -> Nat]
  <2>1. sum(cells, win.start, thr) \in Nat
    BY SumNat DEF IInv, Typed
  <2>2. TierUpTo[plan] \in Seq(Nat)
    BY TierBounds
  <2>. HIDE DEF win
  <2>. QED  BY <1>4, <2>1, <2>2, SplitType
<1>6. carried \in [T -> Nat]
  BY CarryType
<1>7. ~first => ledger[s.start].own \in [T -> Nat] /\ ledger[s.start].carry \in [T -> Nat]
  BY Rows
<1>8. /\ thr \in Nat /\ win.start <= thr /\ thr <= day(s.end) /\ thr <= day(pass.now) + 1
      /\ thr = day(s.end) \/ thr >= day(pass.now) + 1
  <2>. HIDE DEF win
  <2>. QED  BY <1>2, <1>3 DEF throughDay, Larger, Smaller
<1>. HIDE DEF own, carried, thr, win
<1>9. /\ fullOwn \in [T -> Nat]
      /\ ~first => \A k \in T : fullOwn[k] >= ledger[s.start].own[k]
  BY <1>5, <1>7 DEF maxEach, Larger
<1>10. /\ fullCarry \in [T -> Nat]
       /\ ~first => \A k \in T : fullCarry[k] >= ledger[s.start].carry[k]
  BY <1>6, <1>7 DEF maxEach, Larger
<1>. HIDE DEF fullOwn, fullCarry
<1>11. fullOwn \in Seq(Nat) /\ fullCarry \in Seq(Nat)
  <2>1. TierUpTo[plan] \in Seq(Nat)
    BY TierBounds
  <2>. QED  BY <1>9, <1>10, <2>1, TierSeq
<1>12. row \in Row
  BY <1>1, <1>2, <1>3, <1>4, <1>8, <1>11 DEF Row
<1>13. /\ row.start = win.start /\ row.end = day(s.end) /\ row.through = thr
       /\ row.plan = plan /\ row.sub = s.id /\ row.acked = FALSE
       /\ row.own = fullOwn /\ row.carry = fullCarry
  BY <1>1, <1>2
<1>. QED  BY <1>8, <1>9, <1>10, <1>12, <1>13 DEF win

(* What the row of the listed period may become when a pass states it. *)
Restated(new) ==
  /\ new \in Row
  /\ new.start <= new.through /\ new.through <= new.end
  /\ new.end <= day(pass.sub.end) /\ new.through <= day(pass.now) + 1
  /\ new.sub = pass.sub.id
  /\ new.own \in [Tiers(TierUpTo[new.plan]) -> Nat]
  /\ new.carry \in [Tiers(TierUpTo[new.plan]) -> Nat]
  /\ pass.sub.start \in DOMAIN ledger =>
       LET old == ledger[pass.sub.start]
       IN  /\ new.start = old.start /\ new.plan = old.plan
           /\ new.end >= old.end /\ new.through >= old.through
           /\ \A k \in Tiers(TierUpTo[new.plan]) :
                new.own[k] >= old.own[k] /\ new.carry[k] >= old.carry[k]
  /\ pass.sub.start \notin DOMAIN ledger =>
       \A q \in DOMAIN ledger : daysFor(ledger[q], pass.sub.id).end <= new.start

(* Writing a statement ahead. *)
LEMMA WriteAheadRestates ==
  ASSUME IInv, pass # NoPass, NEW plan \in Plans, NEW row,
         row = Statement(pass.sub, plan, pass.now),
         pass.sub.start \in DOMAIN ledger => ledger[pass.sub.start].plan = plan,
         WriteAhead(pass.sub.start, row)
  PROVE  /\ DOMAIN ledger' = DOMAIN ledger \cup {pass.sub.start}
         /\ \A p \in DOMAIN ledger \ {pass.sub.start} : ledger'[p] = ledger[p]
         /\ Restated(ledger'[pass.sub.start])
         /\ ledger'[pass.sub.start].acked = FALSE
<1>. DEFINE s == pass.sub
            old == ledger[s.start]
<1>1. /\ row \in Row
      /\ row.start = windowOf(s).start /\ row.end = day(s.end)
      /\ row.start <= row.through /\ row.through <= row.end
      /\ row.through <= day(pass.now) + 1
      /\ row.plan = plan /\ row.sub = s.id /\ row.acked = FALSE
      /\ row.own \in [Tiers(TierUpTo[plan]) -> Nat]
      /\ row.carry \in [Tiers(TierUpTo[plan]) -> Nat]
      /\ s.start \in DOMAIN ledger =>
           \A k \in Tiers(TierUpTo[plan]) : row.own[k] >= old.own[k] /\ row.carry[k] >= old.carry[k]
  BY StatementIs
<1>2. row.start \in Nat /\ row.through \in Nat /\ row.end \in Nat /\ day(s.end) \in Nat
      /\ day(pass.now) \in Nat
  BY <1>1, PassIs DEF Row
<1>3. CASE s.start \notin DOMAIN ledger
  <2>1. ledger' = [q \in DOMAIN ledger \cup {s.start} |-> IF q = s.start THEN row ELSE ledger[q]]
    BY <1>3 DEF WriteAhead
  <2>2. /\ DOMAIN ledger' = DOMAIN ledger \cup {s.start}
        /\ \A p \in DOMAIN ledger \ {s.start} : ledger'[p] = ledger[p]
        /\ ledger'[s.start] = row
    BY <1>3, <2>1
  <2>3. \A q \in DOMAIN ledger : daysFor(ledger[q], s.id).end <= row.start
    BY <1>1, <1>3, Window
  <2>4. Restated(row)
    BY <1>1, <1>2, <1>3, <2>3 DEF Restated
  <2>. QED  BY <1>1, <2>2, <2>4
<1>4. CASE s.start \in DOMAIN ledger
  <2>. DEFINE thr == Smaller(Larger(old.through, row.through), row.end)
              new == [row EXCEPT !.start = old.start, !.through = thr]
  <2>1. ledger' = [ledger EXCEPT ![s.start] = new]
    BY <1>4 DEF WriteAhead
  <2>2. /\ DOMAIN ledger' = DOMAIN ledger \cup {s.start}
        /\ \A p \in DOMAIN ledger \ {s.start} : ledger'[p] = ledger[p]
        /\ ledger'[s.start] = new
    <3>. HIDE DEF new
    <3>. QED  BY <1>4, <2>1
  <2>3. /\ old.start \in Nat /\ old.end \in Nat /\ old.through \in Nat
        /\ old.start <= old.through /\ old.through <= old.end
        /\ old.plan = plan /\ old.end <= day(s.end) /\ old.through <= day(pass.now) + 1
    BY <1>4, Rows, KnownRow
  <2>4. /\ thr \in Nat /\ old.through <= thr /\ thr <= row.end
        /\ thr <= day(pass.now) + 1
    BY <1>1, <1>2, <2>3 DEF Larger, Smaller
  <2>. HIDE DEF thr
  <2>5. /\ new.start = old.start /\ new.end = row.end /\ new.through = thr
        /\ new.plan = plan /\ new.own = row.own /\ new.carry = row.carry
        /\ new.sub = s.id /\ new.acked = FALSE
    BY <1>1 DEF Row
  <2>6. new \in Row
    BY <1>1, <2>3, <2>4 DEF Row
  <2>. HIDE DEF new
  <2>7. Restated(new)
    <3>1. new.start <= new.through /\ new.through <= new.end /\ new.end <= day(s.end)
          /\ new.through <= day(pass.now) + 1 /\ new.end >= old.end
      BY <1>1, <1>2, <2>3, <2>4, <2>5
    <3>. QED  BY <1>1, <1>4, <2>3, <2>4, <2>5, <2>6, <3>1 DEF Restated
  <2>. QED  BY <2>2, <2>5, <2>7
<1>. QED  BY <1>3, <1>4

(* Advancing a row with nothing new to state. *)
LEMMA AdvanceRestates ==
  ASSUME IInv, pass # NoPass, NEW plan \in Plans, NEW row,
         row = Statement(pass.sub, plan, pass.now),
         pass.sub.start \in DOMAIN ledger, ledger[pass.sub.start].plan = plan,
         Advance(pass.sub.start, row)
  PROVE  /\ DOMAIN ledger' = DOMAIN ledger
         /\ \A p \in DOMAIN ledger \ {pass.sub.start} : ledger'[p] = ledger[p]
         /\ Restated(ledger'[pass.sub.start])
         /\ ledger'[pass.sub.start].own = ledger[pass.sub.start].own
         /\ ledger'[pass.sub.start].carry = ledger[pass.sub.start].carry
         /\ ledger'[pass.sub.start].acked = ledger[pass.sub.start].acked
<1>. DEFINE s == pass.sub
            old == ledger[s.start]
            end == Larger(old.end, row.end)
            thr == Smaller(row.through, end)
<1>1. /\ row \in Row /\ row.end = day(s.end)
      /\ row.start <= row.through /\ row.through <= row.end
      /\ row.through <= day(pass.now) + 1
      /\ row.through = row.end \/ row.through >= day(pass.now) + 1
  BY StatementIs
<1>2. row.through \in Nat /\ row.end \in Nat /\ day(s.end) \in Nat /\ day(pass.now) \in Nat
  BY <1>1, PassIs DEF Row
<1>3. /\ old.start \in Nat /\ old.end \in Nat /\ old.through \in Nat
      /\ old.start <= old.through /\ old.through <= old.end
      /\ old.plan = plan /\ old.end <= day(s.end) /\ old.through <= day(pass.now) + 1
      /\ old.sub = s.id
      /\ old.own \in [Tiers(TierUpTo[plan]) -> Nat] /\ old.carry \in [Tiers(TierUpTo[plan]) -> Nat]
  BY Rows, KnownRow
<1>4. old \in Row
  BY DEF IInv, Typed, TypeOK
<1>5. /\ end \in Nat /\ thr \in Nat /\ old.end <= end /\ end <= day(s.end)
      /\ old.through <= thr /\ thr <= end /\ thr <= day(pass.now) + 1
  BY <1>1, <1>2, <1>3 DEF Larger, Smaller
<1>. HIDE DEF end, thr
<1>6. CASE ledger' = ledger
  <2>1. Restated(old)
    BY <1>3, <1>4 DEF Restated
  <2>. QED  BY <1>6, <2>1
<1>7. CASE ledger' = [ledger EXCEPT ![s.start].end = end, ![s.start].through = thr]
  <2>. DEFINE new == [old EXCEPT !.end = end, !.through = thr]
  <2>1. ledger' = [ledger EXCEPT ![s.start] = new]
    BY <1>7
  <2>2. /\ DOMAIN ledger' = DOMAIN ledger
        /\ \A p \in DOMAIN ledger \ {s.start} : ledger'[p] = ledger[p]
        /\ ledger'[s.start] = new
    <3>1. s.start \in DOMAIN ledger
      OBVIOUS
    <3>. HIDE DEF new
    <3>. QED  BY <2>1, <3>1
  <2>3. /\ new.start = old.start /\ new.end = end /\ new.through = thr
        /\ new.plan = old.plan /\ new.own = old.own /\ new.carry = old.carry
        /\ new.sub = old.sub /\ new.acked = old.acked
    BY <1>4 DEF Row
  <2>4. new \in Row
    BY <1>4, <1>5 DEF Row
  <2>. HIDE DEF new
  <2>5. new.start <= new.through
    BY <1>3, <1>5, <2>3
  <2>6. /\ \A k \in Tiers(TierUpTo[plan]) : old.own[k] \in Nat /\ old.carry[k] \in Nat
    BY <1>3
  <2>7. Restated(new)
    BY <1>3, <1>5, <2>3, <2>4, <2>5, <2>6 DEF Restated
  <2>. QED  BY <2>2, <2>3, <2>7
<1>8. ledger' = ledger \/ ledger' = [ledger EXCEPT ![s.start].end = end, ![s.start].through = thr]
  BY DEF Advance, end, thr
<1>. QED  BY <1>6, <1>7, <1>8
-----------------------------------------------------------------------------
(* The invariant holds at first. *)
LEMMA InitIInv == Init => IInv
<1>. SUFFICES ASSUME Init PROVE IInv
  OBVIOUS
<1>1. /\ clock = 0 /\ cells = [d \in Days |-> 0] /\ peak = [d \in Days |-> 0]
      /\ sub = {} /\ subs = 0 /\ starts = {} /\ allowance \in Allowances
      /\ held = [p \in Instants |-> [k \in 1 .. MaxTiers |-> 0]] /\ pass = NoPass
  BY DEF Init
<1>2. DOMAIN ledger = {}
  BY DEF Init
<1>3. TypeOK
  <2>1. clock \in Instants
    BY <1>1, Numbers DEF Instants
  <2>2. cells \in [Days -> 0 .. MaxCount] /\ peak \in [Days -> 0 .. MaxCount]
    BY <1>1, Numbers
  <2>3. held \in [Instants -> Counts]
    BY <1>1 DEF Counts
  <2>4. subs \in 0 .. MaxSubs
    BY <1>1, Numbers
  <2>. QED  BY <1>1, <1>2, <2>1, <2>2, <2>3, <2>4 DEF TypeOK
<1>4. LedgerNeverUnderstates
  BY <1>1, <1>2 DEF LedgerNeverUnderstates
<1>. QED  BY <1>1, <1>2, <1>3, <1>4 DEF IInv, Typed, Live, Listed, Windows, Sending

(* Instants go by, and days do not go back. *)
LEMMA NowGrows ==
  ASSUME IInv, clock' \in Nat, clock <= clock', UNCHANGED pass
  PROVE  Now \in Nat /\ Now' \in Nat /\ day(Now) <= day(Now')
<1>1. clock \in Nat
  BY Numbers DEF IInv, Typed, TypeOK, Instants
<1>2. Now \in Nat /\ Now' \in Nat /\ Now <= Now'
  BY <1>1, PassIs DEF Now
<1>. QED  BY <1>2, DayGrows

(* Only the org and its usage changed: what the ledger says is as it was. *)
LEMMA Beside ==
  ASSUME IInv, UNCHANGED <<ledger, held, pass>>,
         TypeOK', clock <= clock', Live', Listed', \A s \in sub' : Fits(s)
  PROVE  IInv'
<1>1. Typed'
  BY DEF IInv, Typed
<1>2. clock' \in Nat
  BY Numbers DEF TypeOK, Instants
<1>3. day(Now) <= day(Now') /\ day(Now) \in Nat /\ day(Now') \in Nat
  BY <1>2, NowGrows, DayIs
<1>4. \A s : Fits(s)' <=> Fits(s)
  BY DEF Fits, Before, daysFor
<1>5. \A p \in DOMAIN ledger : ledger[p].through <= day(Now') + 1
  <2>. SUFFICES ASSUME NEW p \in DOMAIN ledger PROVE ledger[p].through <= day(Now') + 1
    OBVIOUS
  <2>1. ledger[p].through \in Nat /\ ledger[p].through <= day(Now) + 1
    BY Rows DEF IInv, Windows
  <2>. QED  BY <1>3, <2>1
<1>6. \A p, q \in DOMAIN ledger : p # q => Before(p, q) \/ Before(q, p)
  BY DEF IInv, Windows
<1>7. pass # NoPass => Fits(pass.sub)
  BY DEF IInv, Windows
<1>8. Windows'
  <2>1. \A p, q : Before(p, q)' <=> Before(p, q)
    BY DEF Before, daysFor
  <2>. HIDE DEF Before
  <2>2. (\A p, q \in DOMAIN ledger : p # q => Before(p, q) \/ Before(q, p))'
    BY <1>6, <2>1
  <2>3. (\A p \in DOMAIN ledger : ledger[p].through <= day(Now) + 1)'
    BY <1>5
  <2>4. (\A s \in sub : Fits(s))'
    BY <1>4
  <2>5. (pass # NoPass => Fits(pass.sub))'
    BY <1>4, <1>7
  <2>. QED  BY <2>2, <2>3, <2>4, <2>5 DEF Windows
<1>9. Sending'
  BY DEF IInv, Sending, stated, sumEach
<1>10. LedgerNeverUnderstates'
  BY DEF IInv, LedgerNeverUnderstates, stated, sumEach
<1>. QED  BY <1>1, <1>8, <1>9, <1>10 DEF IInv

LEMMA TickIInv == IInv /\ Tick => IInv'
<1>. SUFFICES ASSUME IInv, Tick PROVE IInv'
  OBVIOUS
<1>1. /\ clock < Horizon /\ clock' = clock + 1 /\ (pass # NoPass => clock = pass.now)
      /\ UNCHANGED <<cells, peak, sub, subs, allowance, starts, ledger, held, pass>>
  BY DEF Tick, usageVars, orgVars
<1>2. clock \in Nat /\ clock' \in Instants
  BY <1>1, Numbers DEF IInv, Typed, TypeOK, Instants
<1>3. TypeOK'
  BY <1>1, <1>2 DEF IInv, Typed, TypeOK
<1>4. Live'
  <2>1. \A s \in sub : s.start \in Nat
    BY Numbers DEF IInv, Typed, TypeOK, Sub, Instants
  <2>. QED  BY <1>1, <1>2, <2>1 DEF IInv, Live
<1>5. Listed'
  <2>1. pass # NoPass => pass.now \in Nat
    BY PassIs
  <2>. QED  BY <1>1, <1>2, <2>1 DEF IInv, Listed
<1>6. \A s \in sub' : Fits(s)
  BY <1>1 DEF IInv, Windows
<1>. QED  BY <1>1, <1>2, <1>3, <1>4, <1>5, <1>6, Beside

LEMMA RecountIInv == ASSUME IInv, NEW d \in Days, Recount(d) PROVE IInv'
<1>1. PICK n \in 0 .. MaxCount :
        /\ cells' = [cells EXCEPT ![d] = n] /\ peak' = [peak EXCEPT ![d] = Larger(@, n)]
        /\ UNCHANGED <<clock, sub, subs, allowance, starts, ledger, held, pass>>
  BY DEF Recount, orgVars
<1>2. cells' \in [Days -> 0 .. MaxCount] /\ peak' \in [Days -> 0 .. MaxCount]
  BY <1>1 DEF IInv, Typed, TypeOK, Larger
<1>3. TypeOK'
  BY <1>1, <1>2 DEF IInv, Typed, TypeOK
<1>4. Live' /\ Listed'
  BY <1>1 DEF IInv, Live, Listed
<1>5. \A s \in sub' : Fits(s)
  BY <1>1 DEF IInv, Windows
<1>6. clock <= clock'
  BY <1>1, Numbers DEF IInv, Typed, TypeOK, Instants
<1>. QED  BY <1>1, <1>3, <1>4, <1>5, <1>6, Beside

LEMMA SetAllowanceIInv == IInv /\ SetAllowance => IInv'
<1>. SUFFICES ASSUME IInv, SetAllowance PROVE IInv'
  OBVIOUS
<1>1. /\ allowance' \in Allowances
      /\ UNCHANGED <<clock, cells, peak, sub, subs, starts, ledger, held, pass>>
  BY DEF SetAllowance, usageVars
<1>2. TypeOK'
  BY <1>1 DEF IInv, Typed, TypeOK
<1>3. Live' /\ Listed'
  BY <1>1 DEF IInv, Live, Listed
<1>4. \A s \in sub' : Fits(s)
  BY <1>1 DEF IInv, Windows
<1>5. clock <= clock'
  BY <1>1, Numbers DEF IInv, Typed, TypeOK, Instants
<1>. QED  BY <1>1, <1>2, <1>3, <1>4, <1>5, Beside

LEMMA CancelIInv == IInv /\ Cancel => IInv'
<1>. SUFFICES ASSUME IInv, Cancel PROVE IInv'
  OBVIOUS
<1>1. /\ sub' = {}
      /\ UNCHANGED <<clock, cells, peak, subs, allowance, starts, ledger, held, pass>>
  BY DEF Cancel, usageVars
<1>2. TypeOK'
  BY <1>1 DEF IInv, Typed, TypeOK
<1>3. Live' /\ Listed'
  BY <1>1 DEF IInv, Live, Listed
<1>4. clock <= clock'
  BY <1>1, Numbers DEF IInv, Typed, TypeOK, Instants
<1>. QED  BY <1>1, <1>2, <1>3, <1>4, Beside

(* The live subscription. *)
LEMMA SubIs ==
  ASSUME IInv, NEW s \in sub
  PROVE  /\ sub = {s} /\ s \in Sub /\ s.id = subs /\ s.id \in 1 .. MaxSubs /\ s.start \in starts
         /\ s.start \in Instants /\ s.start \in Nat /\ s.end \in Nat /\ s.plan \in Plans
         /\ clock \in Nat /\ s.start <= clock /\ s.start < s.end
         /\ day(s.start) \in Nat /\ day(s.end) \in Nat /\ day(s.start) <= day(s.end)
         /\ Fits(s)
<1>1. s \in Sub /\ clock \in Nat
  BY Numbers DEF IInv, Typed, TypeOK, Instants
<1>2. s.id \in 1 .. MaxSubs /\ s.start \in Instants /\ s.end \in Nat /\ s.plan \in Plans
  BY <1>1 DEF Sub
<1>3. s.start \in Nat
  BY <1>2, Numbers DEF Instants
<1>4. sub = {s} /\ s.id = subs /\ s.start \in starts /\ s.start <= clock /\ s.start < s.end
  BY DEF IInv, Live
<1>5. s.start <= s.end
  BY <1>2, <1>3, <1>4
<1>6. day(s.start) \in Nat /\ day(s.end) \in Nat /\ day(s.start) <= day(s.end)
  BY <1>2, <1>3, <1>5, DayIs, DayGrows
<1>7. Fits(s)
  BY DEF IInv, Windows
<1>. QED  BY <1>1, <1>2, <1>3, <1>4, <1>6, <1>7

LEMMA ChangePlanIInv == IInv /\ ChangePlan => IInv'
<1>. SUFFICES ASSUME IInv, ChangePlan PROVE IInv'
  OBVIOUS
<1>1. PICK s \in sub, p \in Plans :
        /\ sub' = {[s EXCEPT !.plan = p]}
        /\ UNCHANGED <<clock, cells, peak, subs, allowance, starts, ledger, held, pass>>
  BY DEF ChangePlan, usageVars
<1>. DEFINE t == [s EXCEPT !.plan = p]
<1>2. /\ s \in Sub /\ s.id = subs /\ s.start \in starts /\ s.start \in Nat /\ clock \in Nat
      /\ s.start <= clock /\ s.start < s.end /\ Fits(s)
  BY SubIs
<1>3. t \in Sub /\ t.id = s.id /\ t.start = s.start /\ t.end = s.end
  BY <1>2 DEF Sub
<1>. HIDE DEF t
<1>4. sub' = {t}
  BY <1>1 DEF t
<1>5. TypeOK'
  BY <1>1, <1>3, <1>4 DEF IInv, Typed, TypeOK
<1>6. Live'
  BY <1>1, <1>2, <1>3, <1>4 DEF IInv, Live
<1>7. Listed'
  BY <1>1, <1>3, <1>4 DEF IInv, Listed
<1>8. Fits(t)
  BY <1>2, <1>3 DEF Fits
<1>9. clock <= clock'
  BY <1>1, <1>2
<1>. QED  BY <1>1, <1>4, <1>5, <1>6, <1>7, <1>8, <1>9, Beside

LEMMA PayOffIInv == IInv /\ PayOff => IInv'
<1>. SUFFICES ASSUME IInv, PayOff PROVE IInv'
  OBVIOUS
<1>1. PICK s \in sub :
        /\ s.end < clock + Cycle
        /\ sub' = {[s EXCEPT !.end = clock + Cycle]}
        /\ UNCHANGED <<clock, cells, peak, subs, allowance, starts, ledger, held, pass>>
  BY DEF PayOff, usageVars
<1>. DEFINE t == [s EXCEPT !.end = clock + Cycle]
<1>2. /\ s \in Sub /\ s.id = subs /\ s.start \in starts /\ s.start \in Nat /\ clock \in Nat
      /\ s.start <= clock /\ s.start < s.end /\ s.end \in Nat /\ Fits(s)
      /\ day(s.end) \in Nat /\ sub = {s}
  BY SubIs
<1>3. clock + Cycle \in Nat
  BY <1>2, Numbers
<1>4. t \in Sub /\ t.id = s.id /\ t.start = s.start /\ t.end = clock + Cycle
  BY <1>2, <1>3 DEF Sub
<1>. HIDE DEF t
<1>5. sub' = {t} /\ s.end <= t.end /\ t.end \in Nat
  BY <1>1, <1>2, <1>3, <1>4 DEF t
<1>6. TypeOK'
  BY <1>1, <1>4, <1>5 DEF IInv, Typed, TypeOK
<1>7. Live'
  BY <1>1, <1>2, <1>4, <1>5 DEF IInv, Live
<1>8. Listed'
  <2>1. pass # NoPass => pass.sub.end \in Nat
    BY PassIs
  <2>. QED  BY <1>1, <1>2, <1>4, <1>5, <2>1 DEF IInv, Listed
<1>9. day(s.end) <= day(t.end) /\ day(t.end) \in Nat
  BY <1>2, <1>5, DayGrows, DayIs
<1>10. Fits(t)
  <2>1. \A p \in DOMAIN ledger : ledger[p].end \in Nat /\ ledger[p].through \in Nat
    BY Rows
  <2>. QED  BY <1>2, <1>4, <1>9, <2>1 DEF Fits
<1>11. clock <= clock'
  BY <1>1, <1>2
<1>. QED  BY <1>1, <1>5, <1>6, <1>7, <1>8, <1>10, <1>11, Beside

LEMMA RenewIInv == IInv /\ Renew => IInv'
<1>. SUFFICES ASSUME IInv, Renew PROVE IInv'
  OBVIOUS
<1>1. PICK s \in sub :
        /\ s.end <= clock /\ s.end \notin starts
        /\ sub' = {[s EXCEPT !.start = s.end, !.end = s.end + Cycle]}
        /\ starts' = starts \cup {s.end}
        /\ UNCHANGED <<clock, cells, peak, subs, allowance, ledger, held, pass>>
  BY DEF Renew, usageVars
<1>. DEFINE t == [s EXCEPT !.start = s.end, !.end = s.end + Cycle]
<1>2. /\ s \in Sub /\ s.id = subs /\ s.start \in starts /\ s.start \in Nat /\ clock \in Nat
      /\ s.start <= clock /\ s.start < s.end /\ s.end \in Nat /\ Fits(s)
      /\ day(s.start) \in Nat /\ day(s.end) \in Nat /\ day(s.start) <= day(s.end) /\ sub = {s}
  BY SubIs
<1>3. s.end \in Instants /\ s.end + Cycle \in Nat /\ s.end < s.end + Cycle
  BY <1>1, <1>2, Numbers DEF IInv, Typed, TypeOK, Instants
<1>4. t \in Sub /\ t.id = s.id /\ t.start = s.end /\ t.end = s.end + Cycle
  BY <1>2, <1>3 DEF Sub
<1>. HIDE DEF t
<1>5. sub' = {t}
  BY <1>1 DEF t
<1>6. DOMAIN ledger \subseteq starts /\ starts \subseteq Instants
  BY DEF IInv, Typed, TypeOK
<1>7. TypeOK'
  <2>1. (sub \subseteq Sub /\ starts \subseteq Instants /\ DOMAIN ledger \subseteq starts)'
    BY <1>1, <1>3, <1>4, <1>5, <1>6
  <2>. QED  BY <1>1, <2>1 DEF IInv, Typed, TypeOK
<1>8. Live'
  BY <1>1, <1>2, <1>3, <1>4, <1>5 DEF IInv, Live
<1>9. Listed'
  <2>1. pass # NoPass => pass.sub.start # s.end
    BY <1>1 DEF IInv, Listed
  <2>. QED  BY <1>1, <1>4, <1>5, <2>1 DEF IInv, Listed
<1>10. day(s.end) <= day(t.end) /\ day(t.end) \in Nat
  BY <1>2, <1>3, <1>4, DayGrows, DayIs
<1>11. Fits(t)
  <2>1. t.start \notin DOMAIN ledger
    BY <1>1, <1>4, <1>6
  <2>2. ASSUME NEW p \in DOMAIN ledger
        PROVE  IF ledger[p].sub = t.id THEN ledger[p].end <= day(t.start)
               ELSE ledger[p].through <= day(t.end)
    <3>1. ledger[p].end \in Nat /\ ledger[p].through \in Nat
      BY Rows
    <3>2. CASE p = s.start
      <4>1. ledger[p].sub = s.id /\ ledger[p].end <= day(s.end)
        BY <1>2, <3>2 DEF Fits
      <4>. QED  BY <1>4, <4>1
    <3>3. CASE p # s.start
      <4>1. IF ledger[p].sub = s.id THEN ledger[p].end <= day(s.start)
            ELSE ledger[p].through <= day(s.end)
        BY <1>2, <3>3 DEF Fits
      <4>. QED  BY <1>2, <1>4, <1>10, <3>1, <4>1
    <3>. QED  BY <3>2, <3>3
  <2>. QED  BY <2>1, <2>2 DEF Fits
<1>12. clock <= clock'
  BY <1>1, <1>2
<1>. QED  BY <1>1, <1>5, <1>7, <1>8, <1>9, <1>11, <1>12, Beside

LEMMA SubscribeIInv == IInv /\ Subscribe => IInv'
<1>. SUFFICES ASSUME IInv, Subscribe PROVE IInv'
  OBVIOUS
<1>1. PICK start \in Instants \ starts, p \in Plans :
        /\ sub = {} /\ subs < MaxSubs /\ clock - Lag <= start /\ start <= clock
        /\ sub' = {[id |-> subs + 1, start |-> start, end |-> start + Cycle, plan |-> p]}
        /\ subs' = subs + 1 /\ starts' = starts \cup {start}
        /\ UNCHANGED <<clock, cells, peak, allowance, ledger, held, pass>>
  BY DEF Subscribe, usageVars
<1>. DEFINE t == [id |-> subs + 1, start |-> start, end |-> start + Cycle, plan |-> p]
<1>2. clock \in Nat /\ start \in Nat /\ subs \in Nat
  BY Numbers DEF IInv, Typed, TypeOK, Instants
<1>3. start + Cycle \in Nat /\ start < start + Cycle /\ clock + DayLength <= start + Cycle
  BY <1>1, <1>2, Numbers
<1>4. subs + 1 \in 1 .. MaxSubs
  BY <1>1, <1>2, Numbers
<1>5. t \in Sub /\ t.id = subs + 1 /\ t.start = start /\ t.end = start + Cycle
  BY <1>1, <1>3, <1>4 DEF Sub
<1>. HIDE DEF t
<1>6. sub' = {t}
  BY <1>1 DEF t
<1>7. DOMAIN ledger \subseteq starts /\ starts \subseteq Instants
  BY DEF IInv, Typed, TypeOK
<1>8. TypeOK'
  <2>1. (sub \subseteq Sub /\ starts \subseteq Instants /\ DOMAIN ledger \subseteq starts)'
    BY <1>1, <1>5, <1>6, <1>7
  <2>2. subs' \in 0 .. MaxSubs
    BY <1>1, <1>2, <1>4, Numbers
  <2>. QED  BY <1>1, <2>1, <2>2 DEF IInv, Typed, TypeOK
<1>9. \A q \in DOMAIN ledger : ledger[q].sub \in Nat /\ ledger[q].sub <= subs
  BY Rows DEF IInv, Live
<1>10. Live'
  BY <1>1, <1>2, <1>3, <1>5, <1>6, <1>9 DEF Live
<1>11. Listed'
  <2>1. pass # NoPass => pass.sub.id \in Nat /\ pass.sub.id <= subs
    BY PassIs DEF IInv, Listed
  <2>. QED  BY <1>1, <1>2, <1>5, <1>6, <2>1 DEF IInv, Listed
<1>12. Fits(t)
  <2>1. t.start \notin DOMAIN ledger
    BY <1>1, <1>5, <1>7
  <2>2. ASSUME NEW q \in DOMAIN ledger
        PROVE  ledger[q].sub # t.id /\ ledger[q].through <= day(t.end)
    <3>1. ledger[q].through \in Nat /\ ledger[q].through <= day(Now) + 1
      BY Rows DEF IInv, Windows
    <3>2. Now \in Nat /\ Now <= clock
      BY <1>2, PassIs DEF IInv, Listed, Now
    <3>3. day(Now) \in Nat /\ day(clock) \in Nat /\ day(Now) <= day(clock)
      BY <1>2, <3>2, DayIs, DayGrows
    <3>4. day(clock) + 1 <= day(t.end) /\ day(t.end) \in Nat
      BY <1>2, <1>3, <1>5, DayAfter, DayIs
    <3>5. ledger[q].through <= day(t.end)
      BY <3>1, <3>3, <3>4
    <3>6. ledger[q].sub # t.id
      BY <1>2, <1>5, <1>9
    <3>. QED  BY <3>5, <3>6
  <2>. QED  BY <2>1, <2>2 DEF Fits
<1>13. clock <= clock'
  BY <1>1, <1>2
<1>. QED  BY <1>1, <1>6, <1>8, <1>10, <1>11, <1>12, <1>13, Beside
-----------------------------------------------------------------------------
(* The ledger is as it was: only the pass moves. *)
LEMMA LedgerRests ==
  ASSUME IInv, UNCHANGED <<clock, cells, peak, sub, subs, allowance, starts, ledger>>,
         TypeOK', Listed', Sending', LedgerNeverUnderstates',
         day(Now) <= day(Now'), day(Now') \in Nat,
         pass' # NoPass => Fits(pass'.sub)
  PROVE  IInv'
<1>1. Typed' /\ Live'
  BY DEF IInv, Typed, Live
<1>2. \A s : Fits(s)' <=> Fits(s)
  BY DEF Fits, Before, daysFor
<1>3. \A p, q : Before(p, q)' <=> Before(p, q)
  BY DEF Before, daysFor
<1>4. \A p \in DOMAIN ledger : ledger[p].through <= day(Now') + 1
  <2>. SUFFICES ASSUME NEW p \in DOMAIN ledger PROVE ledger[p].through <= day(Now') + 1
    OBVIOUS
  <2>1. ledger[p].through \in Nat /\ ledger[p].through <= day(Now) + 1
    BY Rows DEF IInv, Windows
  <2>2. day(Now) \in Nat
    <3>1. Now \in Nat
      BY PassIs, Numbers DEF Now, IInv, Typed, TypeOK, Instants
    <3>. QED  BY <3>1, DayIs
  <2>. QED  BY <2>1, <2>2
<1>. HIDE DEF Before, Fits
<1>5. Windows'
  <2>1. (\A p, q \in DOMAIN ledger : p # q => Before(p, q) \/ Before(q, p))'
    BY <1>3 DEF IInv, Windows
  <2>2. (\A p \in DOMAIN ledger : ledger[p].through <= day(Now) + 1)'
    BY <1>4
  <2>3. (\A s \in sub : Fits(s))'
    BY <1>2 DEF IInv, Windows
  <2>4. (pass # NoPass => Fits(pass.sub))'
    BY <1>2
  <2>. QED  BY <2>1, <2>2, <2>3, <2>4 DEF Windows
<1>. QED  BY <1>1, <1>5 DEF IInv

LEMMA BeginIInv == IInv /\ Begin => IInv'
<1>. SUFFICES ASSUME IInv, Begin PROVE IInv'
  OBVIOUS
<1>1. PICK s \in sub :
        /\ pass = NoPass /\ ~Frozen(s, clock)
        /\ pass' = [pc |-> IF s.start \in DOMAIN ledger /\ ~ledger[s.start].acked
                           THEN "resend" ELSE "state",
                    sub |-> s, now |-> clock]
        /\ UNCHANGED <<clock, cells, peak, sub, subs, allowance, starts, ledger, held>>
  BY DEF Begin, usageVars, orgVars
<1>2. /\ s \in Sub /\ s.id = subs /\ s.start \in starts /\ s.start \in Nat /\ s.end \in Nat
      /\ clock \in Nat /\ s.start <= clock /\ s.start < s.end /\ Fits(s) /\ sub = {s}
      /\ s.id \in 1 .. MaxSubs
  BY SubIs
<1>3. clock \in Instants
  BY DEF IInv, Typed, TypeOK
<1>4. /\ pass' \in [pc : {"resend", "state"}, sub : Sub, now : Instants]
      /\ pass'.sub = s /\ pass'.now = clock
      /\ pass'.pc = "resend" => s.start \in DOMAIN ledger
      /\ pass'.pc \in {"resend", "state"}
  BY <1>1, <1>2, <1>3
<1>5. pass' # NoPass
  BY <1>1 DEF NoPass
<1>6. TypeOK'
  <2>1. pass' \in [pc : {"resend", "resent", "state", "ingest", "stated"},
                   sub : Sub, now : Instants]
    BY <1>4
  <2>. QED  BY <1>1, <2>1 DEF IInv, Typed, TypeOK
<1>7. Listed'
  <2>1. clock < s.end
    BY <1>1, <1>2 DEF Frozen
  <2>2. clock <= clock /\ clock <= clock + 1 /\ s.id <= subs /\ s.end <= s.end
    BY <1>2
  <2>. QED  BY <1>1, <1>2, <1>4, <2>1, <2>2 DEF Listed
<1>8. Sending'
  BY <1>1, <1>4 DEF Sending
<1>9. LedgerNeverUnderstates'
  BY <1>1 DEF IInv, LedgerNeverUnderstates, stated, sumEach
<1>10. Now' = Now /\ day(Now) \in Nat
  BY <1>1, <1>2, <1>4, <1>5, DayIs DEF Now
<1>. QED  BY <1>1, <1>2, <1>4, <1>6, <1>7, <1>8, <1>9, <1>10, LedgerRests

(* A pass ends without a trace. *)
LEMMA EndsIInv ==
  ASSUME IInv, pass # NoPass, pass' = NoPass,
         UNCHANGED <<clock, cells, peak, sub, subs, allowance, starts, ledger, held>>
  PROVE  IInv'
<1>1. TypeOK'
  BY DEF IInv, Typed, TypeOK
<1>2. Listed' /\ Sending'
  BY DEF Listed, Sending
<1>3. LedgerNeverUnderstates'
  BY DEF IInv, LedgerNeverUnderstates, stated, sumEach
<1>4. clock \in Nat
  BY Numbers DEF IInv, Typed, TypeOK, Instants
<1>5. pass.now \in Nat /\ pass.now <= clock
  BY PassIs DEF IInv, Listed
<1>6. Now = pass.now /\ Now' = clock
  BY DEF Now
<1>7. day(Now) <= day(Now') /\ day(Now') \in Nat
  BY <1>4, <1>5, <1>6, DayIs, DayGrows
<1>. QED  BY <1>1, <1>2, <1>3, <1>7, LedgerRests

LEMMA SupersededIInv == IInv /\ Superseded => IInv'
<1>1. Superseded => pass # NoPass
  BY DEF Superseded, NoPass
<1>. QED  BY <1>1, EndsIInv DEF Superseded, usageVars, orgVars

LEMMA FailIInv == IInv /\ Fail => IInv'
BY EndsIInv DEF Fail, usageVars, orgVars

(* The statement lands in the listed period, and there the row is the larger. *)
LEMMA IngestIInv == IInv /\ Ingest => IInv'
<1>. SUFFICES ASSUME IInv, Ingest PROVE IInv'
  OBVIOUS
<1>. DEFINE s == pass.sub
            row == ledger[s.start]
            T == Tiers(TierUpTo[row.plan])
            told == stated(row)
<1>1. /\ pass.pc \in {"resend", "ingest"}
      /\ Land(s, pass.now, told)
      /\ pass' = [pass EXCEPT !.pc = IF pass.pc = "resend" THEN "resent" ELSE "stated"]
      /\ UNCHANGED <<clock, cells, peak, sub, subs, allowance, starts, ledger>>
  BY DEF Ingest, usageVars, orgVars
<1>2. pass # NoPass
  BY <1>1 DEF NoPass
<1>3. s.start \in DOMAIN ledger
  BY <1>1, <1>2 DEF IInv, Sending
<1>4. /\ pass \in [pc : {"resend", "resent", "state", "ingest", "stated"},
                   sub : Sub, now : Instants]
      /\ s.start \in Instants /\ pass.now \in Nat /\ s.end \in Nat /\ pass.now < s.end
  BY <1>2, PassIs
<1>5. /\ row.plan \in Plans /\ row.own \in [T -> Nat] /\ row.carry \in [T -> Nat]
      /\ DOMAIN told = T /\ \A k \in T : told[k] \in Nat
  <2>1. row.plan \in Plans /\ row.own \in [T -> Nat] /\ row.carry \in [T -> Nat]
    BY <1>3, Rows
  <2>. HIDE DEF row
  <2>2. DOMAIN told = T /\ \A k \in T : told[k] \in Nat
    BY <2>1, StatedIs
  <2>. QED  BY <2>1, <2>2
<1>6. T \subseteq 1 .. MaxTiers
  BY <1>5, TiersFit
<1>7. held \in [Instants -> Counts]
  BY DEF IInv, Typed, TypeOK
<1>8. /\ \A k \in T : held[s.start][k] <= told[k]
      /\ row.acked => \A k \in T : held[s.start][k] = told[k]
  BY <1>3, <1>4, <1>5 DEF IInv, LedgerNeverUnderstates
<1>. DEFINE full == [k \in 1 .. MaxTiers |-> IF k \in DOMAIN told THEN Larger(told[k], held[s.start][k])
                                             ELSE held[s.start][k]]
<1>9. held' = [held EXCEPT ![s.start] = full]
  BY <1>1, <1>4 DEF Land
<1>10. /\ full \in Counts
       /\ \A k \in T : full[k] = told[k]
  <2>1. held[s.start] \in [1 .. MaxTiers -> Nat]
    BY <1>4, <1>7 DEF Counts
  <2>. HIDE DEF told, T
  <2>2. full \in [1 .. MaxTiers -> Nat]
    BY <1>5, <2>1 DEF Larger
  <2>3. ASSUME NEW k \in T PROVE full[k] = told[k]
    <3>1. k \in 1 .. MaxTiers /\ k \in DOMAIN told /\ held[s.start][k] \in Nat /\ told[k] \in Nat
          /\ held[s.start][k] <= told[k]
      BY <1>5, <1>6, <1>8, <2>1
    <3>. QED  BY <3>1 DEF Larger
  <2>. QED  BY <2>2, <2>3 DEF Counts
<1>. HIDE DEF full
<1>11. held' \in [Instants -> Counts] /\ held'[s.start] = full
       /\ \A p \in Instants \ {s.start} : held'[p] = held[p]
  BY <1>4, <1>7, <1>9, <1>10
<1>12. /\ pass' \in [pc : {"resent", "stated"}, sub : Sub, now : Instants]
       /\ pass'.sub = s /\ pass'.now = pass.now
  BY <1>1, <1>4
<1>13. pass' # NoPass
  BY <1>12 DEF NoPass
<1>14. TypeOK'
  <2>1. pass' \in [pc : {"resend", "resent", "state", "ingest", "stated"},
                   sub : Sub, now : Instants]
    BY <1>12
  <2>. QED  BY <1>1, <1>11, <2>1 DEF IInv, Typed, TypeOK
<1>15. Listed'
  BY <1>1, <1>2, <1>12 DEF IInv, Listed
<1>16. Sending'
  <2>1. stated(ledger[pass.sub.start])' = told
    BY <1>1, <1>12 DEF stated, sumEach
  <2>2. \A k \in DOMAIN told : held'[s.start][k] = told[k]
    BY <1>5, <1>10, <1>11
  <2>. HIDE DEF told
  <2>3. (pass.sub.start \in DOMAIN ledger)'
    BY <1>1, <1>3, <1>12
  <2>4. (\A k \in DOMAIN stated(ledger[pass.sub.start]) :
           held[pass.sub.start][k] = stated(ledger[pass.sub.start])[k])'
    BY <1>12, <2>1, <2>2
  <2>. QED  BY <2>3, <2>4 DEF Sending
<1>17. LedgerNeverUnderstates'
  <2>1. \A p : stated(ledger[p])' = stated(ledger[p])
    BY <1>1 DEF stated, sumEach
  <2>2. ASSUME NEW p \in Instants, p \notin DOMAIN ledger
        PROVE  \A k \in 1 .. MaxTiers : held'[p][k] = 0
    BY <1>3, <1>11, <2>2 DEF IInv, LedgerNeverUnderstates
  <2>3. ASSUME NEW p \in DOMAIN ledger, NEW k \in DOMAIN stated(ledger[p])
        PROVE  /\ held'[p][k] <= stated(ledger[p])[k]
               /\ ledger[p].acked => held'[p][k] = stated(ledger[p])[k]
    <3>1. CASE p = s.start
      <4>1. k \in T /\ held'[p][k] = told[k] /\ told[k] \in Nat
        BY <1>5, <1>10, <1>11, <2>3, <3>1
      <4>. QED  BY <3>1, <4>1
    <3>2. CASE p # s.start
      <4>1. p \in Instants
        BY Rows
      <4>2. held'[p] = held[p]
        BY <1>11, <3>2, <4>1
      <4>. QED  BY <2>3, <4>1, <4>2 DEF IInv, LedgerNeverUnderstates
    <3>. QED  BY <3>1, <3>2
  <2>. QED  BY <1>1, <2>1, <2>2, <2>3 DEF LedgerNeverUnderstates
<1>18. Now' = Now /\ day(Now) \in Nat
  BY <1>2, <1>4, <1>12, <1>13, DayIs DEF Now
<1>19. Fits(s)
  BY <1>2 DEF IInv, Windows
<1>. QED  BY <1>1, <1>12, <1>14, <1>15, <1>16, <1>17, <1>18, <1>19, LedgerRests

(* The rows keep what the windows are made of. *)
LEMMA WindowsRest ==
  ASSUME IInv, UNCHANGED sub, DOMAIN ledger' = DOMAIN ledger,
         \A p \in DOMAIN ledger :
           /\ ledger'[p].start = ledger[p].start /\ ledger'[p].end = ledger[p].end
           /\ ledger'[p].through = ledger[p].through /\ ledger'[p].sub = ledger[p].sub,
         day(Now) <= day(Now'), day(Now) \in Nat, day(Now') \in Nat,
         pass' # NoPass => Fits(pass'.sub)
  PROVE  Windows'
<1>1. \A p, q \in DOMAIN ledger : Before(p, q)' <=> Before(p, q)
  BY DEF Before, daysFor
<1>2. \A s : Fits(s)' <=> Fits(s)
  <2>. SUFFICES ASSUME NEW s PROVE Fits(s)' <=> Fits(s)
    OBVIOUS
  <2>. HIDE DEF Before
  <2>1. s.start \in DOMAIN ledger =>
          ((\A p \in DOMAIN ledger \ {s.start} : Before(p, s.start)')
             <=> (\A p \in DOMAIN ledger \ {s.start} : Before(p, s.start)))
    BY <1>1
  <2>2. (\A p \in DOMAIN ledger \ {s.start} :
           IF ledger[p].sub = s.id THEN ledger[p].end <= day(s.start)
           ELSE ledger[p].through <= day(s.end))'
        <=> (\A p \in DOMAIN ledger \ {s.start} :
               IF ledger[p].sub = s.id THEN ledger[p].end <= day(s.start)
               ELSE ledger[p].through <= day(s.end))
    OBVIOUS
  <2>. QED  BY <2>1, <2>2 DEF Fits
<1>3. \A p \in DOMAIN ledger : ledger'[p].through <= day(Now') + 1
  <2>. SUFFICES ASSUME NEW p \in DOMAIN ledger PROVE ledger'[p].through <= day(Now') + 1
    OBVIOUS
  <2>1. ledger[p].through \in Nat /\ ledger[p].through <= day(Now) + 1
    BY Rows DEF IInv, Windows
  <2>. QED  BY <2>1
<1>. HIDE DEF Before, Fits
<1>4. (\A p, q \in DOMAIN ledger : p # q => Before(p, q) \/ Before(q, p))'
  BY <1>1 DEF IInv, Windows
<1>5. (\A p \in DOMAIN ledger : ledger[p].through <= day(Now) + 1)'
  BY <1>3
<1>6. (\A s \in sub : Fits(s))'
  BY <1>2 DEF IInv, Windows
<1>7. (pass # NoPass => Fits(pass.sub))'
  BY <1>2
<1>. QED  BY <1>4, <1>5, <1>6, <1>7 DEF Windows

LEMMA AckIInv == IInv /\ ack => IInv'
<1>. SUFFICES ASSUME IInv, ack PROVE IInv'
  OBVIOUS
<1>. DEFINE s == pass.sub
            old == ledger[s.start]
            new == [old EXCEPT !.acked = TRUE]
<1>1. /\ pass.pc \in {"resent", "stated"}
      /\ ledger' = [ledger EXCEPT ![s.start] = new]
      /\ pass' = IF pass.pc = "resent" THEN [pass EXCEPT !.pc = "state"] ELSE NoPass
      /\ UNCHANGED <<clock, cells, peak, sub, subs, allowance, starts, held>>
  BY DEF ack, usageVars, orgVars
<1>2. pass # NoPass
  BY <1>1 DEF NoPass
<1>3. s.start \in DOMAIN ledger /\ s.start \in Instants
  BY <1>1, <1>2, PassIs DEF IInv, Sending
<1>4. /\ pass \in [pc : {"resend", "resent", "state", "ingest", "stated"},
                   sub : Sub, now : Instants]
      /\ pass.now \in Nat
  BY <1>2, PassIs
<1>5. old \in Row /\ old.own \in [Tiers(TierUpTo[old.plan]) -> Nat]
      /\ old.carry \in [Tiers(TierUpTo[old.plan]) -> Nat]
  BY <1>3 DEF IInv, Typed, TypeOK
<1>6. /\ new \in Row /\ new.start = old.start /\ new.end = old.end /\ new.through = old.through
      /\ new.sub = old.sub /\ new.plan = old.plan /\ new.own = old.own /\ new.carry = old.carry
  BY <1>5 DEF Row
<1>. HIDE DEF new
<1>7. /\ DOMAIN ledger' = DOMAIN ledger
      /\ \A p \in DOMAIN ledger \ {s.start} : ledger'[p] = ledger[p]
      /\ ledger'[s.start] = new
  BY <1>1, <1>3
<1>8. \A p \in DOMAIN ledger :
        /\ ledger'[p].start = ledger[p].start /\ ledger'[p].end = ledger[p].end
        /\ ledger'[p].through = ledger[p].through /\ ledger'[p].sub = ledger[p].sub
        /\ ledger'[p].plan = ledger[p].plan
        /\ ledger'[p].own = ledger[p].own /\ ledger'[p].carry = ledger[p].carry
        /\ ledger'[p] \in Row
  <2>. SUFFICES ASSUME NEW p \in DOMAIN ledger
                PROVE  /\ ledger'[p].start = ledger[p].start /\ ledger'[p].end = ledger[p].end
                       /\ ledger'[p].through = ledger[p].through /\ ledger'[p].sub = ledger[p].sub
                       /\ ledger'[p].plan = ledger[p].plan
                       /\ ledger'[p].own = ledger[p].own /\ ledger'[p].carry = ledger[p].carry
                       /\ ledger'[p] \in Row
    OBVIOUS
  <2>1. CASE p = s.start
    BY <1>6, <1>7, <2>1
  <2>2. CASE p # s.start
    BY <1>7, <2>2 DEF IInv, Typed, TypeOK
  <2>. QED  BY <2>1, <2>2
<1>9. pass' = NoPass \/ (pass' = [pass EXCEPT !.pc = "state"] /\ pass' # NoPass)
  BY <1>1, <1>4 DEF NoPass
<1>10. TypeOK'
  <2>1. (pass = NoPass \/ pass \in [pc : {"resend", "resent", "state", "ingest", "stated"},
                                    sub : Sub, now : Instants])'
    BY <1>4, <1>9
  <2>2. (DOMAIN ledger \subseteq starts)'
    BY <1>1, <1>7 DEF IInv, Typed, TypeOK
  <2>3. (\A p \in DOMAIN ledger :
           /\ ledger[p] \in Row
           /\ ledger[p].start <= ledger[p].through /\ ledger[p].through <= ledger[p].end)'
    BY <1>7, <1>8 DEF IInv, Typed, TypeOK
  <2>. QED  BY <1>1, <2>1, <2>2, <2>3 DEF IInv, Typed, TypeOK
<1>11. Typed'
  <2>1. \A p \in DOMAIN ledger : /\ ledger[p].own \in [Tiers(TierUpTo[ledger[p].plan]) -> Nat]
                                 /\ ledger[p].carry \in [Tiers(TierUpTo[ledger[p].plan]) -> Nat]
    BY DEF IInv, Typed
  <2>2. (\A p \in DOMAIN ledger : /\ ledger[p].own \in [Tiers(TierUpTo[ledger[p].plan]) -> Nat]
                                  /\ ledger[p].carry \in [Tiers(TierUpTo[ledger[p].plan]) -> Nat])'
    BY <1>7, <1>8, <2>1
  <2>. QED  BY <1>10, <2>2 DEF Typed
<1>12. Live'
  BY <1>1, <1>7, <1>8 DEF IInv, Live
<1>13. Listed'
  BY <1>1, <1>2, <1>4, <1>9 DEF IInv, Listed
<1>14. Sending'
  BY <1>4, <1>9 DEF Sending
<1>15. day(Now) <= day(Now') /\ day(Now) \in Nat /\ day(Now') \in Nat
  <2>1. clock \in Nat /\ pass.now <= clock
    BY <1>2, Numbers DEF IInv, Typed, TypeOK, Instants, Listed
  <2>2. Now = pass.now /\ Now' \in {pass.now, clock}
    BY <1>1, <1>2, <1>4, <1>9 DEF Now
  <2>3. Now' \in Nat /\ Now \in Nat /\ Now <= Now'
    BY <1>4, <2>1, <2>2
  <2>. QED  BY <2>3, DayIs, DayGrows
<1>16. Windows'
  <2>1. Fits(s)
    BY <1>2 DEF IInv, Windows
  <2>2. pass' # NoPass => Fits(pass'.sub)
    BY <1>4, <1>9, <2>1
  <2>. QED  BY <1>1, <1>7, <1>8, <1>15, <2>2, WindowsRest
<1>17. LedgerNeverUnderstates'
  <2>1. \A p \in DOMAIN ledger : stated(ledger[p])' = stated(ledger[p])
    BY <1>8 DEF stated, sumEach
  <2>2. \A k \in DOMAIN stated(old) : held[s.start][k] = stated(old)[k]
    BY <1>1, <1>2 DEF IInv, Sending
  <2>3. ASSUME NEW p \in DOMAIN ledger, NEW k \in DOMAIN stated(ledger[p])
        PROVE  /\ held[p][k] <= stated(ledger[p])[k]
               /\ ledger'[p].acked => held[p][k] = stated(ledger[p])[k]
    <3>1. p \in Instants /\ held[p][k] <= stated(ledger[p])[k]
      BY <2>3, Rows DEF IInv, LedgerNeverUnderstates
    <3>2. CASE p = s.start
      BY <2>2, <2>3, <3>1, <3>2
    <3>3. CASE p # s.start
      BY <1>7, <2>3, <3>1, <3>3 DEF IInv, LedgerNeverUnderstates
    <3>. QED  BY <3>2, <3>3
  <2>4. \A p \in Instants : p \notin DOMAIN ledger => \A k \in 1 .. MaxTiers : held[p][k] = 0
    BY DEF IInv, LedgerNeverUnderstates
  <2>. QED  BY <1>1, <1>7, <2>1, <2>3, <2>4 DEF LedgerNeverUnderstates
<1>. QED  BY <1>11, <1>12, <1>13, <1>14, <1>16, <1>17 DEF IInv

(* What a pass that states does to the ledger: it restates the row of the listed
   period, and either sends it or had nothing new to say.                         *)
States ==
  /\ DOMAIN ledger' = DOMAIN ledger \cup {pass.sub.start}
  /\ \A p \in DOMAIN ledger \ {pass.sub.start} : ledger'[p] = ledger[p]
  /\ Restated(ledger'[pass.sub.start])
  /\ \/ /\ ledger'[pass.sub.start].acked = FALSE
        /\ pass' = [pass EXCEPT !.pc = "ingest"]
     \/ /\ pass.sub.start \in DOMAIN ledger
        /\ ledger'[pass.sub.start].own = ledger[pass.sub.start].own
        /\ ledger'[pass.sub.start].carry = ledger[pass.sub.start].carry
        /\ ledger'[pass.sub.start].acked = ledger[pass.sub.start].acked
        /\ pass' = NoPass

LEMMA StateStates ==
  ASSUME IInv, State
  PROVE  /\ pass # NoPass /\ StillTheOrgs(pass.sub)
         /\ UNCHANGED <<clock, cells, peak, sub, subs, allowance, starts, held>>
         /\ States
<1>1. /\ pass.pc = "state" /\ StillTheOrgs(pass.sub)
      /\ UNCHANGED <<clock, cells, peak, sub, subs, allowance, starts, held>>
  BY DEF State, usageVars, orgVars
<1>2. pass # NoPass
  BY <1>1 DEF NoPass
<1>3. PICK t \in sub :
        LET s == pass.sub
            known == s.start \in DOMAIN ledger
            row == Statement(s, t.plan, pass.now)
        IN  /\ known => ledger[s.start].plan = t.plan
            /\ IF known /\ row.own = ledger[s.start].own /\ row.carry = ledger[s.start].carry
               THEN Advance(s.start, row) /\ pass' = NoPass
               ELSE WriteAhead(s.start, row) /\ pass' = [pass EXCEPT !.pc = "ingest"]
  BY DEF State
<1>. DEFINE row == Statement(pass.sub, t.plan, pass.now)
<1>4. t.plan \in Plans
  BY SubIs
<1>5. pass.sub.start \in DOMAIN ledger => ledger[pass.sub.start].plan = t.plan
  BY <1>3
<1>6. \/ /\ pass.sub.start \in DOMAIN ledger
         /\ Advance(pass.sub.start, row) /\ pass' = NoPass
      \/ /\ WriteAhead(pass.sub.start, row)
         /\ pass' = [pass EXCEPT !.pc = "ingest"]
  BY <1>3
<1>. HIDE DEF row
<1>7. row = Statement(pass.sub, t.plan, pass.now)
  BY DEF row
<1>8. CASE pass.sub.start \in DOMAIN ledger /\ Advance(pass.sub.start, row) /\ pass' = NoPass
  <2>1. /\ DOMAIN ledger' = DOMAIN ledger
        /\ \A p \in DOMAIN ledger \ {pass.sub.start} : ledger'[p] = ledger[p]
        /\ Restated(ledger'[pass.sub.start])
        /\ ledger'[pass.sub.start].own = ledger[pass.sub.start].own
        /\ ledger'[pass.sub.start].carry = ledger[pass.sub.start].carry
        /\ ledger'[pass.sub.start].acked = ledger[pass.sub.start].acked
    BY <1>2, <1>4, <1>5, <1>7, <1>8, AdvanceRestates
  <2>2. DOMAIN ledger' = DOMAIN ledger \cup {pass.sub.start}
    BY <1>8, <2>1
  <2>. HIDE DEF Restated
  <2>3. States
    BY <1>8, <2>1, <2>2 DEF States
  <2>. QED  BY <1>1, <1>2, <2>3
<1>9. CASE WriteAhead(pass.sub.start, row) /\ pass' = [pass EXCEPT !.pc = "ingest"]
  <2>1. /\ DOMAIN ledger' = DOMAIN ledger \cup {pass.sub.start}
        /\ \A p \in DOMAIN ledger \ {pass.sub.start} : ledger'[p] = ledger[p]
        /\ Restated(ledger'[pass.sub.start])
        /\ ledger'[pass.sub.start].acked = FALSE
    BY <1>2, <1>4, <1>5, <1>7, <1>9, WriteAheadRestates
  <2>. HIDE DEF Restated
  <2>2. States
    BY <1>9, <2>1 DEF States
  <2>. QED  BY <1>1, <1>2, <2>2
<1>. QED  BY <1>6, <1>8, <1>9

(* The windows stay in order: the restated row comes after all others. *)
LEMMA StateWindows ==
  ASSUME IInv, pass # NoPass, StillTheOrgs(pass.sub), UNCHANGED <<clock, sub>>, States
  PROVE  Windows'
<1>0. PICK s : s = pass.sub
  OBVIOUS
<1>. DEFINE new == ledger'[s.start]
<1>1. /\ DOMAIN ledger' = DOMAIN ledger \cup {s.start}
      /\ \A p \in DOMAIN ledger \ {s.start} : ledger'[p] = ledger[p]
      /\ Restated(new)
      /\ pass' = [pass EXCEPT !.pc = "ingest"] \/ pass' = NoPass
  BY <1>0 DEF States
<1>2. /\ new \in Row /\ new.end <= day(s.end) /\ new.through <= day(pass.now) + 1
      /\ new.sub = s.id
      /\ s.start \in DOMAIN ledger => new.start = ledger[s.start].start
      /\ s.start \notin DOMAIN ledger =>
           \A q \in DOMAIN ledger : daysFor(ledger[q], s.id).end <= new.start
  BY <1>0, <1>1 DEF Restated
<1>3. /\ pass \in [pc : {"resend", "resent", "state", "ingest", "stated"},
                   sub : Sub, now : Instants]
      /\ pass.now \in Nat /\ s.end \in Nat /\ day(s.end) \in Nat /\ day(pass.now) \in Nat
  BY <1>0, PassIs
<1>4. new.start \in Nat /\ new.end \in Nat /\ new.through \in Nat
  BY <1>2 DEF Row
<1>. HIDE DEF new
<1>5. ledger'[s.start] = new
  BY DEF new
<1>6. ASSUME NEW p \in DOMAIN ledger \ {s.start}
      PROVE  Before(p, s.start)'
  <2>1. daysFor(ledger[p], s.id).end <= new.start
    <3>1. CASE s.start \in DOMAIN ledger
      <4>1. Before(p, s.start) /\ ledger[s.start].sub = s.id
        BY <1>0, <3>1, KnownRow
      <4>. QED  BY <1>2, <3>1, <4>1 DEF Before
    <3>2. CASE s.start \notin DOMAIN ledger
      BY <1>2, <3>2
    <3>. QED  BY <3>1, <3>2
  <2>2. ledger'[p] = ledger[p]
    BY <1>1
  <2>. QED  BY <1>2, <1>5, <2>1, <2>2 DEF Before, daysFor
<1>7. ASSUME NEW p \in DOMAIN ledger \ {s.start}, NEW q \in DOMAIN ledger \ {s.start}
      PROVE  Before(p, q)' <=> Before(p, q)
  BY <1>1 DEF Before, daysFor
<1>8. (\A p, q \in DOMAIN ledger : p # q => Before(p, q) \/ Before(q, p))'
  <2>1. \A p, q \in DOMAIN ledger : p # q => Before(p, q) \/ Before(q, p)
    BY DEF IInv, Windows
  <2>2. ASSUME NEW p \in DOMAIN ledger', NEW q \in DOMAIN ledger', p # q
        PROVE  Before(p, q)' \/ Before(q, p)'
    <3>. HIDE DEF Before
    <3>1. CASE p = s.start
      <4>1. q \in DOMAIN ledger \ {s.start}
        BY <1>1, <2>2, <3>1
      <4>. QED  BY <1>6, <3>1, <4>1
    <3>2. CASE q = s.start
      <4>1. p \in DOMAIN ledger \ {s.start}
        BY <1>1, <2>2, <3>2
      <4>. QED  BY <1>6, <3>2, <4>1
    <3>3. CASE p # s.start /\ q # s.start
      <4>1. p \in DOMAIN ledger \ {s.start} /\ q \in DOMAIN ledger \ {s.start}
        BY <1>1, <3>3
      <4>. QED  BY <1>7, <2>1, <2>2, <4>1
    <3>. QED  BY <3>1, <3>2, <3>3
  <2>. QED  BY <2>2
<1>9. /\ day(Now') \in Nat /\ day(Now) = day(pass.now) /\ day(Now) <= day(Now')
      /\ pass' = NoPass \/ (pass' # NoPass /\ pass'.sub = s)
  <2>1. clock \in Nat /\ pass.now <= clock
    BY Numbers DEF IInv, Typed, TypeOK, Instants, Listed
  <2>2. pass' = NoPass \/ (pass' # NoPass /\ pass'.sub = s /\ pass'.now = pass.now)
    BY <1>0, <1>1, <1>3 DEF NoPass
  <2>3. Now = pass.now /\ Now' \in {pass.now, clock}
    BY <2>2 DEF Now
  <2>4. Now' \in Nat /\ pass.now <= Now'
    BY <1>3, <2>1, <2>3
  <2>. QED  BY <1>3, <2>2, <2>3, <2>4, DayIs, DayGrows
<1>10. (\A p \in DOMAIN ledger : ledger[p].through <= day(Now) + 1)'
  <2>1. ASSUME NEW p \in DOMAIN ledger' PROVE ledger'[p].through <= day(Now') + 1
    <3>1. CASE p = s.start
      BY <1>2, <1>3, <1>4, <1>5, <1>9, <3>1
    <3>2. CASE p # s.start
      <4>1. p \in DOMAIN ledger /\ ledger'[p] = ledger[p]
        BY <1>1, <2>1, <3>2
      <4>2. ledger[p].through \in Nat /\ ledger[p].through <= day(Now) + 1
        BY <4>1, Rows DEF IInv, Windows
      <4>. QED  BY <1>3, <1>9, <4>1, <4>2
    <3>. QED  BY <3>1, <3>2
  <2>. QED  BY <2>1
<1>11. ASSUME NEW t, t.id = s.id, t.start = s.start, day(t.end) \in Nat, day(s.end) <= day(t.end),
              Fits(t)
       PROVE  Fits(t)'
  <2>1. new.end <= day(t.end)
    BY <1>2, <1>3, <1>4, <1>11
  <2>. HIDE DEF Before
  <2>2. \A p \in DOMAIN ledger' \ {t.start} : Before(p, t.start)'
    BY <1>1, <1>6, <1>11
  <2>3. \A p \in DOMAIN ledger' \ {t.start} :
          IF ledger'[p].sub = t.id THEN ledger'[p].end <= day(t.start)
          ELSE ledger'[p].through <= day(t.end)
    <3>1. \A p \in DOMAIN ledger \ {t.start} :
            IF ledger[p].sub = t.id THEN ledger[p].end <= day(t.start)
            ELSE ledger[p].through <= day(t.end)
      BY <1>11 DEF Fits
    <3>. QED  BY <1>1, <1>11, <3>1
  <2>4. ledger'[t.start].sub = t.id /\ ledger'[t.start].end <= day(t.end)
    BY <1>2, <1>5, <1>11, <2>1
  <2>. QED  BY <2>2, <2>3, <2>4 DEF Fits
<1>12. Fits(s)'
  <2>1. Fits(s)
    BY <1>0 DEF IInv, Windows
  <2>2. day(s.end) <= day(s.end)
    BY <1>3
  <2>. HIDE DEF Fits
  <2>. QED  BY <1>3, <1>11, <2>1, <2>2
<1>13. (\A t \in sub : Fits(t))'
  <2>1. PICK u \in sub : u.id = s.id /\ u.start = s.start
    BY <1>0 DEF StillTheOrgs
  <2>2. sub = {u} /\ u.end \in Nat /\ day(u.end) \in Nat /\ Fits(u)
    BY SubIs
  <2>3. s.end <= u.end
    BY <1>0, <2>1 DEF IInv, Listed
  <2>4. day(s.end) <= day(u.end)
    BY <1>3, <2>2, <2>3, DayGrows
  <2>. HIDE DEF Fits
  <2>5. Fits(u)'
    BY <1>11, <2>1, <2>2, <2>4
  <2>. QED  BY <2>2, <2>5
<1>14. (pass # NoPass => Fits(pass.sub))'
  <2>. HIDE DEF Fits
  <2>. QED  BY <1>9, <1>12
<1>. HIDE DEF Before, Fits
<1>. QED  BY <1>8, <1>10, <1>13, <1>14 DEF Windows

LEMMA StateIInv == IInv /\ State => IInv'
<1>. SUFFICES ASSUME IInv, State PROVE IInv'
  OBVIOUS
<1>. DEFINE s == pass.sub
            new == ledger'[s.start]
<1>1. /\ pass # NoPass /\ StillTheOrgs(s)
      /\ UNCHANGED <<clock, cells, peak, sub, subs, allowance, starts, held>>
      /\ States
  BY StateStates
<1>2. /\ DOMAIN ledger' = DOMAIN ledger \cup {s.start}
      /\ \A p \in DOMAIN ledger \ {s.start} : ledger'[p] = ledger[p]
      /\ Restated(new)
      /\ \/ /\ new.acked = FALSE
            /\ pass' = [pass EXCEPT !.pc = "ingest"]
         \/ /\ s.start \in DOMAIN ledger
            /\ new.own = ledger[s.start].own /\ new.carry = ledger[s.start].carry
            /\ new.acked = ledger[s.start].acked
            /\ pass' = NoPass
  BY <1>1 DEF States
<1>3. /\ new \in Row /\ new.start <= new.through /\ new.through <= new.end
      /\ new.sub = s.id
      /\ new.own \in [Tiers(TierUpTo[new.plan]) -> Nat]
      /\ new.carry \in [Tiers(TierUpTo[new.plan]) -> Nat]
      /\ s.start \in DOMAIN ledger =>
           /\ new.plan = ledger[s.start].plan
           /\ \A k \in Tiers(TierUpTo[new.plan]) :
                new.own[k] >= ledger[s.start].own[k] /\ new.carry[k] >= ledger[s.start].carry[k]
  BY <1>2 DEF Restated
<1>4. /\ pass \in [pc : {"resend", "resent", "state", "ingest", "stated"},
                   sub : Sub, now : Instants]
      /\ s.id <= subs /\ s.start \in starts /\ s.start \in Instants
  BY <1>1, PassIs DEF IInv, Listed
<1>5. new.plan \in Plans
  BY <1>3 DEF Row
<1>. HIDE DEF new
<1>6. ledger'[s.start] = new
  BY DEF new
<1>7. pass' = NoPass \/ /\ pass' \in [pc : {"ingest"}, sub : Sub, now : Instants]
                        /\ pass' # NoPass /\ pass'.sub = s /\ pass'.now = pass.now
                        /\ pass'.pc = "ingest"
  BY <1>2, <1>4 DEF NoPass
<1>8. TypeOK'
  <2>1. (pass = NoPass \/ pass \in [pc : {"resend", "resent", "state", "ingest", "stated"},
                                    sub : Sub, now : Instants])'
    BY <1>7
  <2>2. (DOMAIN ledger \subseteq starts)'
    BY <1>1, <1>2, <1>4 DEF IInv, Typed, TypeOK
  <2>3. (\A p \in DOMAIN ledger :
           /\ ledger[p] \in Row
           /\ ledger[p].start <= ledger[p].through /\ ledger[p].through <= ledger[p].end)'
    BY <1>2, <1>3, <1>6 DEF IInv, Typed, TypeOK
  <2>. QED  BY <1>1, <2>1, <2>2, <2>3 DEF IInv, Typed, TypeOK
<1>9. Typed'
  <2>1. (\A p \in DOMAIN ledger : /\ ledger[p].own \in [Tiers(TierUpTo[ledger[p].plan]) -> Nat]
                                  /\ ledger[p].carry \in [Tiers(TierUpTo[ledger[p].plan]) -> Nat])'
    BY <1>2, <1>3, <1>6 DEF IInv, Typed
  <2>. QED  BY <1>8, <2>1 DEF Typed
<1>10. Live'
  <2>1. (\A p \in DOMAIN ledger : ledger[p].sub <= subs)'
    BY <1>1, <1>2, <1>3, <1>4, <1>6 DEF IInv, Live
  <2>. QED  BY <1>1, <2>1 DEF IInv, Live
<1>11. Listed'
  BY <1>1, <1>7 DEF IInv, Listed
<1>12. Sending'
  BY <1>2, <1>7 DEF Sending
<1>13. Windows'
  BY <1>1, StateWindows
<1>14. LedgerNeverUnderstates'
  <2>1. \A p \in DOMAIN ledger \ {s.start} : stated(ledger'[p]) = stated(ledger[p])
    BY <1>2
  <2>2. stated(ledger'[s.start]) = stated(new)
    BY <1>6
  <2>3. /\ DOMAIN stated(new) = Tiers(TierUpTo[new.plan])
        /\ \A k \in Tiers(TierUpTo[new.plan]) : /\ stated(new)[k] = new.own[k] + new.carry[k]
                                                /\ stated(new)[k] \in Nat
    BY <1>3, StatedIs
  <2>4. held \in [Instants -> Counts]
    BY DEF IInv, Typed, TypeOK
  <2>5. ASSUME NEW k \in Tiers(TierUpTo[new.plan])
        PROVE  /\ held[s.start][k] <= stated(new)[k]
               /\ new.acked => held[s.start][k] = stated(new)[k]
    <3>1. k \in 1 .. MaxTiers /\ held[s.start][k] \in Nat
      BY <1>4, <1>5, <2>4, TiersFit DEF Counts
    <3>2. CASE s.start \notin DOMAIN ledger
      <4>1. held[s.start][k] = 0
        BY <1>4, <3>1, <3>2 DEF IInv, LedgerNeverUnderstates
      <4>2. new.acked = FALSE
        BY <1>2, <3>2
      <4>. QED  BY <2>3, <4>1, <4>2
    <3>3. CASE s.start \in DOMAIN ledger
      <4>. DEFINE old == ledger[s.start]
      <4>1. /\ old.plan = new.plan
            /\ old.own \in [Tiers(TierUpTo[new.plan]) -> Nat]
            /\ old.carry \in [Tiers(TierUpTo[new.plan]) -> Nat]
        BY <1>3, <3>3, Rows
      <4>2. /\ DOMAIN stated(old) = Tiers(TierUpTo[new.plan])
            /\ stated(old)[k] = old.own[k] + old.carry[k]
            /\ stated(old)[k] \in Nat
        <5>. HIDE DEF old
        <5>. QED  BY <4>1, StatedIs
      <4>3. held[s.start][k] <= stated(old)[k] /\ (old.acked => held[s.start][k] = stated(old)[k])
        BY <1>4, <3>3, <4>2 DEF IInv, LedgerNeverUnderstates
      <4>4. new.own[k] \in Nat /\ new.carry[k] \in Nat /\ old.own[k] \in Nat /\ old.carry[k] \in Nat
            /\ new.own[k] >= old.own[k] /\ new.carry[k] >= old.carry[k]
        BY <1>3, <3>3, <4>1
      <4>5. held[s.start][k] <= stated(new)[k]
        <5>1. stated(new)[k] = new.own[k] + new.carry[k]
          BY <2>3
        <5>. HIDE DEF old
        <5>. QED  BY <3>1, <4>2, <4>3, <4>4, <5>1
      <4>6. new.acked => held[s.start][k] = stated(new)[k]
        <5>1. CASE new.acked = FALSE
          BY <5>1
        <5>2. CASE new.own = old.own /\ new.carry = old.carry /\ new.acked = old.acked
          <6>1. stated(new)[k] = stated(old)[k]
            BY <2>3, <4>2, <5>2
          <6>. QED  BY <4>3, <5>2, <6>1
        <5>. QED  BY <1>2, <5>1, <5>2
      <4>. QED  BY <4>5, <4>6
    <3>. QED  BY <3>2, <3>3
  <2>6. ASSUME NEW p \in DOMAIN ledger \ {s.start}, NEW k \in DOMAIN stated(ledger[p])
        PROVE  /\ held[p][k] <= stated(ledger[p])[k]
               /\ ledger[p].acked => held[p][k] = stated(ledger[p])[k]
    BY Rows DEF IInv, LedgerNeverUnderstates
  <2>7. \A p \in Instants : p \notin DOMAIN ledger => \A k \in 1 .. MaxTiers : held[p][k] = 0
    BY DEF IInv, LedgerNeverUnderstates
  <2>8. ASSUME NEW p \in DOMAIN ledger', NEW k \in DOMAIN stated(ledger'[p])
        PROVE  /\ held[p][k] <= stated(ledger'[p])[k]
               /\ ledger'[p].acked => held[p][k] = stated(ledger'[p])[k]
    <3>1. CASE p = s.start
      BY <1>6, <2>2, <2>3, <2>5, <2>8, <3>1
    <3>2. CASE p # s.start
      <4>1. p \in DOMAIN ledger \ {s.start} /\ ledger'[p] = ledger[p]
        BY <1>2, <2>8, <3>2
      <4>. QED  BY <2>1, <2>6, <2>8, <4>1
    <3>. QED  BY <3>1, <3>2
  <2>9. \A p \in Instants : p \notin DOMAIN ledger' => \A k \in 1 .. MaxTiers : held[p][k] = 0
    BY <1>2, <2>7
  <2>10. \A p : stated(ledger[p])' = stated(ledger'[p])
    BY DEF stated, sumEach
  <2>. HIDE DEF stated
  <2>. QED  BY <1>1, <2>8, <2>9, <2>10 DEF LedgerNeverUnderstates
<1>. QED  BY <1>9, <1>10, <1>11, <1>12, <1>13, <1>14 DEF IInv
-----------------------------------------------------------------------------
LEMMA StutterIInv == IInv /\ UNCHANGED vars => IInv'
<1>. SUFFICES ASSUME IInv, UNCHANGED vars PROVE IInv'
  OBVIOUS
<1>1. UNCHANGED <<clock, cells, sub, subs, allowance, ledger, held, pass, peak, starts>>
  BY DEF vars
<1>2. TypeOK'
  BY <1>1 DEF IInv, Typed, TypeOK
<1>3. Live' /\ Listed'
  BY <1>1 DEF IInv, Live, Listed
<1>4. \A s \in sub' : Fits(s)
  BY <1>1 DEF IInv, Windows
<1>5. clock <= clock'
  BY <1>1, Numbers DEF IInv, Typed, TypeOK, Instants
<1>. QED  BY <1>1, <1>2, <1>3, <1>4, <1>5, Beside

LEMMA NextIInv == IInv /\ [Next]_vars => IInv'
<1>1. IInv /\ World => IInv'
  BY TickIInv, RecountIInv, SetAllowanceIInv, SubscribeIInv, CancelIInv, RenewIInv, PayOffIInv,
     ChangePlanIInv DEF World
<1>2. IInv /\ Pass => IInv'
  BY BeginIInv, StateIInv, SupersededIInv, IngestIInv, AckIInv, FailIInv DEF Pass
<1>. QED  BY <1>1, <1>2, StutterIInv DEF Next

(* The windows of the periods stay in order and their rows bound what the provider
   holds, whatever the pass and the world around it do.                          *)
THEOREM MeterKept == Spec => []IInv
BY InitIInv, NextIInv, PTL DEF Spec

(* However statements are lost, sent again or cut short, the ledger never says less
   than a meter of the provider holds, and an acknowledged row says what it holds. *)
THEOREM MeterNeverUnderstates == Spec => []Inv
<1>1. IInv => Inv
  BY DEF IInv, Typed, Inv
<1>. QED  BY <1>1, MeterKept, PTL

(* No UTC day is in the windows of two periods, across renewals, re-subscriptions and
   plan changes.                                                                   *)
THEOREM MeterStatesDaysOnce == Spec => []EachDayStatedOnce
<1>1. IInv => EachDayStatedOnce
  <2>. SUFFICES ASSUME IInv, NEW p \in DOMAIN ledger, NEW q \in DOMAIN ledger, p # q
                PROVE  LET a == daysFor(ledger[p], ledger[q].sub)
                           b == daysFor(ledger[q], ledger[p].sub)
                       IN  {} = (a.start .. a.end - 1) \cap (b.start .. b.end - 1)
    BY DEF EachDayStatedOnce
  <2>. DEFINE a == daysFor(ledger[p], ledger[q].sub)
              b == daysFor(ledger[q], ledger[p].sub)
  <2>1. Before(p, q) \/ Before(q, p)
    BY DEF IInv, Windows
  <2>2. /\ a.start = ledger[p].start /\ a.end \in Nat /\ b.start = ledger[q].start /\ b.end \in Nat
        /\ ledger[p].start \in Nat /\ ledger[q].start \in Nat
    BY DaysFor, Rows
  <2>3. a.end <= b.start \/ b.end <= a.start
    BY <2>1, <2>2 DEF Before
  <2>. HIDE DEF a, b
  <2>4. {} = (a.start .. a.end - 1) \cap (b.start .. b.end - 1)
    BY <2>2, <2>3
  <2>. QED  BY <2>4 DEF a, b
<1>. QED  BY <1>1, MeterKept, PTL

(* What a row states never goes down, under whatever recounts and changes of the deal:
   a statement is the larger of the row's and the new count, tier by tier.            *)
THEOREM MeterNeverDown == Spec => StatedNeverDown
<1>. DEFINE A == \A p \in DOMAIN ledger :
       /\ p \in DOMAIN ledger'
       /\ ledger'[p].start = ledger[p].start
       /\ ledger'[p].plan = ledger[p].plan
       /\ ledger'[p].end >= ledger[p].end /\ ledger'[p].through >= ledger[p].through
       /\ \A k \in DOMAIN ledger[p].own : /\ ledger'[p].own[k] >= ledger[p].own[k]
                                          /\ ledger'[p].carry[k] >= ledger[p].carry[k]
<1>1. ASSUME IInv, NEW p \in DOMAIN ledger
      PROVE  /\ ledger[p].end >= ledger[p].end /\ ledger[p].through >= ledger[p].through
             /\ \A k \in DOMAIN ledger[p].own : /\ ledger[p].own[k] >= ledger[p].own[k]
                                                /\ ledger[p].carry[k] >= ledger[p].carry[k]
  <2>1. /\ ledger[p].end \in Nat /\ ledger[p].through \in Nat
        /\ ledger[p].own \in [Tiers(TierUpTo[ledger[p].plan]) -> Nat]
        /\ ledger[p].carry \in [Tiers(TierUpTo[ledger[p].plan]) -> Nat]
    BY <1>1, Rows
  <2>. QED  BY <2>1
<1>2. IInv /\ UNCHANGED ledger => A
  BY <1>1
<1>3. IInv /\ State => A
  <2>. SUFFICES ASSUME IInv, State, NEW p \in DOMAIN ledger
                PROVE  /\ p \in DOMAIN ledger'
                       /\ ledger'[p].start = ledger[p].start
                       /\ ledger'[p].plan = ledger[p].plan
                       /\ ledger'[p].end >= ledger[p].end /\ ledger'[p].through >= ledger[p].through
                       /\ \A k \in DOMAIN ledger[p].own :
                            /\ ledger'[p].own[k] >= ledger[p].own[k]
                            /\ ledger'[p].carry[k] >= ledger[p].carry[k]
    OBVIOUS
  <2>1. States
    BY StateStates
  <2>2. CASE p = pass.sub.start
    BY <2>1, <2>2, Rows DEF States, Restated
  <2>3. CASE p # pass.sub.start
    <3>1. p \in DOMAIN ledger' /\ ledger'[p] = ledger[p]
      BY <2>1, <2>3 DEF States
    <3>. QED  BY <1>1, <3>1
  <2>. QED  BY <2>2, <2>3
<1>4. IInv /\ ack => A
  <2>. SUFFICES ASSUME IInv, ack, NEW p \in DOMAIN ledger
                PROVE  /\ p \in DOMAIN ledger'
                       /\ ledger'[p].start = ledger[p].start
                       /\ ledger'[p].plan = ledger[p].plan
                       /\ ledger'[p].end = ledger[p].end /\ ledger'[p].through = ledger[p].through
                       /\ ledger'[p].own = ledger[p].own /\ ledger'[p].carry = ledger[p].carry
    BY <1>1
  <2>1. ledger[p] \in Row
    BY DEF IInv, Typed, TypeOK
  <2>2. ledger' = [ledger EXCEPT ![pass.sub.start].acked = TRUE]
    BY DEF ack
  <2>. QED  BY <2>1, <2>2 DEF Row
<1>5. IInv /\ [Next]_vars => [A]_vars
  <2>1. IInv /\ Next => A
    <3>1. World => UNCHANGED ledger
      BY DEF World, Tick, Recount, SetAllowance, Subscribe, Cancel, Renew, PayOff, ChangePlan
    <3>2. Begin \/ Superseded \/ Ingest \/ Fail => UNCHANGED ledger
      BY DEF Begin, Superseded, Ingest, Fail
    <3>. HIDE DEF A
    <3>. QED  BY <1>2, <1>3, <1>4, <3>1, <3>2 DEF Next, Pass
  <2>. QED  BY <2>1
<1>. QED  BY <1>5, MeterKept, PTL DEF Spec, StatedNeverDown
-----------------------------------------------------------------------------
(* Split is right about every total, allowance and list of bounds (Split of split.go):
   what it puts into a tier is the number of events that fall in it.                  *)
THEOREM TiersCount ==
  ASSUME NEW total \in Nat, NEW free \in Nat, NEW upTo \in Seq(Nat), NEW k \in Tiers(upTo)
  PROVE  Split(total, free, upTo)[k] = Cardinality({i \in 0 .. total - 1 : FallsIn(i, k, free, upTo)})
<1>. DEFINE low == IF k = 1 THEN 0 ELSE upTo[k - 1]
            from == Larger(low, free)
            until == IF k <= Len(upTo) THEN Smaller(total, upTo[k]) ELSE total
            S == {i \in 0 .. total - 1 : FallsIn(i, k, free, upTo)}
<1>1. Len(upTo) \in Nat /\ k \in 1 .. Len(upTo) + 1 /\ \A j \in 1 .. Len(upTo) : upTo[j] \in Nat
  BY DEF Tiers
<1>2. low \in Nat
  BY <1>1
<1>3. from \in Nat /\ low <= from /\ free <= from /\ (from = low \/ from = free)
  <2>. HIDE DEF low
  <2>. QED  BY <1>2 DEF Larger
<1>4. until \in Nat /\ until <= total /\ (k <= Len(upTo) => until <= upTo[k])
      /\ (until = total \/ (k <= Len(upTo) /\ until = upTo[k]))
  <2>1. CASE k <= Len(upTo)
    <3>1. upTo[k] \in Nat /\ until = Smaller(total, upTo[k])
      BY <1>1, <2>1
    <3>. QED  BY <2>1, <3>1 DEF Smaller
  <2>2. CASE ~(k <= Len(upTo))
    BY <2>2
  <2>. QED  BY <2>1, <2>2
<1>5. Split(total, free, upTo)[k] = Larger(0, until - from)
  BY DEF Split
<1>6. ASSUME NEW i \in Nat
      PROVE  (i < total /\ FallsIn(i, k, free, upTo)) <=> (from <= i /\ i < until)
  <2>1. FallsIn(i, k, free, upTo) <=> /\ i >= free /\ i >= low
                                      /\ k = Len(upTo) + 1 \/ i < upTo[k]
    BY <1>1 DEF FallsIn
  <2>2. (i >= free /\ i >= low) <=> from <= i
    <3>. HIDE DEF low, from
    <3>. QED  BY <1>2, <1>3
  <2>3. (i < total /\ (k = Len(upTo) + 1 \/ i < upTo[k])) <=> i < until
    <3>1. CASE k = Len(upTo) + 1
      BY <1>1, <3>1
    <3>2. CASE k \in 1 .. Len(upTo)
      <4>1. upTo[k] \in Nat /\ k # Len(upTo) + 1 /\ until = Smaller(total, upTo[k])
        BY <1>1, <3>2
      <4>. QED  BY <4>1 DEF Smaller
    <3>. QED  BY <1>1, <3>1, <3>2
  <2>. HIDE DEF low, from, until
  <2>. QED  BY <2>1, <2>2, <2>3
<1>. HIDE DEF low, from, until
<1>7. S = from .. until - 1
  <2>1. \A i \in S : i \in from .. until - 1
    <3>. SUFFICES ASSUME NEW i \in Nat, i < total, FallsIn(i, k, free, upTo)
                  PROVE  i \in from .. until - 1
      OBVIOUS
    <3>. QED  BY <1>3, <1>4, <1>6
  <2>2. \A i \in from .. until - 1 : i \in S
    <3>. SUFFICES ASSUME NEW i \in from .. until - 1 PROVE i \in S
      OBVIOUS
    <3>1. i \in Nat /\ from <= i /\ i < until
      BY <1>3, <1>4
    <3>. QED  BY <1>6, <3>1
  <2>. QED  BY <2>1, <2>2
<1>8. Cardinality(from .. until - 1) = IF from > until - 1 THEN 0 ELSE until - 1 - from + 1
  <2>1. from \in Int /\ until - 1 \in Int
    BY <1>3, <1>4
  <2>. QED  BY <2>1, FS_Interval
<1>. HIDE DEF S
<1>9. Larger(0, until - from) = Cardinality(S)
  BY <1>3, <1>4, <1>7, <1>8 DEF Larger
<1>. QED  BY <1>5, <1>9 DEF S

(* So it is about whatever inputs it is tried on. *)
THEOREM SplitCountsTiers == Spec => []TiersCountTheirEvents
<1>1. TiersCountTheirEvents
  <2>1. \A in \in Inputs : in.total \in Nat /\ in.free \in Nat /\ in.upTo \in Seq(Nat)
    BY MeterAssumption
  <2>. QED  BY <2>1, TiersCount DEF TiersCountTheirEvents
<1>. QED  BY <1>1, PTL

(* While a plan's bounds rise, an event past the allowance falls in one tier and no
   other, and one within it in none: none is billed twice, none that is owed is missed. *)
THEOREM TiersPartition ==
  ASSUME NEW i \in Nat, NEW free \in Nat, NEW upTo \in Seq(Nat), Rising(upTo)
  PROVE  /\ free <= i => \E k \in Tiers(upTo) : FallsIn(i, k, free, upTo)
         /\ \A k \in Tiers(upTo) :
              FallsIn(i, k, free, upTo) =>
                free <= i /\ \A j \in Tiers(upTo) : FallsIn(i, j, free, upTo) => j = k
<1>1. Len(upTo) \in Nat /\ DOMAIN upTo = 1 .. Len(upTo) /\ \A j \in 1 .. Len(upTo) : upTo[j] \in Nat
  OBVIOUS
<1>. DEFINE Above == {k \in Tiers(upTo) : k = Len(upTo) + 1 \/ i < upTo[k]}
<1>2. Above \subseteq Nat /\ Len(upTo) + 1 \in Above
  BY <1>1 DEF Tiers
<1>3. PICK k \in Above : \A m \in Above : k <= m
  <2>. HIDE DEF Above
  <2>. QED  BY <1>2, Least
<1>4. k \in 1 .. Len(upTo) + 1 /\ (k = Len(upTo) + 1 \/ i < upTo[k])
  BY <1>3 DEF Tiers
<1>5. k = 1 \/ i >= upTo[k - 1]
  <2>. SUFFICES ASSUME k # 1 PROVE i >= upTo[k - 1]
    OBVIOUS
  <2>1. k - 1 \in 1 .. Len(upTo) /\ k - 1 < k /\ upTo[k - 1] \in Nat
    BY <1>1, <1>4
  <2>2. k - 1 \notin Above
    BY <1>2, <1>3, <2>1
  <2>3. ~(i < upTo[k - 1])
    BY <2>1, <2>2, <1>1 DEF Tiers
  <2>. QED  BY <2>1, <2>3
<1>6. free <= i => FallsIn(i, k, free, upTo)
  BY <1>4, <1>5 DEF FallsIn
<1>7. ASSUME NEW a \in Tiers(upTo), NEW b \in Tiers(upTo), a < b,
             FallsIn(i, a, free, upTo), FallsIn(i, b, free, upTo)
      PROVE  FALSE
  <2>1. a \in 1 .. Len(upTo) /\ b - 1 \in 1 .. Len(upTo) /\ a <= b - 1
    BY <1>1, <1>7 DEF Tiers
  <2>2. i < upTo[a] /\ i >= upTo[b - 1]
    BY <1>7, <2>1, <1>1 DEF FallsIn, Tiers
  <2>3. upTo[a] \in Nat /\ upTo[b - 1] \in Nat
    BY <1>1, <2>1
  <2>4. upTo[a] <= upTo[b - 1]
    <3>1. CASE a = b - 1
      BY <3>1, <2>3
    <3>2. CASE a < b - 1
      <4>1. a \in DOMAIN upTo /\ b - 1 \in DOMAIN upTo
        BY <2>1
      <4>2. upTo[a] < upTo[b - 1]
        BY <3>2, <4>1 DEF Rising
      <4>. QED  BY <2>3, <4>2
    <3>. QED  BY <2>1, <3>1, <3>2
  <2>. QED  BY <2>2, <2>3, <2>4
<1>8. ASSUME NEW a \in Tiers(upTo), NEW b \in Tiers(upTo),
             FallsIn(i, a, free, upTo), FallsIn(i, b, free, upTo)
      PROVE  a = b
  <2>1. a \in Nat /\ b \in Nat
    BY <1>1 DEF Tiers
  <2>2. ~(a < b) /\ ~(b < a)
    BY <1>7, <1>8
  <2>. QED  BY <2>1, <2>2
<1>9. \A a \in Tiers(upTo) : FallsIn(i, a, free, upTo) => free <= i
  BY DEF FallsIn
<1>. QED  BY <1>3, <1>6, <1>8, <1>9
-----------------------------------------------------------------------------
(* Sums.  A set of finite sets has one from which no element can be taken. *)
LEMMA Smallest ==
  ASSUME NEW S, IsFiniteSet(S), NEW Bad \in SUBSET SUBSET S, Bad # {}
  PROVE  \E s \in Bad : \A x \in s : s \ {x} \notin Bad
<1>. DEFINE Sizes == {Cardinality(s) : s \in Bad}
<1>1. \A s \in Bad : IsFiniteSet(s) /\ Cardinality(s) \in Nat
  BY FS_Subset, FS_CardinalityType
<1>2. Sizes \subseteq Nat /\ Sizes # {}
  BY <1>1
<1>3. PICK n \in Sizes : \A m \in Sizes : n <= m
  <2>. HIDE DEF Sizes
  <2>. QED  BY <1>2, Least
<1>4. PICK s \in Bad : n = Cardinality(s)
  BY <1>3
<1>5. ASSUME NEW x \in s, s \ {x} \in Bad PROVE FALSE
  <2>1. Cardinality(s \ {x}) = Cardinality(s) - 1
    BY <1>1, FS_RemoveElement
  <2>2. n <= Cardinality(s \ {x}) /\ n \in Nat
    BY <1>2, <1>3, <1>5
  <2>. QED  BY <1>4, <2>1, <2>2
<1>. QED  BY <1>5

(* The sums over the subsets of a set. *)
Sums(g, f, S) ==
  /\ SumFunctionOnSet(f, S) = g[S] /\ g[{}] = 0
  /\ \A s \in SUBSET S : g[s] \in Nat
  /\ \A s \in SUBSET S : \A x \in s : g[s] = f[x] + g[s \ {x}]

(* Whichever element is taken first, they are the same. *)
LEMMA SumsExist ==
  ASSUME NEW f, NEW S, IsFiniteSet(S), \A x \in S : f[x] \in Nat
  PROVE  \E g : Sums(g, f, S)
<1>. DEFINE g == CHOOSE h : Follows(h, f, SUBSET S)
<1>1. Follows(g, f, SUBSET S) /\ SumFunctionOnSet(f, S) = g[S]
  BY SumExists, SumIs
<1>. HIDE DEF g
<1>2. /\ \A s \in SUBSET S : s # {} => pick(s) \in s /\ g[s] = f[pick(s)] + g[s \ {pick(s)}]
      /\ g[{}] = 0
  <2>1. \A s \in SUBSET S : g[s] = IF s = {} THEN 0 ELSE f[pick(s)] + g[s \ {pick(s)}]
    BY <1>1 DEF Follows
  <2>2. \A s \in SUBSET S : s # {} => pick(s) \in s
    BY DEF pick
  <2>. QED  BY <2>1, <2>2
<1>3. \A s \in SUBSET S : g[s] \in Nat
  <2>. DEFINE Bad == {s \in SUBSET S : g[s] \notin Nat}
  <2>1. SUFFICES ASSUME Bad # {} PROVE FALSE
    OBVIOUS
  <2>2. PICK s \in Bad : \A x \in s : s \ {x} \notin Bad
    <3>1. Bad \in SUBSET SUBSET S
      OBVIOUS
    <3>. HIDE DEF Bad
    <3>. QED  BY <2>1, <3>1, Smallest
  <2>3. s # {}
    BY <1>2
  <2>4. /\ s \in SUBSET S /\ g[s] \notin Nat
        /\ pick(s) \in s /\ g[s] = f[pick(s)] + g[s \ {pick(s)}]
    BY <1>2, <2>2, <2>3
  <2>5. f[pick(s)] \in Nat /\ g[s \ {pick(s)}] \in Nat
    BY <2>2, <2>4
  <2>. QED  BY <2>4, <2>5
<1>4. \A s \in SUBSET S : \A x \in s : g[s] = f[x] + g[s \ {x}]
  <2>. DEFINE Bad == {s \in SUBSET S : ~ \A x \in s : g[s] = f[x] + g[s \ {x}]}
  <2>1. SUFFICES ASSUME Bad # {} PROVE FALSE
    OBVIOUS
  <2>2. PICK s \in Bad : \A x \in s : s \ {x} \notin Bad
    <3>1. Bad \in SUBSET SUBSET S
      OBVIOUS
    <3>. HIDE DEF Bad
    <3>. QED  BY <2>1, <3>1, Smallest
  <2>3. PICK x \in s : g[s] # f[x] + g[s \ {x}]
    BY <2>2
  <2>. DEFINE p == pick(s)
  <2>4. p \in s /\ g[s] = f[p] + g[s \ {p}] /\ p # x /\ s \in SUBSET S
    BY <1>2, <2>2, <2>3
  <2>. HIDE DEF p
  <2>5. g[s \ {p}] = f[x] + g[(s \ {p}) \ {x}]
    BY <2>2, <2>4
  <2>6. g[s \ {x}] = f[p] + g[(s \ {x}) \ {p}]
    BY <2>2, <2>4
  <2>7. (s \ {x}) \ {p} = (s \ {p}) \ {x}
    OBVIOUS
  <2>8. f[p] \in Nat /\ f[x] \in Nat /\ g[(s \ {p}) \ {x}] \in Nat
    BY <1>3, <2>4
  <2>9. g[s] = f[p] + (f[x] + g[(s \ {p}) \ {x}]) /\ g[s \ {x}] = f[p] + g[(s \ {p}) \ {x}]
    BY <2>4, <2>5, <2>6, <2>7
  <2>. HIDE DEF Bad
  <2>. QED  BY <2>3, <2>8, <2>9
<1>. QED  BY <1>1, <1>2, <1>3, <1>4 DEF Sums

(* Nothing sums to nothing, and an element adds what it is given. *)
LEMMA SumEmpty ==
  ASSUME NEW f
  PROVE  SumFunctionOnSet(f, {}) = 0
<1>1. IsFiniteSet({})
  BY FS_EmptySet
<1>2. PICK g : Sums(g, f, {})
  BY <1>1, SumsExist
<1>. QED  BY <1>2 DEF Sums

LEMMA SumTakes ==
  ASSUME NEW f, NEW S, IsFiniteSet(S), \A x \in S : f[x] \in Nat, NEW x \in S
  PROVE  /\ SumFunctionOnSet(f, S) = f[x] + SumFunctionOnSet(f, S \ {x})
         /\ SumFunctionOnSet(f, S) \in Nat /\ SumFunctionOnSet(f, S \ {x}) \in Nat
         /\ f[x] \in Nat
<1>. DEFINE T == S \ {x}
<1>1. IsFiniteSet(T) /\ T \in SUBSET S
  BY FS_Subset
<1>2. PICK g : Sums(g, f, S)
  BY SumsExist
<1>3. PICK h : Sums(h, f, T)
  BY <1>1, SumsExist
<1>. HIDE DEF T
<1>4. h[T] = g[T]
  <2>. DEFINE Bad == {s \in SUBSET T : h[s] # g[s]}
  <2>1. SUFFICES ASSUME Bad # {} PROVE FALSE
    OBVIOUS
  <2>2. PICK s \in Bad : \A y \in s : s \ {y} \notin Bad
    <3>1. Bad \in SUBSET SUBSET T
      OBVIOUS
    <3>. HIDE DEF Bad
    <3>. QED  BY <1>1, <2>1, <3>1, Smallest
  <2>3. s # {}
    BY <1>2, <1>3, <2>2 DEF Sums
  <2>4. PICK y \in s : TRUE
    BY <2>3
  <2>5. h[s \ {y}] = g[s \ {y}]
    BY <2>2, <2>4
  <2>6. h[s] = f[y] + h[s \ {y}] /\ g[s] = f[y] + g[s \ {y}]
    BY <1>1, <1>2, <1>3, <2>2, <2>4 DEF Sums
  <2>. QED  BY <2>2, <2>5, <2>6
<1>5. SumFunctionOnSet(f, S) = f[x] + g[T] /\ SumFunctionOnSet(f, T) = g[T]
  BY <1>2, <1>3, <1>4 DEF Sums, T
<1>6. SumFunctionOnSet(f, S) \in Nat /\ SumFunctionOnSet(f, T) \in Nat
  BY <1>1, SumType
<1>. QED  BY <1>5, <1>6 DEF T

(* More elements, and more for each, make no smaller sum. *)
LEMMA SumGrows ==
  ASSUME NEW f, NEW g, NEW S, IsFiniteSet(S), NEW T \in SUBSET S,
         \A x \in S : g[x] \in Nat, \A x \in T : f[x] \in Nat /\ f[x] <= g[x]
  PROVE  /\ SumFunctionOnSet(f, T) \in Nat /\ SumFunctionOnSet(g, S) \in Nat
         /\ SumFunctionOnSet(f, T) <= SumFunctionOnSet(g, S)
<1>1. \A s \in SUBSET S : IsFiniteSet(s) /\ IsFiniteSet(s \cap T)
  BY FS_Subset
<1>. DEFINE Bad == {s \in SUBSET S : ~(SumFunctionOnSet(f, s \cap T) <= SumFunctionOnSet(g, s))}
<1>2. Bad = {}
  <2>1. SUFFICES ASSUME Bad # {} PROVE FALSE
    OBVIOUS
  <2>2. PICK s \in Bad : \A x \in s : s \ {x} \notin Bad
    <3>1. Bad \in SUBSET SUBSET S
      OBVIOUS
    <3>. HIDE DEF Bad
    <3>. QED  BY <2>1, <3>1, Smallest
  <2>3. s \in SUBSET S /\ ~(SumFunctionOnSet(f, s \cap T) <= SumFunctionOnSet(g, s))
    BY <2>2
  <2>4. s # {}
    <3>1. {} \cap T = {}
      OBVIOUS
    <3>. QED  BY <2>3, <3>1, SumEmpty
  <2>5. PICK x \in s : TRUE
    BY <2>4
  <2>6. SumFunctionOnSet(f, (s \ {x}) \cap T) <= SumFunctionOnSet(g, s \ {x})
    BY <2>2, <2>5
  <2>. HIDE DEF Bad
  <2>7. /\ SumFunctionOnSet(g, s) = g[x] + SumFunctionOnSet(g, s \ {x})
        /\ SumFunctionOnSet(g, s \ {x}) \in Nat /\ g[x] \in Nat
    BY <1>1, <2>3, <2>5, SumTakes
  <2>8. CASE x \in T
    <3>1. (s \cap T) \ {x} = (s \ {x}) \cap T /\ x \in s \cap T
      BY <2>5, <2>8
    <3>2. /\ SumFunctionOnSet(f, s \cap T) = f[x] + SumFunctionOnSet(f, (s \cap T) \ {x})
          /\ SumFunctionOnSet(f, (s \cap T) \ {x}) \in Nat
      BY <1>1, <2>3, <3>1, SumTakes
    <3>3. f[x] \in Nat /\ f[x] <= g[x]
      BY <2>8
    <3>. QED  BY <2>3, <2>6, <2>7, <3>1, <3>2, <3>3
  <2>9. CASE x \notin T
    <3>1. s \cap T = (s \ {x}) \cap T
      BY <2>9
    <3>2. SumFunctionOnSet(f, s \cap T) \in Nat
      BY <1>1, <2>3, SumType
    <3>. QED  BY <2>3, <2>6, <2>7, <3>1, <3>2
  <2>. QED  BY <2>8, <2>9
<1>3. S \cap T = T /\ S \in SUBSET S
  OBVIOUS
<1>4. SumFunctionOnSet(f, T) <= SumFunctionOnSet(g, S)
  BY <1>2, <1>3
<1>5. SumFunctionOnSet(f, T) \in Nat /\ SumFunctionOnSet(g, S) \in Nat
  BY <1>1, <1>3, SumType
<1>. QED  BY <1>4, <1>5

(* What two are given of each element is what the two are given of all. *)
LEMMA SumAdds ==
  ASSUME NEW f, NEW g, NEW h, NEW S, IsFiniteSet(S),
         \A x \in S : f[x] \in Nat /\ g[x] \in Nat /\ h[x] = f[x] + g[x]
  PROVE  SumFunctionOnSet(h, S) = SumFunctionOnSet(f, S) + SumFunctionOnSet(g, S)
<1>1. \A s \in SUBSET S : IsFiniteSet(s)
  BY FS_Subset
<1>2. \A x \in S : h[x] \in Nat
  OBVIOUS
<1>. DEFINE Bad == {s \in SUBSET S : SumFunctionOnSet(h, s) #
                                       SumFunctionOnSet(f, s) + SumFunctionOnSet(g, s)}
<1>3. Bad = {}
  <2>1. SUFFICES ASSUME Bad # {} PROVE FALSE
    OBVIOUS
  <2>2. PICK s \in Bad : \A x \in s : s \ {x} \notin Bad
    <3>1. Bad \in SUBSET SUBSET S
      OBVIOUS
    <3>. HIDE DEF Bad
    <3>. QED  BY <2>1, <3>1, Smallest
  <2>3. /\ s \in SUBSET S
        /\ SumFunctionOnSet(h, s) # SumFunctionOnSet(f, s) + SumFunctionOnSet(g, s)
    BY <2>2
  <2>4. s # {}
    BY <2>3, SumEmpty
  <2>5. PICK x \in s : TRUE
    BY <2>4
  <2>6. SumFunctionOnSet(h, s \ {x}) = SumFunctionOnSet(f, s \ {x}) + SumFunctionOnSet(g, s \ {x})
    BY <2>2, <2>5
  <2>. HIDE DEF Bad
  <2>7. /\ SumFunctionOnSet(f, s) = f[x] + SumFunctionOnSet(f, s \ {x})
        /\ SumFunctionOnSet(f, s \ {x}) \in Nat
    BY <1>1, <2>3, <2>5, SumTakes
  <2>8. /\ SumFunctionOnSet(g, s) = g[x] + SumFunctionOnSet(g, s \ {x})
        /\ SumFunctionOnSet(g, s \ {x}) \in Nat
    BY <1>1, <2>3, <2>5, SumTakes
  <2>9. SumFunctionOnSet(h, s) = h[x] + SumFunctionOnSet(h, s \ {x})
    BY <1>1, <1>2, <2>3, <2>5, SumTakes
  <2>10. f[x] \in Nat /\ g[x] \in Nat /\ h[x] = f[x] + g[x]
    BY <2>3, <2>5
  <2>. QED  BY <2>3, <2>6, <2>7, <2>8, <2>9, <2>10
<1>. QED  BY <1>3

(* The sum over two sets that share nothing is the sum of their sums. *)
LEMMA SumApart ==
  ASSUME NEW f, NEW S, NEW T, IsFiniteSet(S), IsFiniteSet(T), S \cap T = {},
         \A x \in S \cup T : f[x] \in Nat
  PROVE  SumFunctionOnSet(f, S \cup T) = SumFunctionOnSet(f, S) + SumFunctionOnSet(f, T)
<1>1. \A s \in SUBSET S : IsFiniteSet(s) /\ IsFiniteSet(s \cup T)
  BY FS_Subset, FS_Union
<1>. DEFINE Bad == {s \in SUBSET S : SumFunctionOnSet(f, s \cup T) #
                                       SumFunctionOnSet(f, s) + SumFunctionOnSet(f, T)}
<1>2. Bad = {}
  <2>1. SUFFICES ASSUME Bad # {} PROVE FALSE
    OBVIOUS
  <2>2. PICK s \in Bad : \A x \in s : s \ {x} \notin Bad
    <3>1. Bad \in SUBSET SUBSET S
      OBVIOUS
    <3>. HIDE DEF Bad
    <3>. QED  BY <2>1, <3>1, Smallest
  <2>3. /\ s \in SUBSET S
        /\ SumFunctionOnSet(f, s \cup T) # SumFunctionOnSet(f, s) + SumFunctionOnSet(f, T)
    BY <2>2
  <2>4. SumFunctionOnSet(f, T) \in Nat
    BY SumType
  <2>5. s # {}
    <3>1. {} \cup T = T
      OBVIOUS
    <3>. QED  BY <2>3, <2>4, <3>1, SumEmpty
  <2>6. PICK x \in s : TRUE
    BY <2>5
  <2>7. SumFunctionOnSet(f, (s \ {x}) \cup T) = SumFunctionOnSet(f, s \ {x}) + SumFunctionOnSet(f, T)
    BY <2>2, <2>6
  <2>. HIDE DEF Bad
  <2>8. (s \cup T) \ {x} = (s \ {x}) \cup T /\ x \in s \cup T
    BY <2>3, <2>6
  <2>9. /\ SumFunctionOnSet(f, s) = f[x] + SumFunctionOnSet(f, s \ {x})
        /\ SumFunctionOnSet(f, s \ {x}) \in Nat /\ f[x] \in Nat
    BY <1>1, <2>3, <2>6, SumTakes
  <2>10. SumFunctionOnSet(f, s \cup T) = f[x] + SumFunctionOnSet(f, (s \cup T) \ {x})
    BY <1>1, <2>3, <2>8, SumTakes
  <2>11. SumFunctionOnSet(f, s \cup T) = f[x] + (SumFunctionOnSet(f, s \ {x}) + SumFunctionOnSet(f, T))
    BY <2>7, <2>8, <2>10
  <2>. QED  BY <2>3, <2>4, <2>9, <2>11
<1>. QED  BY <1>2
(* Parts of a set that share nothing sum to no more than the set. *)
LEMMA SumOfParts ==
  ASSUME NEW f, NEW D, IsFiniteSet(D), \A d \in D : f[d] \in Nat,
         NEW S, IsFiniteSet(S), NEW part \in [S -> SUBSET D],
         \A p, q \in S : p # q => part[p] \cap part[q] = {},
         NEW h, \A p \in S : h[p] = SumFunctionOnSet(f, part[p])
  PROVE  SumFunctionOnSet(h, S) <= SumFunctionOnSet(f, D)
<1>. DEFINE Bad == {s \in SUBSET S : \E E \in SUBSET D :
                      /\ \A p \in s : part[p] \subseteq E
                      /\ ~(SumFunctionOnSet(h, s) <= SumFunctionOnSet(f, E))}
<1>1. /\ \A s \in SUBSET S : IsFiniteSet(s)
      /\ \A E \in SUBSET D : IsFiniteSet(E) /\ SumFunctionOnSet(f, E) \in Nat
  <2>1. \A E \in SUBSET D : IsFiniteSet(E)
    BY FS_Subset
  <2>2. \A s \in SUBSET S : IsFiniteSet(s)
    BY FS_Subset
  <2>. QED  BY <2>1, <2>2, SumType
<1>2. \A p \in S : part[p] \in SUBSET D /\ h[p] \in Nat
  BY <1>1
<1>3. Bad = {}
  <2>1. SUFFICES ASSUME Bad # {} PROVE FALSE
    OBVIOUS
  <2>2. PICK s \in Bad : \A x \in s : s \ {x} \notin Bad
    <3>1. Bad \in SUBSET SUBSET S
      OBVIOUS
    <3>. HIDE DEF Bad
    <3>. QED  BY <2>1, <3>1, Smallest
  <2>3. PICK E \in SUBSET D : /\ \A p \in s : part[p] \subseteq E
                             /\ ~(SumFunctionOnSet(h, s) <= SumFunctionOnSet(f, E))
    BY <2>2
  <2>4. s \in SUBSET S
    BY <2>2
  <2>5. s # {}
    <3>1. SumFunctionOnSet(f, E) \in Nat
      BY <1>1
    <3>. QED  BY <2>3, <3>1, SumEmpty
  <2>6. PICK x \in s : TRUE
    BY <2>5
  <2>. DEFINE R == E \ part[x]
  <2>7. R \in SUBSET D /\ \A p \in s \ {x} : part[p] \subseteq R
    BY <1>2, <2>3, <2>4, <2>6
  <2>8. SumFunctionOnSet(h, s \ {x}) <= SumFunctionOnSet(f, R)
    BY <2>2, <2>4, <2>6, <2>7
  <2>9. /\ SumFunctionOnSet(h, s) = h[x] + SumFunctionOnSet(h, s \ {x})
        /\ SumFunctionOnSet(h, s \ {x}) \in Nat /\ h[x] \in Nat
    <3>1. IsFiniteSet(s) /\ \A y \in s : h[y] \in Nat
      BY <1>1, <1>2, <2>4
    <3>. QED  BY <2>6, <3>1, SumTakes
  <2>10. SumFunctionOnSet(f, E) = SumFunctionOnSet(f, part[x]) + SumFunctionOnSet(f, R)
    <3>1. part[x] \cup R = E /\ part[x] \cap R = {}
      BY <2>3, <2>6
    <3>2. IsFiniteSet(part[x]) /\ IsFiniteSet(R) /\ \A d \in part[x] \cup R : f[d] \in Nat
      BY <1>1, <1>2, <2>4, <2>6, <2>7
    <3>. HIDE DEF Bad, R
    <3>3. SumFunctionOnSet(f, part[x] \cup R) = SumFunctionOnSet(f, part[x]) + SumFunctionOnSet(f, R)
      BY <3>1, <3>2, SumApart
    <3>. QED  BY <3>1, <3>3
  <2>11. h[x] = SumFunctionOnSet(f, part[x])
    BY <2>4, <2>6
  <2>12. SumFunctionOnSet(f, R) \in Nat
    BY <1>1, <2>7
  <2>. HIDE DEF Bad, R
  <2>. QED  BY <2>3, <2>8, <2>9, <2>10, <2>11, <2>12
<1>4. S \in SUBSET S /\ D \in SUBSET D /\ \A p \in S : part[p] \subseteq D
  BY <1>2
<1>. QED  BY <1>3, <1>4

(* Moved to other elements, no two to one, a sum is no more than what those are given. *)
LEMMA SumMoved ==
  ASSUME NEW c, NEW S, IsFiniteSet(S), \A x \in S : c[x] \in Nat,
         NEW d, NEW T, IsFiniteSet(T), \A y \in T : d[y] \in Nat,
         NEW m, \A x \in S : c[x] # 0 => m[x] \in T /\ c[x] <= d[m[x]],
         \A x, y \in S : c[x] # 0 /\ c[y] # 0 /\ m[x] = m[y] => x = y
  PROVE  SumFunctionOnSet(c, S) <= SumFunctionOnSet(d, T)
<1>. DEFINE Into(s, t) == \A x \in s : c[x] # 0 => m[x] \in t
            Bad == {s \in SUBSET S : \E t \in SUBSET T :
                      Into(s, t) /\ ~(SumFunctionOnSet(c, s) <= SumFunctionOnSet(d, t))}
<1>1. /\ \A s \in SUBSET S : IsFiniteSet(s)
      /\ \A t \in SUBSET T : IsFiniteSet(t) /\ SumFunctionOnSet(d, t) \in Nat
  <2>1. \A t \in SUBSET T : IsFiniteSet(t)
    BY FS_Subset
  <2>2. \A s \in SUBSET S : IsFiniteSet(s)
    BY FS_Subset
  <2>. QED  BY <2>1, <2>2, SumType
<1>2. Bad = {}
  <2>1. SUFFICES ASSUME Bad # {} PROVE FALSE
    OBVIOUS
  <2>2. PICK s \in Bad : \A x \in s : s \ {x} \notin Bad
    <3>1. Bad \in SUBSET SUBSET S
      OBVIOUS
    <3>. HIDE DEF Bad
    <3>. QED  BY <2>1, <3>1, Smallest
  <2>3. PICK t \in SUBSET T : /\ Into(s, t)
                             /\ ~(SumFunctionOnSet(c, s) <= SumFunctionOnSet(d, t))
    BY <2>2
  <2>4. s \in SUBSET S /\ SumFunctionOnSet(d, t) \in Nat
    BY <1>1, <2>2
  <2>5. s # {}
    BY <2>3, <2>4, SumEmpty
  <2>6. PICK x \in s : TRUE
    BY <2>5
  <2>7. ASSUME NEW u \in SUBSET T, Into(s \ {x}, u)
        PROVE  SumFunctionOnSet(c, s \ {x}) <= SumFunctionOnSet(d, u)
    <3>1. s \ {x} \in SUBSET S /\ s \ {x} \notin Bad
      BY <2>2, <2>4, <2>6
    <3>. HIDE DEF Into
    <3>. QED  BY <2>7, <3>1
  <2>. HIDE DEF Bad
  <2>8. /\ SumFunctionOnSet(c, s) = c[x] + SumFunctionOnSet(c, s \ {x})
        /\ SumFunctionOnSet(c, s \ {x}) \in Nat /\ c[x] \in Nat
    <3>1. IsFiniteSet(s) /\ \A y \in s : c[y] \in Nat
      BY <1>1, <2>4
    <3>. HIDE DEF Into
    <3>2. x \in s
      BY <2>6
    <3>3. c[x] \in Nat
      BY <3>1, <3>2
    <3>4. SumFunctionOnSet(c, s) = c[x] + SumFunctionOnSet(c, s \ {x})
      BY <3>1, <3>2, SumTakes
    <3>5. SumFunctionOnSet(c, s \ {x}) \in Nat
      BY <3>1, <3>2, SumTakes
    <3>. QED  BY <3>3, <3>4, <3>5
  <2>9. CASE c[x] = 0
    <3>1. Into(s \ {x}, t)
      BY <2>3
    <3>. HIDE DEF Into
    <3>2. SumFunctionOnSet(c, s \ {x}) <= SumFunctionOnSet(d, t)
      BY <2>7, <3>1
    <3>. QED  BY <2>3, <2>8, <2>9, <3>2
  <2>10. CASE c[x] # 0
    <3>. DEFINE y == m[x]
    <3>1. y \in t /\ y \in T /\ c[x] <= d[y]
      BY <2>3, <2>4, <2>6, <2>10
    <3>2. Into(s \ {x}, t \ {y})
      BY <2>3, <2>4, <2>6, <2>10
    <3>. HIDE DEF Into, y
    <3>3. SumFunctionOnSet(c, s \ {x}) <= SumFunctionOnSet(d, t \ {y})
      <4>1. t \ {y} \in SUBSET T
        OBVIOUS
      <4>. QED  BY <2>7, <3>2, <4>1
    <3>4. /\ SumFunctionOnSet(d, t) = d[y] + SumFunctionOnSet(d, t \ {y})
          /\ SumFunctionOnSet(d, t \ {y}) \in Nat /\ d[y] \in Nat
      BY <1>1, <3>1, SumTakes
    <3>. QED  BY <2>3, <2>8, <3>1, <3>3, <3>4
  <2>. QED  BY <2>9, <2>10
<1>3. Into(S, T) /\ S \in SUBSET S /\ T \in SUBSET T
  OBVIOUS
<1>. HIDE DEF Into
<1>. QED  BY <1>2, <1>3

(* Parts that share nothing have no more elements than the set. *)
LEMMA CountOfParts ==
  ASSUME NEW U, IsFiniteSet(U), NEW S, IsFiniteSet(S), NEW part \in [S -> SUBSET U],
         \A p, q \in S : p # q => part[p] \cap part[q] = {},
         NEW h, \A p \in S : h[p] = Cardinality(part[p])
  PROVE  SumFunctionOnSet(h, S) <= Cardinality(U)
<1>. DEFINE Bad == {s \in SUBSET S : \E E \in SUBSET U :
                      /\ \A p \in s : part[p] \subseteq E
                      /\ ~(SumFunctionOnSet(h, s) <= Cardinality(E))}
<1>1. /\ \A s \in SUBSET S : IsFiniteSet(s)
      /\ \A E \in SUBSET U : IsFiniteSet(E) /\ Cardinality(E) \in Nat
  BY FS_Subset, FS_CardinalityType
<1>2. \A p \in S : part[p] \in SUBSET U /\ h[p] \in Nat
  BY <1>1
<1>3. Bad = {}
  <2>1. SUFFICES ASSUME Bad # {} PROVE FALSE
    OBVIOUS
  <2>2. PICK s \in Bad : \A x \in s : s \ {x} \notin Bad
    <3>1. Bad \in SUBSET SUBSET S
      OBVIOUS
    <3>. HIDE DEF Bad
    <3>. QED  BY <2>1, <3>1, Smallest
  <2>3. PICK E \in SUBSET U : /\ \A p \in s : part[p] \subseteq E
                             /\ ~(SumFunctionOnSet(h, s) <= Cardinality(E))
    BY <2>2
  <2>4. s \in SUBSET S
    BY <2>2
  <2>5. s # {}
    <3>1. Cardinality(E) \in Nat
      BY <1>1
    <3>. QED  BY <2>3, <3>1, SumEmpty
  <2>6. PICK x \in s : TRUE
    BY <2>5
  <2>. DEFINE R == E \ part[x]
  <2>7. R \in SUBSET U /\ \A p \in s \ {x} : part[p] \subseteq R
    BY <1>2, <2>3, <2>4, <2>6
  <2>8. SumFunctionOnSet(h, s \ {x}) <= Cardinality(R)
    BY <2>2, <2>4, <2>6, <2>7
  <2>9. /\ SumFunctionOnSet(h, s) = h[x] + SumFunctionOnSet(h, s \ {x})
        /\ SumFunctionOnSet(h, s \ {x}) \in Nat /\ h[x] \in Nat
    <3>1. IsFiniteSet(s) /\ \A y \in s : h[y] \in Nat
      BY <1>1, <1>2, <2>4
    <3>. QED  BY <2>6, <3>1, SumTakes
  <2>10. Cardinality(E) = Cardinality(part[x]) + Cardinality(R)
    <3>1. part[x] \cup R = E /\ part[x] \cap R = {}
      BY <2>3, <2>6
    <3>2. IsFiniteSet(part[x]) /\ IsFiniteSet(R) /\ Cardinality(part[x]) \in Nat /\ Cardinality(R) \in Nat
      BY <1>1, <1>2, <2>4, <2>6, <2>7
    <3>. HIDE DEF Bad, R
    <3>3. Cardinality(part[x] \cup R) =
            Cardinality(part[x]) + Cardinality(R) - Cardinality(part[x] \cap R)
      BY <3>2, FS_Union
    <3>4. Cardinality(part[x] \cap R) = 0
      BY <3>1, FS_EmptySet
    <3>5. Cardinality(E) = Cardinality(part[x]) + Cardinality(R) - 0
      BY <3>1, <3>3, <3>4
    <3>. QED  BY <3>2, <3>5
  <2>11. h[x] = Cardinality(part[x])
    BY <2>4, <2>6
  <2>12. Cardinality(R) \in Nat
    BY <1>1, <2>7
  <2>. HIDE DEF Bad, R
  <2>. QED  BY <2>3, <2>8, <2>9, <2>10, <2>11, <2>12
<1>4. S \in SUBSET S /\ U \in SUBSET U /\ \A p \in S : part[p] \subseteq U
  BY <1>2
<1>. QED  BY <1>3, <1>4
-----------------------------------------------------------------------------
(* Every event that the days [a, b) hold, counted in the tier it falls in if nothing
   is free.                                                                         *)
Metered(events, a, b, plan) == Split(sum(events, a, b), 0, TierUpTo[plan])

CarriesNothing(q) == \A k \in DOMAIN ledger[q].carry : ledger[q].carry[k] = 0

(* The period at q carries from the one at p, which has ended, and the two together
   state no event twice of the days of p.                                          *)
CarriesFrom(p, q) ==
  /\ ledger[p].plan = ledger[q].plan
  /\ daysFor(ledger[p], ledger[q].sub).end = ledger[q].start
  /\ \A s \in sub : s.start # p /\ (s.start = q => p \in previous(q, ledger[q].sub))
  /\ \A k \in Tiers(TierUpTo[ledger[p].plan]) :
       ledger[p].own[k] + ledger[q].carry[k]
         <= Metered(peak, ledger[p].start, ledger[q].start, ledger[p].plan)[k]

(* What the ledger states is owed: a period's own count is of the days it has stated,
   what it carries is of one period before, and subscriptions follow one another.   *)
Owed ==
  /\ \A d \in Days : cells[d] <= peak[d]
  /\ \A p \in DOMAIN ledger : \A k \in 1 .. MaxTiers :
       k \notin Tiers(TierUpTo[ledger[p].plan]) => held[p][k] = 0
  /\ \A p \in DOMAIN ledger : \A k \in Tiers(TierUpTo[ledger[p].plan]) :
       ledger[p].own[k] <= Metered(peak, ledger[p].start, ledger[p].through, ledger[p].plan)[k]
  /\ \A q \in DOMAIN ledger :
       CarriesNothing(q) \/ \E p \in DOMAIN ledger \ {q} : CarriesFrom(p, q)
  /\ \A p, q \in DOMAIN ledger :
       ledger[p].sub < ledger[q].sub => ledger[p].through <= ledger[q].start

(* More days, and more in each, hold no fewer events. *)
LEMMA DaysGrow ==
  ASSUME NEW f \in [Days -> Nat], NEW g \in [Days -> Nat], \A d \in Days : f[d] <= g[d],
         NEW a \in Nat, NEW b \in Nat, NEW c \in Nat, b <= c
  PROVE  sum(f, a, b) \in Nat /\ sum(g, a, c) \in Nat /\ sum(f, a, b) <= sum(g, a, c)
<1>. DEFINE T == {d \in Days : a <= d /\ d < b}
            S == {d \in Days : a <= d /\ d < c}
<1>1. Days \subseteq Nat /\ IsFiniteSet(Days)
  <2>1. day(Horizon) \in Nat /\ Days = 0 .. day(Horizon)
    BY Numbers, DayIs DEF Days
  <2>. QED  BY <2>1, FS_Interval
<1>2. T \subseteq S
  <2>. SUFFICES ASSUME NEW d \in Days, a <= d, d < b PROVE d < c
    OBVIOUS
  <2>1. d \in Nat
    BY <1>1
  <2>. QED  BY <2>1
<1>3. IsFiniteSet(S) /\ S \subseteq Days
  BY <1>1, FS_Subset
<1>4. sum(f, a, b) = SumFunctionOnSet(f, T) /\ sum(g, a, c) = SumFunctionOnSet(g, S)
  BY DEF sum
<1>. HIDE DEF S, T
<1>5. /\ \A x \in S : g[x] \in Nat
      /\ \A x \in T : f[x] \in Nat /\ f[x] <= g[x]
  BY <1>2, <1>3
<1>6. T \in SUBSET S
  BY <1>2
<1>7. /\ SumFunctionOnSet(f, T) \in Nat /\ SumFunctionOnSet(g, S) \in Nat
      /\ SumFunctionOnSet(f, T) <= SumFunctionOnSet(g, S)
  BY <1>3, <1>5, <1>6, SumGrows
<1>. QED  BY <1>4, <1>7

(* More events put no fewer in a tier, nor does a smaller allowance. *)
LEMMA SplitGrows ==
  ASSUME NEW x \in Nat, NEW y \in Nat, x <= y, NEW free \in Nat, NEW u \in Seq(Nat),
         NEW k \in Tiers(u)
  PROVE  /\ Split(x, free, u)[k] \in Nat /\ Split(y, 0, u)[k] \in Nat
         /\ Split(x, free, u)[k] <= Split(y, 0, u)[k]
<1>1. /\ Len(u) \in Nat /\ k \in 1 .. Len(u) + 1
      /\ \A j \in 1 .. Len(u) : u[j] \in Nat
  BY LenProperties, ElementOfSeq DEF Tiers
<1>. DEFINE low == IF k = 1 THEN 0 ELSE u[k - 1]
            upto(n) == IF k <= Len(u) THEN Smaller(n, u[k]) ELSE n
<1>2. low \in Nat
  BY <1>1
<1>3. upto(x) \in Nat /\ upto(y) \in Nat /\ upto(x) <= upto(y)
  BY <1>1 DEF Smaller
<1>4. /\ Split(x, free, u)[k] = Larger(0, upto(x) - Larger(low, free))
      /\ Split(y, 0, u)[k] = Larger(0, upto(y) - Larger(low, 0))
  BY DEF Split
<1>. HIDE DEF low, upto
<1>5. Larger(low, free) \in Nat /\ Larger(low, 0) \in Nat /\ Larger(low, 0) <= Larger(low, free)
  BY <1>2 DEF Larger
<1>. QED  BY <1>3, <1>4, <1>5 DEF Larger

LEMMA MeteredGrows ==
  ASSUME NEW f \in [Days -> Nat], NEW g \in [Days -> Nat], \A d \in Days : f[d] <= g[d],
         NEW a \in Nat, NEW b \in Nat, NEW c \in Nat, b <= c,
         NEW plan \in Plans, NEW k \in Tiers(TierUpTo[plan])
  PROVE  /\ Metered(f, a, b, plan)[k] \in Nat /\ Metered(g, a, c, plan)[k] \in Nat
         /\ Metered(f, a, b, plan)[k] <= Metered(g, a, c, plan)[k]
<1>1. sum(f, a, b) \in Nat /\ sum(g, a, c) \in Nat /\ sum(f, a, b) <= sum(g, a, c)
  BY DaysGrow
<1>2. TierUpTo[plan] \in Seq(Nat)
  BY TierBounds
<1>. QED  BY <1>1, <1>2, SplitGrows DEF Metered

(* The day cells are counts. *)
LEMMA CellsAre ==
  ASSUME IInv
  PROVE  cells \in [Days -> Nat] /\ peak \in [Days -> Nat]
<1>1. 0 .. MaxCount \subseteq Nat
  BY Numbers
<1>. QED  BY <1>1 DEF IInv, Typed, TypeOK

LEMMA InitOwed == Init => Owed
<1>. SUFFICES ASSUME Init PROVE Owed
  OBVIOUS
<1>1. /\ cells = [d \in Days |-> 0] /\ peak = [d \in Days |-> 0] /\ DOMAIN ledger = {}
  BY DEF Init
<1>. QED  BY <1>1 DEF Owed

(* What a row states of itself. *)
SameRows ==
  /\ DOMAIN ledger' = DOMAIN ledger
  /\ \A p \in DOMAIN ledger :
       /\ ledger'[p].start = ledger[p].start /\ ledger'[p].end = ledger[p].end
       /\ ledger'[p].through = ledger[p].through /\ ledger'[p].sub = ledger[p].sub
       /\ ledger'[p].plan = ledger[p].plan
       /\ ledger'[p].own = ledger[p].own /\ ledger'[p].carry = ledger[p].carry

(* The live subscription is in the period it was, or in a new one. *)
NewOrSame == \A s \in sub' : s.start \notin starts \/ \E t \in sub : t.start = s.start

LEMMA OwedKept ==
  ASSUME IInv, IInv', Owed, SameRows, NewOrSame,
         \A d \in Days : cells'[d] <= peak'[d] /\ peak[d] <= peak'[d],
         \A p \in DOMAIN ledger : \A k \in 1 .. MaxTiers :
           k \notin Tiers(TierUpTo[ledger[p].plan]) => held'[p][k] = 0
  PROVE  Owed'
<1>1. /\ DOMAIN ledger' = DOMAIN ledger
      /\ \A p \in DOMAIN ledger :
           /\ ledger'[p].start = ledger[p].start /\ ledger'[p].end = ledger[p].end
           /\ ledger'[p].through = ledger[p].through /\ ledger'[p].sub = ledger[p].sub
           /\ ledger'[p].plan = ledger[p].plan
           /\ ledger'[p].own = ledger[p].own /\ ledger'[p].carry = ledger[p].carry
  BY DEF SameRows
<1>2. peak \in [Days -> Nat] /\ peak' \in [Days -> Nat] /\ \A d \in Days : peak[d] <= peak'[d]
  BY CellsAre DEF IInv, Typed, TypeOK
<1>3. ASSUME NEW a \in Nat, NEW b \in Nat, NEW plan \in Plans, NEW k \in Tiers(TierUpTo[plan])
      PROVE  /\ Metered(peak, a, b, plan)[k] \in Nat /\ Metered(peak', a, b, plan)[k] \in Nat
             /\ Metered(peak, a, b, plan)[k] <= Metered(peak', a, b, plan)[k]
  <2>1. b <= b
    OBVIOUS
  <2>. QED  BY <1>2, <2>1, MeteredGrows
<1>4. ASSUME NEW p \in DOMAIN ledger, NEW k \in Tiers(TierUpTo[ledger[p].plan])
      PROVE  ledger[p].own[k] <= Metered(peak', ledger[p].start, ledger[p].through, ledger[p].plan)[k]
  <2>. DEFINE low == Metered(peak, ledger[p].start, ledger[p].through, ledger[p].plan)[k]
              high == Metered(peak', ledger[p].start, ledger[p].through, ledger[p].plan)[k]
  <2>1. ledger[p].own[k] \in Nat /\ low \in Nat /\ high \in Nat /\ low <= high
    BY <1>3, Rows
  <2>2. ledger[p].own[k] <= low
    BY DEF Owed
  <2>. HIDE DEF low, high
  <2>3. ledger[p].own[k] <= high
    BY <2>1, <2>2
  <2>. QED  BY <2>3 DEF high
<1>5. ASSUME NEW q \in DOMAIN ledger
      PROVE  previous(q, ledger[q].sub)' = previous(q, ledger[q].sub)
  <2>1. \A p \in DOMAIN ledger : daysFor(ledger'[p], ledger'[q].sub) = daysFor(ledger[p], ledger[q].sub)
    BY <1>1 DEF daysFor
  <2>. QED  BY <1>1, <2>1 DEF previous
<1>6. ASSUME NEW q \in DOMAIN ledger, NEW p \in DOMAIN ledger \ {q}, CarriesFrom(p, q)
      PROVE  CarriesFrom(p, q)'
  <2>1. ledger'[p].plan = ledger'[q].plan /\ ledger[p].plan \in Plans
    BY <1>1, <1>6, Rows DEF CarriesFrom
  <2>2. daysFor(ledger'[p], ledger'[q].sub).end = ledger'[q].start
    BY <1>1, <1>6 DEF CarriesFrom, daysFor
  <2>3. ASSUME NEW s \in sub'
        PROVE  s.start # p /\ (s.start = q => p \in previous(q, ledger[q].sub))
    <3>1. p \in starts /\ q \in starts
      BY DEF IInv, Typed, TypeOK
    <3>2. \A t \in sub : t.start # p /\ (t.start = q => p \in previous(q, ledger[q].sub))
      BY <1>6 DEF CarriesFrom
    <3>. QED  BY <3>1, <3>2 DEF NewOrSame
  <2>4. ASSUME NEW k \in Tiers(TierUpTo[ledger[p].plan])
        PROVE  ledger[p].own[k] + ledger[q].carry[k]
                 <= Metered(peak', ledger[p].start, ledger[q].start, ledger[p].plan)[k]
    <3>. DEFINE low == Metered(peak, ledger[p].start, ledger[q].start, ledger[p].plan)[k]
                high == Metered(peak', ledger[p].start, ledger[q].start, ledger[p].plan)[k]
    <3>1. low \in Nat /\ high \in Nat /\ low <= high
      BY <1>3, <2>1, Rows
    <3>2. ledger[p].own[k] \in Nat /\ ledger[q].carry[k] \in Nat
      <4>1. ledger[q].plan = ledger[p].plan
        BY <1>6 DEF CarriesFrom
      <4>. QED  BY <4>1, Rows
    <3>3. ledger[p].own[k] + ledger[q].carry[k] <= low
      BY <1>6 DEF CarriesFrom
    <3>. HIDE DEF low, high
    <3>4. ledger[p].own[k] + ledger[q].carry[k] <= high
      BY <3>1, <3>2, <3>3
    <3>. QED  BY <3>4 DEF high
  <2>5. (\A s \in sub : s.start # p /\ (s.start = q => p \in previous(q, ledger[q].sub)))'
    BY <1>5, <2>3
  <2>6. \A k \in Tiers(TierUpTo[ledger'[p].plan]) :
          ledger'[p].own[k] + ledger'[q].carry[k]
            <= Metered(peak', ledger'[p].start, ledger'[q].start, ledger'[p].plan)[k]
    BY <1>1, <2>4
  <2>. QED  BY <2>1, <2>2, <2>5, <2>6 DEF CarriesFrom
<1>7. ASSUME NEW q \in DOMAIN ledger
      PROVE  CarriesNothing(q)' \/ \E p \in DOMAIN ledger \ {q} : CarriesFrom(p, q)'
  <2>1. CASE CarriesNothing(q)
    BY <1>1, <2>1 DEF CarriesNothing
  <2>2. CASE \E p \in DOMAIN ledger \ {q} : CarriesFrom(p, q)
    BY <1>6, <2>2
  <2>. QED  BY <2>1, <2>2 DEF Owed
<1>8. (\A q \in DOMAIN ledger :
         CarriesNothing(q) \/ \E p \in DOMAIN ledger \ {q} : CarriesFrom(p, q))'
  BY <1>1, <1>7
<1>9. (\A p \in DOMAIN ledger : \A k \in Tiers(TierUpTo[ledger[p].plan]) :
         ledger[p].own[k] <= Metered(peak, ledger[p].start, ledger[p].through, ledger[p].plan)[k])'
  BY <1>1, <1>4
<1>10. (\A p, q \in DOMAIN ledger :
          ledger[p].sub < ledger[q].sub => ledger[p].through <= ledger[q].start)'
  BY <1>1 DEF Owed
<1>11. (\A p \in DOMAIN ledger : \A k \in 1 .. MaxTiers :
          k \notin Tiers(TierUpTo[ledger[p].plan]) => held[p][k] = 0)'
  BY <1>1
<1>12. (\A d \in Days : cells[d] <= peak[d])'
  OBVIOUS
<1>. HIDE DEF CarriesFrom, CarriesNothing
<1>. QED  BY <1>8, <1>9, <1>10, <1>11, <1>12 DEF Owed

(* A step that leaves the ledger and what the meters hold. *)
LEMMA OwedBeside ==
  ASSUME IInv, IInv', Owed, UNCHANGED <<ledger, held>>, NewOrSame,
         UNCHANGED <<cells, peak>> \/ \A d \in Days : cells'[d] <= peak'[d] /\ peak[d] <= peak'[d]
  PROVE  Owed'
<1>1. SameRows
  BY DEF SameRows
<1>2. \A d \in Days : cells'[d] <= peak'[d] /\ peak[d] <= peak'[d]
  <2>1. \A d \in Days : peak[d] \in Nat
    BY CellsAre
  <2>. QED  BY <2>1 DEF Owed
<1>3. \A p \in DOMAIN ledger : \A k \in 1 .. MaxTiers :
        k \notin Tiers(TierUpTo[ledger[p].plan]) => held'[p][k] = 0
  BY DEF Owed
<1>. QED  BY <1>1, <1>2, <1>3, OwedKept

LEMMA RecountOwed == ASSUME IInv, IInv', Owed, NEW d \in Days, Recount(d) PROVE Owed'
<1>1. PICK n \in 0 .. MaxCount :
        /\ cells' = [cells EXCEPT ![d] = n] /\ peak' = [peak EXCEPT ![d] = Larger(@, n)]
        /\ UNCHANGED <<sub, ledger, held>>
  BY DEF Recount, orgVars
<1>2. cells \in [Days -> Nat] /\ peak \in [Days -> Nat] /\ n \in Nat
  BY CellsAre, Numbers
<1>3. ASSUME NEW e \in Days
      PROVE  cells'[e] <= peak'[e] /\ peak[e] <= peak'[e]
  <2>1. cells[e] <= peak[e] /\ cells[e] \in Nat /\ peak[e] \in Nat
    BY <1>2 DEF Owed
  <2>2. CASE e = d
    <3>1. cells'[e] = n /\ peak'[e] = Larger(peak[e], n)
      BY <1>1, <1>2, <2>2
    <3>. QED  BY <1>2, <2>1, <3>1 DEF Larger
  <2>3. CASE e # d
    <3>1. cells'[e] = cells[e] /\ peak'[e] = peak[e]
      BY <1>1, <1>2, <2>3
    <3>. QED  BY <2>1, <3>1
  <2>. QED  BY <2>2, <2>3
<1>4. NewOrSame
  BY <1>1 DEF NewOrSame
<1>. QED  BY <1>1, <1>3, <1>4, OwedBeside

LEMMA WorldOwed == IInv /\ IInv' /\ Owed /\ World => Owed'
<1>. SUFFICES ASSUME IInv, IInv', Owed, World PROVE Owed'
  OBVIOUS
<1>1. CASE Tick \/ SetAllowance
  <2>1. UNCHANGED <<ledger, held, cells, peak, sub>>
    BY <1>1 DEF Tick, SetAllowance, usageVars, orgVars
  <2>2. NewOrSame
    BY <2>1 DEF NewOrSame
  <2>. QED  BY <2>1, <2>2, OwedBeside
<1>2. CASE Subscribe \/ Cancel \/ Renew \/ PayOff \/ ChangePlan
  <2>1. UNCHANGED <<ledger, held, cells, peak>>
    BY <1>2 DEF Subscribe, Cancel, Renew, PayOff, ChangePlan, usageVars
  <2>2. NewOrSame
    <3>1. CASE Subscribe
      <4>1. PICK start \in Instants \ starts, p \in Plans :
              sub' = {[id |-> subs + 1, start |-> start, end |-> start + Cycle, plan |-> p]}
        BY <3>1 DEF Subscribe
      <4>. QED  BY <4>1 DEF NewOrSame
    <3>2. CASE Cancel
      BY <3>2 DEF Cancel, NewOrSame
    <3>3. CASE Renew
      <4>1. PICK s \in sub : /\ s.end \notin starts
                             /\ sub' = {[s EXCEPT !.start = s.end, !.end = s.end + Cycle]}
        BY <3>3 DEF Renew
      <4>2. [s EXCEPT !.start = s.end, !.end = s.end + Cycle].start = s.end
        BY SubIs DEF Sub
      <4>. QED  BY <4>1, <4>2 DEF NewOrSame
    <3>4. CASE PayOff
      <4>1. PICK s \in sub : sub' = {[s EXCEPT !.end = clock + Cycle]}
        BY <3>4 DEF PayOff
      <4>2. [s EXCEPT !.end = clock + Cycle].start = s.start
        BY SubIs DEF Sub
      <4>. QED  BY <4>1, <4>2 DEF NewOrSame
    <3>5. CASE ChangePlan
      <4>1. PICK s \in sub : \E p \in Plans : sub' = {[s EXCEPT !.plan = p]}
        BY <3>5 DEF ChangePlan
      <4>2. \A p : [s EXCEPT !.plan = p].start = s.start
        BY SubIs DEF Sub
      <4>. QED  BY <4>1, <4>2 DEF NewOrSame
    <3>. QED  BY <1>2, <3>1, <3>2, <3>3, <3>4, <3>5
  <2>. QED  BY <2>1, <2>2, OwedBeside
<1>3. CASE \E d \in Days : Recount(d)
  BY <1>3, RecountOwed
<1>. QED  BY <1>1, <1>2, <1>3 DEF World

LEMMA RestOwed ==
  IInv /\ IInv' /\ Owed /\ (Begin \/ Superseded \/ Fail \/ UNCHANGED vars) => Owed'
<1>. SUFFICES ASSUME IInv, IInv', Owed, Begin \/ Superseded \/ Fail \/ UNCHANGED vars PROVE Owed'
  OBVIOUS
<1>1. UNCHANGED <<ledger, held, cells, peak, sub>>
  BY DEF Begin, Superseded, Fail, vars, usageVars, orgVars
<1>2. NewOrSame
  BY <1>1 DEF NewOrSame
<1>. QED  BY <1>1, <1>2, OwedBeside

(* A statement reaches no meter of a tier the plan has not. *)
LEMMA IngestOwed == IInv /\ IInv' /\ Owed /\ Ingest => Owed'
<1>. SUFFICES ASSUME IInv, IInv', Owed, Ingest PROVE Owed'
  OBVIOUS
<1>. DEFINE s == pass.sub
            told == stated(ledger[s.start])
<1>1. /\ pass.pc \in {"resend", "ingest"} /\ Land(s, pass.now, told)
      /\ UNCHANGED <<ledger, cells, peak, sub>>
  BY DEF Ingest, usageVars, orgVars
<1>2. pass # NoPass
  BY <1>1 DEF NoPass
<1>3. s.start \in DOMAIN ledger /\ pass.now < s.end /\ s.start \in Instants
  BY <1>1, <1>2, PassIs DEF IInv, Sending
<1>4. held' = [held EXCEPT ![s.start] =
                 [k \in 1 .. MaxTiers |-> IF k \in DOMAIN told THEN Larger(told[k], @[k]) ELSE @[k]]]
  BY <1>1, <1>3 DEF Land
<1>5. DOMAIN told = Tiers(TierUpTo[ledger[s.start].plan])
  BY <1>3, Rows, StatedIs
<1>6. held \in [Instants -> Counts] /\ DOMAIN ledger \subseteq Instants
  BY Rows DEF IInv, Typed, TypeOK
<1>. HIDE DEF told
<1>7. ASSUME NEW p \in DOMAIN ledger, NEW k \in 1 .. MaxTiers,
             k \notin Tiers(TierUpTo[ledger[p].plan])
      PROVE  held'[p][k] = 0
  <2>1. held[p][k] = 0
    BY <1>7 DEF Owed
  <2>2. CASE p = s.start
    <3>1. held'[p] = [j \in 1 .. MaxTiers |-> IF j \in DOMAIN told THEN Larger(told[j], held[p][j])
                                              ELSE held[p][j]]
      BY <1>4, <1>6, <2>2
    <3>2. k \notin DOMAIN told
      BY <1>5, <1>7, <2>2
    <3>. QED  BY <2>1, <3>1, <3>2
  <2>3. CASE p # s.start
    BY <1>4, <1>6, <2>1, <2>3
  <2>. QED  BY <2>2, <2>3
<1>8. SameRows /\ NewOrSame
  BY <1>1 DEF SameRows, NewOrSame
<1>9. \A d \in Days : cells'[d] <= peak'[d] /\ peak[d] <= peak'[d]
  <2>1. \A d \in Days : peak[d] \in Nat
    BY CellsAre
  <2>. QED  BY <1>1, <2>1 DEF Owed
<1>. QED  BY <1>7, <1>8, <1>9, OwedKept

LEMMA AckOwed == IInv /\ IInv' /\ Owed /\ ack => Owed'
<1>. SUFFICES ASSUME IInv, IInv', Owed, ack PROVE Owed'
  OBVIOUS
<1>1. /\ ledger' = [ledger EXCEPT ![pass.sub.start].acked = TRUE]
      /\ UNCHANGED <<held, cells, peak, sub>>
  BY DEF ack, usageVars, orgVars
<1>2. \A p \in DOMAIN ledger : ledger[p] \in Row
  BY DEF IInv, Typed, TypeOK
<1>3. SameRows
  BY <1>1, <1>2 DEF SameRows, Row
<1>4. NewOrSame
  BY <1>1 DEF NewOrSame
<1>5. \A d \in Days : cells'[d] <= peak'[d] /\ peak[d] <= peak'[d]
  <2>1. \A d \in Days : peak[d] \in Nat
    BY CellsAre
  <2>. QED  BY <1>1, <2>1 DEF Owed
<1>6. \A p \in DOMAIN ledger : \A k \in 1 .. MaxTiers :
        k \notin Tiers(TierUpTo[ledger[p].plan]) => held'[p][k] = 0
  BY <1>1 DEF Owed
<1>. QED  BY <1>3, <1>4, <1>5, <1>6, OwedKept

(* What a pass computes is owed: what it carries, with what the period before stated
   of its own, is no more than that period's days hold.                              *)
CarriesOf(new, plan) ==
  \/ \A k \in Tiers(TierUpTo[plan]) : new.carry[k] = 0
  \/ \E p \in previous(pass.sub.start, pass.sub.id) :
       /\ ledger[p].plan = plan
       /\ daysFor(ledger[p], pass.sub.id).end = new.start
       /\ \A k \in Tiers(TierUpTo[plan]) :
            ledger[p].own[k] + new.carry[k]
              <= Metered(peak, ledger[p].start, new.start, plan)[k]

LEMMA CarriedOwed ==
  ASSUME IInv, Owed, pass # NoPass, NEW plan \in Plans, NEW win,
         NEW new, new.start = win.start, new.carry = carryInto(pass.sub, plan, win)
  PROVE  CarriesOf(new, plan)
<1>. DEFINE s == pass.sub
            T == Tiers(TierUpTo[plan])
            meets == {p \in previous(s.start, s.id) : /\ daysFor(ledger[p], s.id).end = win.start
                                                      /\ ledger[p].plan = plan}
<1>1. CASE meets = {}
  <2>1. carryInto(s, plan, win) = None(TierUpTo[plan])
    BY <1>1 DEF carryInto
  <2>2. \A k \in T : new.carry[k] = 0
    BY <2>1 DEF None
  <2>. QED  BY <2>2 DEF CarriesOf
<1>2. CASE meets # {}
  <2>1. PICK p \in meets : TRUE
    BY <1>2
  <2>2. /\ p \in previous(s.start, s.id) /\ ledger[p].plan = plan /\ p \in DOMAIN ledger
        /\ daysFor(ledger[p], s.id).end = win.start
    BY <2>1 DEF previous
  <2>3. meets = {p}
    BY <2>1, OnePrevious
  <2>4. /\ p \in Nat /\ ledger[p].allowance \in Nat /\ ledger[p].own \in [T -> Nat]
        /\ ledger[p].start \in Nat /\ ledger[p].through \in Nat /\ ledger[p].end \in Nat
        /\ ledger[p].through <= ledger[p].end
    BY <2>2, Rows
  <2>5. Max(meets) = p
    <3>1. meets \in SUBSET Int /\ \E m \in meets : \A y \in meets : m >= y
      BY <2>3, <2>4
    <3>2. Max(meets) \in meets
      <4>. HIDE DEF meets
      <4>. QED  BY <3>1, MaxOf
    <3>. QED  BY <2>3, <3>2
  <2>. DEFINE days == daysFor(ledger[p], s.id)
              split == Split(sum(cells, days.start, days.end), ledger[p].allowance, TierUpTo[plan])
  <2>6. carryInto(s, plan, win) = carry(split, ledger[p].own)
    <3>1. carryInto(s, plan, win) =
            LET prev == ledger[Max(meets)]
                d == daysFor(prev, s.id)
            IN  carry(Split(sum(cells, d.start, d.end), prev.allowance, TierUpTo[plan]), prev.own)
      BY <1>2 DEF carryInto
    <3>. HIDE DEF meets
    <3>. QED  BY <2>5, <3>1
  <2>7. days.start = ledger[p].start /\ days.end = win.start /\ win.start \in Nat
        /\ ledger[p].through <= win.start
    BY <2>2, <2>4, DaysFor
  <2>. DEFINE most == Metered(peak, ledger[p].start, win.start, plan)
  <2>8. ASSUME NEW k \in T
        PROVE  ledger[p].own[k] + new.carry[k] <= most[k]
    <3>1. cells \in [Days -> Nat] /\ peak \in [Days -> Nat] /\ \A d \in Days : cells[d] <= peak[d]
      BY CellsAre DEF Owed
    <3>2. split[k] \in Nat /\ most[k] \in Nat /\ split[k] <= most[k]
      <4>1. win.start <= win.start
        BY <2>7
      <4>2. /\ sum(cells, ledger[p].start, win.start) \in Nat
            /\ sum(peak, ledger[p].start, win.start) \in Nat
            /\ sum(cells, ledger[p].start, win.start) <= sum(peak, ledger[p].start, win.start)
        BY <2>4, <2>7, <3>1, <4>1, DaysGrow
      <4>3. TierUpTo[plan] \in Seq(Nat)
        BY TierBounds
      <4>. QED  BY <2>4, <2>7, <4>2, <4>3, SplitGrows DEF Metered
    <3>3. ledger[p].own[k] <= most[k] /\ ledger[p].own[k] \in Nat
      <4>1. \A d \in Days : peak[d] <= peak[d]
        BY <3>1
      <4>. DEFINE less == Metered(peak, ledger[p].start, ledger[p].through, plan)[k]
      <4>2. less \in Nat /\ less <= most[k]
        BY <2>4, <2>7, <3>1, <4>1, MeteredGrows
      <4>3. ledger[p].own[k] <= less
        BY <2>2 DEF Owed
      <4>. HIDE DEF less, most
      <4>. QED  BY <2>4, <3>2, <4>2, <4>3
    <3>4. new.carry[k] = Larger(0, split[k] - ledger[p].own[k])
      <4>1. DOMAIN split = T
        BY DEF Split
      <4>. HIDE DEF split
      <4>. QED  BY <2>6, <4>1 DEF carry
    <3>. HIDE DEF split, most
    <3>. QED  BY <3>2, <3>3, <3>4 DEF Larger
  <2>. HIDE DEF meets, days, split
  <2>. QED  BY <2>2, <2>8 DEF CarriesOf
<1>. HIDE DEF meets
<1>. QED  BY <1>1, <1>2

(* What the row already carried, it goes on carrying from the same period. *)
LEMMA CarriedStillOwed ==
  ASSUME IInv, Owed, pass # NoPass, StillTheOrgs(pass.sub), pass.sub.start \in DOMAIN ledger,
         NEW plan, ledger[pass.sub.start].plan = plan
  PROVE  CarriesOf(ledger[pass.sub.start], plan)
<1>. DEFINE q == pass.sub.start
<1>1. ledger[q].sub = pass.sub.id /\ DOMAIN ledger[q].carry = Tiers(TierUpTo[plan])
  BY KnownRow, Rows
<1>2. CASE CarriesNothing(q)
  BY <1>1, <1>2 DEF CarriesNothing, CarriesOf
<1>3. CASE \E p \in DOMAIN ledger \ {q} : CarriesFrom(p, q)
  <2>1. PICK p \in DOMAIN ledger \ {q} : CarriesFrom(p, q)
    BY <1>3
  <2>2. PICK t \in sub : t.start = q
    BY DEF StillTheOrgs
  <2>3. p \in previous(q, pass.sub.id)
    BY <1>1, <2>1, <2>2 DEF CarriesFrom
  <2>4. /\ ledger[p].plan = plan /\ daysFor(ledger[p], pass.sub.id).end = ledger[q].start
        /\ \A k \in Tiers(TierUpTo[plan]) :
             ledger[p].own[k] + ledger[q].carry[k]
               <= Metered(peak, ledger[p].start, ledger[q].start, plan)[k]
    BY <1>1, <2>1 DEF CarriesFrom
  <2>. QED  BY <2>3, <2>4 DEF CarriesOf
<1>. QED  BY <1>2, <1>3 DEF Owed

(* Of two counts that are each owed, the larger is. *)
LEMMA LargerOwed ==
  ASSUME IInv, NEW plan \in Plans, NEW a, NEW b, NEW new,
         a.carry \in [Tiers(TierUpTo[plan]) -> Nat], b.carry \in [Tiers(TierUpTo[plan]) -> Nat],
         CarriesOf(a, plan), CarriesOf(b, plan), a.start = b.start, new.start = a.start,
         new.carry = maxEach(a.carry, b.carry)
  PROVE  CarriesOf(new, plan)
<1>. DEFINE T == Tiers(TierUpTo[plan])
            P == previous(pass.sub.start, pass.sub.id)
            From(x, p) == /\ ledger[p].plan = plan
                          /\ daysFor(ledger[p], pass.sub.id).end = x.start
                          /\ \A k \in T : ledger[p].own[k] + x.carry[k]
                                            <= Metered(peak, ledger[p].start, x.start, plan)[k]
<1>1. \A k \in T : new.carry[k] = Larger(a.carry[k], b.carry[k])
  BY DEF maxEach
<1>2. /\ (\A k \in T : a.carry[k] = 0) \/ \E p \in P : From(a, p)
      /\ (\A k \in T : b.carry[k] = 0) \/ \E p \in P : From(b, p)
  BY DEF CarriesOf
<1>3. SUFFICES (\A k \in T : new.carry[k] = 0) \/ \E p \in P : From(new, p)
  BY DEF CarriesOf
<1>4. ASSUME NEW p \in P, From(a, p) \/ From(b, p),
             From(a, p) \/ \A k \in T : a.carry[k] = 0,
             From(b, p) \/ \A k \in T : b.carry[k] = 0
      PROVE  From(new, p)
  <2>1. ledger[p].plan = plan /\ daysFor(ledger[p], pass.sub.id).end = new.start
    BY <1>4
  <2>2. p \in DOMAIN ledger
    BY DEF previous
  <2>3. ledger[p].own \in [T -> Nat]
    BY <2>1, <2>2, Rows
  <2>4. ASSUME NEW k \in T
        PROVE  ledger[p].own[k] + new.carry[k] <= Metered(peak, ledger[p].start, new.start, plan)[k]
    <3>. DEFINE most == Metered(peak, ledger[p].start, new.start, plan)[k]
    <3>1. /\ a.carry[k] \in Nat /\ b.carry[k] \in Nat /\ ledger[p].own[k] \in Nat
          /\ new.carry[k] = Larger(a.carry[k], b.carry[k])
      BY <1>1, <2>3
    <3>2. /\ ledger[p].own[k] + a.carry[k] <= most \/ a.carry[k] = 0
          /\ ledger[p].own[k] + b.carry[k] <= most \/ b.carry[k] = 0
          /\ ledger[p].own[k] + a.carry[k] <= most \/ ledger[p].own[k] + b.carry[k] <= most
      BY <1>4
    <3>3. most \in Nat
      <4>1. peak \in [Days -> Nat] /\ \A d \in Days : peak[d] <= peak[d]
        BY CellsAre
      <4>2. ledger[p].start \in Nat /\ new.start \in Nat /\ new.start <= new.start
        BY <2>1, <2>2, Rows, DaysFor
      <4>. QED  BY <4>1, <4>2, MeteredGrows
    <3>. HIDE DEF most
    <3>4. ledger[p].own[k] + new.carry[k] <= most
      BY <3>1, <3>2, <3>3 DEF Larger
    <3>. QED  BY <3>4 DEF most
  <2>. QED  BY <2>1, <2>4
<1>5. \A p, q \in P : p = q
  BY OnePrevious
<1>6. CASE (\A k \in T : a.carry[k] = 0) /\ (\A k \in T : b.carry[k] = 0)
  BY <1>1, <1>6 DEF Larger
<1>. HIDE DEF From, T, P
<1>. QED  BY <1>2, <1>4, <1>5, <1>6

(* A count is owed if the days up to the one it reaches hold as much. *)
OwnOf(new, plan, until) ==
  \A k \in Tiers(TierUpTo[plan]) : new.own[k] <= Metered(peak, new.start, until, plan)[k]

LEMMA StatementOwed ==
  ASSUME IInv, Owed, pass # NoPass, StillTheOrgs(pass.sub), NEW plan \in Plans, NEW row,
         row = Statement(pass.sub, plan, pass.now),
         pass.sub.start \in DOMAIN ledger => ledger[pass.sub.start].plan = plan,
         NEW until \in Nat, row.through <= until,
         pass.sub.start \in DOMAIN ledger => ledger[pass.sub.start].through <= until
  PROVE  OwnOf(row, plan, until) /\ CarriesOf(row, plan)
<1>. DEFINE s == pass.sub
            T == Tiers(TierUpTo[plan])
            win == windowOf(s)
            first == s.start \notin DOMAIN ledger
            old == ledger[s.start]
            thr == throughDay(win, pass.now)
            own == Split(sum(cells, win.start, thr), allowance, TierUpTo[plan])
            carried == carryInto(s, plan, win)
<1>1. /\ row.start = win.start /\ row.through = thr
      /\ row.own = IF first THEN own ELSE maxEach(old.own, own)
      /\ row.carry = IF first THEN carried ELSE maxEach(old.carry, carried)
  BY DEF Statement
<1>2. row \in Row /\ row.start \in Nat /\ row.through \in Nat /\ (~first => row.start = old.start)
  <2>1. row \in Row /\ row.start = windowOf(s).start
    BY StatementIs
  <2>2. row.start \in Nat /\ row.through \in Nat
    BY <2>1 DEF Row
  <2>3. ~first => windowOf(s).start = old.start
    BY Window
  <2>. QED  BY <2>1, <2>2, <2>3
<1>3. carried \in [T -> Nat] /\ DOMAIN own = T
  BY CarryType DEF Split
<1>4. ~first => /\ old.own \in [T -> Nat] /\ old.carry \in [T -> Nat] /\ old.plan = plan
                /\ old.start \in Nat /\ old.through \in Nat
  BY Rows
<1>5. cells \in [Days -> Nat] /\ peak \in [Days -> Nat] /\ \A d \in Days : cells[d] <= peak[d]
  BY CellsAre DEF Owed
<1>6. ASSUME NEW k \in T
      PROVE  row.own[k] <= Metered(peak, row.start, until, plan)[k]
  <2>. DEFINE most == Metered(peak, row.start, until, plan)[k]
  <2>1. own[k] \in Nat /\ own[k] <= most /\ most \in Nat
    <3>1. /\ sum(cells, row.start, row.through) \in Nat /\ sum(peak, row.start, until) \in Nat
          /\ sum(cells, row.start, row.through) <= sum(peak, row.start, until)
      BY <1>2, <1>5, DaysGrow
    <3>2. TierUpTo[plan] \in Seq(Nat) /\ allowance \in Nat
      BY TierBounds, Numbers DEF IInv, Typed, TypeOK
    <3>3. own = Split(sum(cells, row.start, row.through), allowance, TierUpTo[plan])
      BY <1>1
    <3>. HIDE DEF own
    <3>. QED  BY <3>1, <3>2, <3>3, SplitGrows DEF Metered
  <2>2. ~first => old.own[k] \in Nat /\ old.own[k] <= most
    <3>. SUFFICES ASSUME ~first PROVE old.own[k] \in Nat /\ old.own[k] <= most
      OBVIOUS
    <3>. DEFINE less == Metered(peak, old.start, old.through, plan)[k]
    <3>1. \A d \in Days : peak[d] <= peak[d]
      BY <1>5
    <3>2. old.start \in Nat /\ old.through \in Nat /\ old.through <= until /\ row.start = old.start
      BY <1>2, <1>4
    <3>3. less \in Nat /\ less <= most
      BY <1>5, <3>1, <3>2, MeteredGrows
    <3>4. old.own[k] \in Nat /\ old.own[k] <= less
      BY <1>4 DEF Owed
    <3>. HIDE DEF less, most, old
    <3>. QED  BY <2>1, <3>3, <3>4
  <2>3. row.own[k] = IF first THEN own[k] ELSE Larger(old.own[k], own[k])
    <3>. HIDE DEF own, old
    <3>. QED  BY <1>1, <1>3, <1>4 DEF maxEach
  <2>. HIDE DEF own, old, most
  <2>4. row.own[k] <= most
    BY <2>1, <2>2, <2>3 DEF Larger
  <2>. QED  BY <2>4 DEF most
<1>7. CarriesOf(row, plan)
  <2>. DEFINE new == [start |-> win.start, carry |-> carried]
  <2>1. CarriesOf(new, plan)
    <3>1. new.start = win.start /\ new.carry = carryInto(s, plan, win)
      OBVIOUS
    <3>. HIDE DEF new, win
    <3>. QED  BY <3>1, CarriedOwed
  <2>2. new.start = row.start /\ new.carry = carried
    BY <1>1
  <2>. HIDE DEF new, carried, own, thr, win
  <2>3. CASE first
    <3>1. row.carry = new.carry /\ row.start = new.start
      BY <1>1, <2>2, <2>3
    <3>. QED  BY <2>1, <3>1 DEF CarriesOf
  <2>4. CASE ~first
    <3>1. CarriesOf(old, plan)
      BY <1>4, <2>4, CarriedStillOwed
    <3>2. row.carry = maxEach(old.carry, new.carry) /\ old.start = new.start /\ row.start = old.start
      BY <1>1, <1>2, <2>2, <2>4
    <3>3. old.carry \in [T -> Nat] /\ new.carry \in [T -> Nat]
      BY <1>3, <1>4, <2>2, <2>4
    <3>. HIDE DEF old
    <3>. QED  BY <2>1, <3>1, <3>2, <3>3, LargerOwed
  <2>. QED  BY <2>3, <2>4
<1>. HIDE DEF win
<1>. QED  BY <1>6, <1>7 DEF OwnOf

(* Whatever a pass makes of the row, what the row states is owed. *)
LEMMA StateCounts ==
  ASSUME IInv, Owed, State, NEW new, new = ledger'[pass.sub.start]
  PROVE  OwnOf(new, new.plan, new.through) /\ CarriesOf(new, new.plan)
<1>. DEFINE s == pass.sub
            old == ledger[s.start]
<1>1. /\ pass # NoPass /\ StillTheOrgs(s) /\ States
      /\ UNCHANGED <<cells, peak, sub, held>>
  BY StateStates
<1>2. Restated(new)
  BY <1>1 DEF States
<1>3. PICK t \in sub :
        LET known == s.start \in DOMAIN ledger
            row == Statement(s, t.plan, pass.now)
        IN  /\ known => ledger[s.start].plan = t.plan
            /\ IF known /\ row.own = ledger[s.start].own /\ row.carry = ledger[s.start].carry
               THEN Advance(s.start, row) /\ pass' = NoPass
               ELSE WriteAhead(s.start, row) /\ pass' = [pass EXCEPT !.pc = "ingest"]
  BY DEF State
<1>. DEFINE row == Statement(s, t.plan, pass.now)
<1>4. t.plan \in Plans
  BY SubIs
<1>5. s.start \in DOMAIN ledger => old.plan = t.plan
  BY <1>3
<1>6. \/ s.start \in DOMAIN ledger /\ Advance(s.start, row)
      \/ WriteAhead(s.start, row)
  BY <1>3
<1>. HIDE DEF row
<1>7. row = Statement(s, t.plan, pass.now)
  BY DEF row
<1>8. /\ new.start \in Nat /\ new.through \in Nat
      /\ s.start \in DOMAIN ledger =>
           new.start = old.start /\ new.plan = old.plan /\ new.through >= old.through
  BY <1>2 DEF Restated, Row
<1>9. CASE s.start \in DOMAIN ledger /\ Advance(s.start, row)
  <2>1. new.own = old.own /\ new.carry = old.carry
    BY <1>1, <1>4, <1>5, <1>7, <1>9, AdvanceRestates
  <2>2. CarriesOf(old, t.plan)
    BY <1>1, <1>5, <1>9, CarriedStillOwed
  <2>3. CarriesOf(new, new.plan)
    <3>1. new.start = old.start /\ new.plan = t.plan
      BY <1>5, <1>8, <1>9
    <3>. HIDE DEF old
    <3>. QED  BY <2>1, <2>2, <3>1 DEF CarriesOf
  <2>4. ASSUME NEW k \in Tiers(TierUpTo[new.plan])
        PROVE  new.own[k] <= Metered(peak, new.start, new.through, new.plan)[k]
    <3>. DEFINE less == Metered(peak, old.start, old.through, old.plan)[k]
                most == Metered(peak, new.start, new.through, new.plan)[k]
    <3>1. peak \in [Days -> Nat] /\ \A d \in Days : peak[d] <= peak[d]
      BY CellsAre
    <3>2. /\ old.start \in Nat /\ old.through \in Nat /\ old.plan \in Plans
          /\ old.own[k] \in Nat
      BY <1>8, <1>9, Rows
    <3>3. less \in Nat /\ most \in Nat /\ less <= most
      BY <1>8, <1>9, <3>1, <3>2, MeteredGrows
    <3>4. old.own[k] <= less
      BY <1>8, <1>9 DEF Owed
    <3>. HIDE DEF less, most, old
    <3>5. new.own[k] <= most
      BY <2>1, <3>2, <3>3, <3>4
    <3>. QED  BY <3>5 DEF most
  <2>. QED  BY <2>3, <2>4 DEF OwnOf
<1>10. CASE WriteAhead(s.start, row)
  <2>1. /\ row \in Row /\ row.plan = t.plan /\ row.start \in Nat /\ row.through \in Nat
        /\ row.end \in Nat /\ row.through <= row.end
        /\ s.start \in DOMAIN ledger => row.start = old.start
    <3>1. /\ row \in Row /\ row.plan = t.plan /\ row.start = windowOf(s).start
          /\ row.through <= row.end
      BY <1>1, <1>4, <1>5, <1>7, StatementIs
    <3>2. row.start \in Nat /\ row.through \in Nat /\ row.end \in Nat
      BY <3>1 DEF Row
    <3>3. s.start \in DOMAIN ledger => windowOf(s).start = old.start
      BY <1>1, Window
    <3>. QED  BY <3>1, <3>2, <3>3
  <2>2. /\ new.own = row.own /\ new.carry = row.carry /\ new.plan = row.plan
        /\ new.start = row.start /\ row.through <= new.through
    <3>1. CASE s.start \notin DOMAIN ledger
      <4>1. ledger' = [q \in DOMAIN ledger \cup {s.start} |-> IF q = s.start THEN row ELSE ledger[q]]
        BY <1>10, <3>1 DEF WriteAhead
      <4>2. new = row
        BY <4>1
      <4>. QED  BY <2>1, <4>2
    <3>2. CASE s.start \in DOMAIN ledger
      <4>. DEFINE thr == Smaller(Larger(old.through, row.through), row.end)
                  r == [row EXCEPT !.start = old.start, !.through = thr]
      <4>1. ledger' = [ledger EXCEPT ![s.start] = r]
        BY <1>10, <3>2 DEF WriteAhead
      <4>2. new = r
        <5>. HIDE DEF r
        <5>. QED  BY <3>2, <4>1
      <4>3. old.through \in Nat
        BY <3>2, Rows
      <4>4. row.through <= thr
        BY <2>1, <4>3 DEF Larger, Smaller
      <4>. HIDE DEF thr
      <4>5. r.own = row.own /\ r.carry = row.carry /\ r.plan = row.plan /\ r.start = old.start /\ r.through = thr
        BY <2>1 DEF Row
      <4>. QED  BY <2>1, <3>2, <4>2, <4>4, <4>5
    <3>. QED  BY <3>1, <3>2
  <2>3. s.start \in DOMAIN ledger => old.through <= new.through
    BY <1>8, Rows
  <2>4. OwnOf(row, t.plan, new.through) /\ CarriesOf(row, t.plan)
    BY <1>1, <1>4, <1>5, <1>7, <1>8, <2>2, <2>3, StatementOwed
  <2>. QED  BY <2>1, <2>2, <2>4 DEF OwnOf, CarriesOf
<1>. QED  BY <1>6, <1>9, <1>10

(* Stating keeps what is owed: the row that is stated is the live period's, which no
   other period carries from.                                                       *)
LEMMA StateOwed == IInv /\ IInv' /\ Owed /\ State => Owed'
<1>. SUFFICES ASSUME IInv, IInv', Owed, State PROVE Owed'
  OBVIOUS
<1>0. PICK s : s = pass.sub
  OBVIOUS
<1>. DEFINE new == ledger'[s.start]
<1>1. /\ pass # NoPass /\ StillTheOrgs(s) /\ States
      /\ UNCHANGED <<cells, peak, sub, subs, held>>
  BY <1>0, StateStates
<1>2. /\ DOMAIN ledger' = DOMAIN ledger \cup {s.start}
      /\ \A p \in DOMAIN ledger \ {s.start} : ledger'[p] = ledger[p]
      /\ Restated(new)
  BY <1>0, <1>1 DEF States
<1>3. OwnOf(new, new.plan, new.through) /\ CarriesOf(new, new.plan)
  BY <1>0, StateCounts
<1>4. /\ new \in Row /\ new.sub = s.id /\ new.start <= new.through
      /\ DOMAIN new.carry = Tiers(TierUpTo[new.plan])
      /\ s.start \in DOMAIN ledger =>
           new.start = ledger[s.start].start /\ new.plan = ledger[s.start].plan
      /\ s.start \notin DOMAIN ledger =>
           \A q \in DOMAIN ledger : daysFor(ledger[q], s.id).end <= new.start
  BY <1>0, <1>2 DEF Restated
<1>5. PICK t \in sub : t.id = s.id /\ t.start = s.start
  BY <1>1 DEF StillTheOrgs
<1>6. sub = {t} /\ s.id = subs /\ s.start \in Instants
  BY <1>0, <1>1, <1>5, SubIs, PassIs
<1>. HIDE DEF new
<1>7. ledger'[s.start] = new
  BY DEF new
<1>8. previous(s.start, s.id)' = previous(s.start, s.id)
  <2>1. DOMAIN ledger' \ {s.start} = DOMAIN ledger \ {s.start}
    BY <1>2
  <2>. QED  BY <1>2, <2>1 DEF previous
<1>9. (\A p \in DOMAIN ledger : \A k \in 1 .. MaxTiers :
         k \notin Tiers(TierUpTo[ledger[p].plan]) => held[p][k] = 0)'
  <2>1. ASSUME NEW p \in DOMAIN ledger', NEW k \in 1 .. MaxTiers,
               k \notin Tiers(TierUpTo[ledger'[p].plan])
        PROVE  held[p][k] = 0
    <3>1. CASE p = s.start /\ p \notin DOMAIN ledger
      BY <1>6, <3>1 DEF IInv, LedgerNeverUnderstates
    <3>2. CASE p \in DOMAIN ledger
      <4>1. ledger'[p].plan = ledger[p].plan
        BY <1>2, <1>4, <1>7, <3>2
      <4>. QED  BY <2>1, <3>2, <4>1 DEF Owed
    <3>. QED  BY <1>2, <2>1, <3>1, <3>2
  <2>. QED  BY <1>1, <2>1
<1>10. (\A p \in DOMAIN ledger : \A k \in Tiers(TierUpTo[ledger[p].plan]) :
          ledger[p].own[k] <= Metered(peak, ledger[p].start, ledger[p].through, ledger[p].plan)[k])'
  <2>1. ASSUME NEW p \in DOMAIN ledger', NEW k \in Tiers(TierUpTo[ledger'[p].plan])
        PROVE  ledger'[p].own[k]
                 <= Metered(peak, ledger'[p].start, ledger'[p].through, ledger'[p].plan)[k]
    <3>1. CASE p = s.start
      BY <1>3, <1>7, <3>1 DEF OwnOf
    <3>2. CASE p # s.start
      <4>1. p \in DOMAIN ledger /\ ledger'[p] = ledger[p]
        BY <1>2, <2>1, <3>2
      <4>. QED  BY <4>1 DEF Owed
    <3>. QED  BY <3>1, <3>2
  <2>. QED  BY <1>1, <2>1
<1>11. (\A q \in DOMAIN ledger :
          CarriesNothing(q) \/ \E p \in DOMAIN ledger \ {q} : CarriesFrom(p, q))'
  <2>1. CarriesNothing(s.start)' \/ \E p \in DOMAIN ledger \ {s.start} : CarriesFrom(p, s.start)'
    <3>1. CASE \A k \in Tiers(TierUpTo[new.plan]) : new.carry[k] = 0
      BY <1>4, <1>7, <3>1 DEF CarriesNothing
    <3>2. ASSUME NEW p \in previous(s.start, s.id),
                 ledger[p].plan = new.plan, daysFor(ledger[p], s.id).end = new.start,
                 \A k \in Tiers(TierUpTo[new.plan]) :
                   ledger[p].own[k] + new.carry[k] <= Metered(peak, ledger[p].start, new.start, new.plan)[k]
          PROVE  p \in DOMAIN ledger \ {s.start} /\ CarriesFrom(p, s.start)'
      <4>1. p \in DOMAIN ledger \ {s.start}
        BY DEF previous
      <4>2. ledger'[p] = ledger[p]
        BY <1>2, <4>1
      <4>3. (\A u \in sub : u.start # p /\ (u.start = s.start => p \in previous(s.start, ledger[s.start].sub)))'
        <5>1. previous(s.start, ledger[s.start].sub)' = previous(s.start, s.id)
          BY <1>4, <1>7, <1>8
        <5>. QED  BY <1>1, <1>5, <1>6, <4>1, <5>1
      <4>4. daysFor(ledger'[p], ledger'[s.start].sub).end = ledger'[s.start].start
        BY <1>4, <1>7, <3>2, <4>2
      <4>5. ledger'[p].plan = ledger'[s.start].plan
        BY <1>7, <3>2, <4>2
      <4>6. \A k \in Tiers(TierUpTo[ledger'[p].plan]) :
              ledger'[p].own[k] + ledger'[s.start].carry[k]
                <= Metered(peak', ledger'[p].start, ledger'[s.start].start, ledger'[p].plan)[k]
        BY <1>1, <1>7, <3>2, <4>2
      <4>. QED  BY <4>1, <4>3, <4>4, <4>5, <4>6 DEF CarriesFrom
    <3>. QED  BY <1>0, <1>3, <3>1, <3>2 DEF CarriesOf
  <2>2. ASSUME NEW q \in DOMAIN ledger \ {s.start}
        PROVE  CarriesNothing(q)' \/ \E p \in DOMAIN ledger \ {q} : CarriesFrom(p, q)'
    <3>1. ledger'[q] = ledger[q]
      BY <1>2
    <3>2. CASE CarriesNothing(q)
      BY <3>1, <3>2 DEF CarriesNothing
    <3>3. CASE \E p \in DOMAIN ledger \ {q} : CarriesFrom(p, q)
      <4>1. PICK p \in DOMAIN ledger \ {q} : CarriesFrom(p, q)
        BY <3>3
      <4>2. p # s.start /\ \A u \in sub : u.start = s.start
        BY <1>5, <1>6, <4>1 DEF CarriesFrom
      <4>3. ledger'[p] = ledger[p]
        BY <1>2, <4>2
      <4>4. (\A u \in sub : u.start # p /\ (u.start = q => p \in previous(q, ledger[q].sub)))'
        BY <1>1, <4>2
      <4>5. CarriesFrom(p, q)'
        BY <1>1, <3>1, <4>1, <4>3, <4>4 DEF CarriesFrom
      <4>. QED  BY <4>5
    <3>. QED  BY <3>2, <3>3 DEF Owed
  <2>. HIDE DEF CarriesFrom, CarriesNothing
  <2>. QED  BY <1>2, <2>1, <2>2
<1>12. (\A p, q \in DOMAIN ledger :
          ledger[p].sub < ledger[q].sub => ledger[p].through <= ledger[q].start)'
  <2>1. ASSUME NEW p \in DOMAIN ledger', NEW q \in DOMAIN ledger', ledger'[p].sub < ledger'[q].sub
        PROVE  ledger'[p].through <= ledger'[q].start
    <3>0. /\ \A r \in DOMAIN ledger : ledger[r].sub <= subs /\ ledger[r].sub \in Nat
          /\ s.id \in Nat
      BY <1>0, <1>1, Rows, PassIs DEF IInv, Live
    <3>1. CASE p = s.start
      <4>1. q # s.start
        BY <1>4, <1>7, <2>1, <3>0, <3>1
      <4>2. q \in DOMAIN ledger /\ ledger'[q] = ledger[q]
        BY <1>2, <2>1, <4>1
      <4>. QED  BY <1>4, <1>6, <1>7, <2>1, <3>0, <3>1, <4>2
    <3>2. CASE p # s.start /\ q = s.start
      <4>1. p \in DOMAIN ledger /\ ledger'[p] = ledger[p] /\ p \in DOMAIN ledger \ {s.start}
        BY <1>2, <2>1, <3>2
      <4>2. ledger[p].sub # s.id
        BY <1>4, <1>7, <2>1, <3>0, <3>2, <4>1
      <4>3. daysFor(ledger[p], s.id).end = ledger[p].through
        BY <4>1, <4>2, DaysFor
      <4>4. CASE s.start \in DOMAIN ledger
        <5>1. Before(p, s.start) /\ ledger[s.start].sub = s.id
          BY <1>0, <1>1, <4>1, <4>4, KnownRow
        <5>. QED  BY <1>4, <1>7, <3>2, <4>1, <4>3, <4>4, <5>1 DEF Before
      <4>5. CASE s.start \notin DOMAIN ledger
        BY <1>4, <1>7, <3>2, <4>1, <4>3, <4>5
      <4>. QED  BY <4>4, <4>5
    <3>3. CASE p # s.start /\ q # s.start
      <4>1. /\ p \in DOMAIN ledger /\ ledger'[p] = ledger[p]
            /\ q \in DOMAIN ledger /\ ledger'[q] = ledger[q]
        BY <1>2, <2>1, <3>3
      <4>. QED  BY <2>1, <4>1 DEF Owed
    <3>. QED  BY <3>1, <3>2, <3>3
  <2>. QED  BY <2>1
<1>13. (\A d \in Days : cells[d] <= peak[d])'
  BY <1>1 DEF Owed
<1>. HIDE DEF CarriesFrom, CarriesNothing
<1>. QED  BY <1>9, <1>10, <1>11, <1>12, <1>13 DEF Owed

(* The ledger states what is owed. *)
LEMMA NextOwed == IInv /\ Owed /\ [Next]_vars => Owed'
<1>. SUFFICES ASSUME IInv, Owed, [Next]_vars PROVE Owed'
  OBVIOUS
<1>1. IInv'
  BY NextIInv
<1>2. CASE World
  BY <1>1, <1>2, WorldOwed
<1>3. CASE Begin \/ Superseded \/ Fail \/ UNCHANGED vars
  BY <1>1, <1>3, RestOwed
<1>4. CASE State
  BY <1>1, <1>4, StateOwed
<1>5. CASE Ingest
  BY <1>1, <1>5, IngestOwed
<1>6. CASE ack
  BY <1>1, <1>6, AckOwed
<1>. QED  BY <1>2, <1>3, <1>4, <1>5, <1>6 DEF Next, Pass

(* What the ledger states stays owed through every step of the pass, the deal and the
   world: a period's own count is of days it has seen, and a shortfall carried (carryInto)
   is, with what the period before states of its own, of that period's days.           *)
THEOREM MeterStatesOwed == Spec => []Owed
<1>1. IInv /\ Owed /\ [Next]_vars => Owed'
  BY NextOwed
<1>. QED  BY <1>1, InitOwed, MeterKept, PTL DEF Spec

(* What the meters hold, all periods together. *)
Billed(g) ==
  g = [s \in SUBSET Instants |->
         IF s = {} THEN 0 ELSE SumFunction(held[pick(s)]) + g[s \ {pick(s)}]]

LEMMA BilledIs ==
  MapThenSumSet(LAMBDA p : SumFunction(held[p]), Instants) = (CHOOSE g : Billed(g))[Instants]
BY DEF MapThenSumSet, MapThenFoldSet, Billed, pick

(* The recursion has one outcome. *)
LEMMA FollowsSum ==
  ASSUME NEW f, NEW S, IsFiniteSet(S), \A x \in S : f[x] \in Nat, NEW g, Follows(g, f, SUBSET S)
  PROVE  g[S] = SumFunctionOnSet(f, S)
<1>. DEFINE Bad == {s \in SUBSET S : g[s] # SumFunctionOnSet(f, s)}
<1>1. Bad = {}
  <2>1. SUFFICES ASSUME Bad # {} PROVE FALSE
    OBVIOUS
  <2>2. PICK s \in Bad : \A x \in s : s \ {x} \notin Bad
    <3>1. Bad \in SUBSET SUBSET S
      OBVIOUS
    <3>. HIDE DEF Bad
    <3>. QED  BY <2>1, <3>1, Smallest
  <2>3. s \in SUBSET S /\ g[s] # SumFunctionOnSet(f, s)
    BY <2>2
  <2>4. g[s] = IF s = {} THEN 0 ELSE f[pick(s)] + g[s \ {pick(s)}]
    BY <2>3 DEF Follows
  <2>5. s # {}
    BY <2>3, <2>4, SumEmpty
  <2>. DEFINE x == pick(s)
  <2>6. x \in s
    BY <2>5 DEF pick
  <2>7. g[s \ {x}] = SumFunctionOnSet(f, s \ {x})
    BY <2>2, <2>3, <2>6
  <2>8. g[s] = f[x] + g[s \ {x}]
    BY <2>4, <2>5
  <2>. HIDE DEF x, Bad
  <2>9. IsFiniteSet(s) /\ \A y \in s : f[y] \in Nat
    BY <2>3, FS_Subset
  <2>10. SumFunctionOnSet(f, s) = f[x] + SumFunctionOnSet(f, s \ {x})
    BY <2>6, <2>9, SumTakes
  <2>. QED  BY <2>3, <2>7, <2>8, <2>10
<1>. QED  BY <1>1

LEMMA InstantsAre == Instants \subseteq Nat /\ IsFiniteSet(Instants)
BY Numbers, FS_Interval DEF Instants

LEMMA HeldIs ==
  ASSUME IInv, NEW p \in Instants
  PROVE  /\ held[p] \in [1 .. MaxTiers -> Nat] /\ IsFiniteSet(1 .. MaxTiers)
         /\ SumFunction(held[p]) = SumFunctionOnSet(held[p], 1 .. MaxTiers)
         /\ SumFunction(held[p]) \in Nat
<1>1. held[p] \in [1 .. MaxTiers -> Nat]
  BY DEF IInv, Typed, TypeOK, Counts
<1>2. IsFiniteSet(1 .. MaxTiers)
  BY TiersFit, FS_Interval
<1>3. SumFunction(held[p]) = SumFunctionOnSet(held[p], 1 .. MaxTiers)
  BY <1>1 DEF SumFunction
<1>4. SumFunctionOnSet(held[p], 1 .. MaxTiers) \in Nat
  BY <1>1, <1>2, SumType
<1>. QED  BY <1>1, <1>2, <1>3, <1>4

LEMMA BilledSum ==
  ASSUME IInv
  PROVE  MapThenSumSet(LAMBDA p : SumFunction(held[p]), Instants) =
           SumFunctionOnSet([p \in Instants |-> SumFunction(held[p])], Instants)
<1>. DEFINE f == [p \in Instants |-> SumFunction(held[p])]
<1>1. IsFiniteSet(Instants) /\ \A p \in Instants : f[p] \in Nat
  BY InstantsAre, HeldIs
<1>2. \A s \in SUBSET Instants : s # {} => f[pick(s)] = SumFunction(held[pick(s)])
  BY DEF pick
<1>. HIDE DEF f
<1>3. \A g : Follows(g, f, SUBSET Instants) <=> Billed(g)
  <2>. SUFFICES ASSUME NEW g PROVE Follows(g, f, SUBSET Instants) <=> Billed(g)
    OBVIOUS
  <2>1. \A s \in SUBSET Instants :
          (IF s = {} THEN 0 ELSE f[pick(s)] + g[s \ {pick(s)}]) =
          (IF s = {} THEN 0 ELSE SumFunction(held[pick(s)]) + g[s \ {pick(s)}])
    BY <1>2
  <2>2. [s \in SUBSET Instants |-> IF s = {} THEN 0 ELSE f[pick(s)] + g[s \ {pick(s)}]] =
        [s \in SUBSET Instants |-> IF s = {} THEN 0 ELSE SumFunction(held[pick(s)]) + g[s \ {pick(s)}]]
    BY <2>1
  <2>. QED  BY <2>2 DEF Follows, Billed
<1>4. \E g : Billed(g)
  <2>1. \E g : Follows(g, f, SUBSET Instants)
    BY <1>1, SumExists
  <2>. QED  BY <1>3, <2>1
<1>. DEFINE b == CHOOSE g : Billed(g)
<1>5. Billed(b)
  BY <1>4
<1>6. MapThenSumSet(LAMBDA p : SumFunction(held[p]), Instants) = b[Instants]
  BY BilledIs
<1>. HIDE DEF b
<1>7. Follows(b, f, SUBSET Instants)
  BY <1>3, <1>5
<1>8. b[Instants] = SumFunctionOnSet(f, Instants)
  BY <1>1, <1>7, FollowsSum
<1>. QED  BY <1>6, <1>8 DEF f

(* Only what is not nothing counts. *)
LEMMA SumWithin ==
  ASSUME NEW c, NEW S, IsFiniteSet(S), \A x \in S : c[x] \in Nat,
         NEW d, NEW T, IsFiniteSet(T), \A y \in T : d[y] \in Nat,
         \A x \in S : c[x] # 0 => x \in T /\ c[x] <= d[x]
  PROVE  SumFunctionOnSet(c, S) <= SumFunctionOnSet(d, T)
<1>. DEFINE m == [x \in S |-> x]
<1>1. /\ \A x \in S : c[x] # 0 => m[x] \in T /\ c[x] <= d[m[x]]
      /\ \A x, y \in S : c[x] # 0 /\ c[y] # 0 /\ m[x] = m[y] => x = y
  OBVIOUS
<1>. HIDE DEF m
<1>. QED  BY <1>1, SumMoved

LEMMA SumZero ==
  ASSUME NEW c, NEW S, IsFiniteSet(S), \A x \in S : c[x] = 0
  PROVE  SumFunctionOnSet(c, S) = 0
<1>1. IsFiniteSet({}) /\ SumFunctionOnSet(c, {}) = 0
  BY FS_EmptySet, SumEmpty
<1>2. \A x \in S : c[x] \in Nat
  OBVIOUS
<1>3. SumFunctionOnSet(c, S) <= SumFunctionOnSet(c, {})
  BY <1>1, <1>2, SumWithin
<1>4. SumFunctionOnSet(c, S) \in Nat
  BY <1>2, SumType
<1>. QED  BY <1>1, <1>3, <1>4

(* The tiers of a plan share out the events of a period and count none twice. *)
LEMMA TiersSum ==
  ASSUME NEW total \in Nat, NEW u \in Seq(Nat), Rising(u), NEW c,
         \A k \in Tiers(u) : c[k] \in Nat /\ c[k] <= Split(total, 0, u)[k]
  PROVE  SumFunctionOnSet(c, Tiers(u)) <= total
<1>. DEFINE U == 0 .. total - 1
            T == Tiers(u)
            part == [k \in T |-> {i \in U : FallsIn(i, k, 0, u)}]
            h == [k \in T |-> Cardinality(part[k])]
<1>1. IsFiniteSet(U) /\ Cardinality(U) = total /\ U \subseteq Nat
  <2>1. 0 \in Int /\ total - 1 \in Int
    OBVIOUS
  <2>2. IsFiniteSet(U) /\ Cardinality(U) = IF 0 > total - 1 THEN 0 ELSE total - 1 - 0 + 1
    BY <2>1, FS_Interval
  <2>. QED  BY <2>2
<1>2. IsFiniteSet(T)
  <2>1. Len(u) + 1 \in Nat
    BY LenProperties
  <2>. QED  BY <2>1, FS_Interval DEF Tiers
<1>3. part \in [T -> SUBSET U]
  OBVIOUS
<1>4. \A j, k \in T : j # k => part[j] \cap part[k] = {}
  <2>. SUFFICES ASSUME NEW j \in T, NEW k \in T, j # k, NEW i \in part[j], i \in part[k]
                PROVE  FALSE
    OBVIOUS
  <2>1. i \in Nat /\ FallsIn(i, j, 0, u) /\ FallsIn(i, k, 0, u)
    BY <1>1
  <2>. QED  BY <2>1, TiersPartition
<1>5. \A k \in T : h[k] = Cardinality(part[k]) /\ h[k] = Split(total, 0, u)[k]
  <2>. SUFFICES ASSUME NEW k \in T PROVE Cardinality(part[k]) = Split(total, 0, u)[k]
    OBVIOUS
  <2>1. part[k] = {i \in U : FallsIn(i, k, 0, u)}
    OBVIOUS
  <2>. QED  BY <2>1, TiersCount
<1>6. \A k \in T : c[k] \in Nat /\ c[k] <= h[k] /\ h[k] \in Nat
  <2>1. \A k \in T : part[k] \in SUBSET U
    OBVIOUS
  <2>2. \A k \in T : Cardinality(part[k]) \in Nat
    BY <1>1, <2>1, FS_Subset, FS_CardinalityType
  <2>. QED  BY <1>5, <2>2
<1>. HIDE DEF part, h, U
<1>7. SumFunctionOnSet(h, T) <= Cardinality(U)
  BY <1>1, <1>2, <1>3, <1>4, <1>5, CountOfParts
<1>8. /\ SumFunctionOnSet(c, T) \in Nat /\ SumFunctionOnSet(h, T) \in Nat
      /\ SumFunctionOnSet(c, T) <= SumFunctionOnSet(h, T)
  <2>1. T \in SUBSET T
    OBVIOUS
  <2>. HIDE DEF T
  <2>. QED  BY <1>2, <1>6, <2>1, SumGrows
<1>. QED  BY <1>1, <1>7, <1>8

(* What a period states of its own and what it carries, all tiers together. *)
tiersOf(p) == Tiers(TierUpTo[ledger[p].plan])
Own(p) == SumFunctionOnSet(ledger[p].own, tiersOf(p))
Carried(p) == SumFunctionOnSet(ledger[p].carry, tiersOf(p))

(* The period one carries from, the ones that carry from it, and the days and the
   events it and the one that carries from it state between them.                  *)
From(q) == CHOOSE p \in DOMAIN ledger \ {q} : CarriesFrom(p, q)
Heirs(p) == {q \in DOMAIN ledger : Carried(q) # 0 /\ From(q) = p}
heir(p) == CHOOSE q \in Heirs(p) : TRUE
Until(p) == IF Heirs(p) = {} THEN ledger[p].through ELSE ledger[heir(p)].start
Left(p) == IF Heirs(p) = {} THEN 0 ELSE Carried(heir(p))
DaysOf(p) == {d \in Days : ledger[p].start <= d /\ d < Until(p)}

LEMMA Counted ==
  ASSUME IInv, NEW p \in DOMAIN ledger
  PROVE  /\ IsFiniteSet(tiersOf(p)) /\ tiersOf(p) \subseteq 1 .. MaxTiers
         /\ ledger[p].own \in [tiersOf(p) -> Nat] /\ ledger[p].carry \in [tiersOf(p) -> Nat]
         /\ Own(p) \in Nat /\ Carried(p) \in Nat
<1>1. ledger[p].plan \in Plans
  BY Rows
<1>2. tiersOf(p) \subseteq 1 .. MaxTiers
  BY <1>1, TiersFit DEF tiersOf
<1>3. IsFiniteSet(tiersOf(p))
  <2>1. IsFiniteSet(1 .. MaxTiers)
    BY TiersFit, FS_Interval
  <2>. QED  BY <1>2, <2>1, FS_Subset
<1>4. ledger[p].own \in [tiersOf(p) -> Nat] /\ ledger[p].carry \in [tiersOf(p) -> Nat]
  BY Rows DEF tiersOf
<1>5. Own(p) \in Nat /\ Carried(p) \in Nat
  BY <1>3, <1>4, SumType DEF Own, Carried
<1>. QED  BY <1>2, <1>3, <1>4, <1>5

(* A period that carries anything carries it from one. *)
LEMMA FromOne ==
  ASSUME IInv, Owed, NEW q \in DOMAIN ledger, Carried(q) # 0
  PROVE  From(q) \in DOMAIN ledger \ {q} /\ CarriesFrom(From(q), q) /\ ~CarriesNothing(q)
<1>1. ~CarriesNothing(q)
  <2>. SUFFICES ASSUME CarriesNothing(q) PROVE FALSE
    OBVIOUS
  <2>1. \A k \in tiersOf(q) : ledger[q].carry[k] = 0
    BY Counted DEF CarriesNothing
  <2>. QED  BY <2>1, Counted, SumZero DEF Carried
<1>2. \E p \in DOMAIN ledger \ {q} : CarriesFrom(p, q)
  BY <1>1 DEF Owed
<1>. HIDE DEF CarriesFrom
<1>. QED  BY <1>1, <1>2 DEF From

(* At most one carries from a period, where a shortfall is carried once. *)
LEMMA OneHeir ==
  ASSUME IInv, Owed, CarriedOnce, NEW q \in DOMAIN ledger, NEW r \in DOMAIN ledger,
         Carried(q) # 0, Carried(r) # 0, From(q) = From(r)
  PROVE  q = r
<1>. DEFINE p == From(q)
            after == {x \in DOMAIN ledger \ {p} :
                        ledger[x].start = daysFor(ledger[p], ledger[x].sub).end}
<1>1. /\ p \in DOMAIN ledger \ {q} /\ CarriesFrom(p, q) /\ ~CarriesNothing(q)
      /\ p \in DOMAIN ledger \ {r} /\ CarriesFrom(p, r) /\ ~CarriesNothing(r)
  BY FromOne
<1>. HIDE DEF p
<1>2. q \in after /\ r \in after
  BY <1>1 DEF CarriesFrom
<1>3. q # r => CarriesNothing(q) \/ CarriesNothing(r)
  BY <1>1, <1>2 DEF CarriedOnce, CarriesNothing
<1>. QED  BY <1>1, <1>3

LEMMA HeirIs ==
  ASSUME IInv, Owed, NEW p \in DOMAIN ledger, Heirs(p) # {}
  PROVE  /\ heir(p) \in DOMAIN ledger \ {p} /\ CarriesFrom(p, heir(p))
         /\ Carried(heir(p)) # 0 /\ From(heir(p)) = p
<1>1. heir(p) \in Heirs(p)
  BY DEF heir
<1>2. heir(p) \in DOMAIN ledger /\ Carried(heir(p)) # 0 /\ From(heir(p)) = p
  BY <1>1 DEF Heirs
<1>3. p \in DOMAIN ledger \ {heir(p)} /\ CarriesFrom(p, heir(p))
  BY <1>2, FromOne
<1>. QED  BY <1>2, <1>3

(* The days end with the window, at the latest, where one of its subscription carries. *)
LEMMA UntilIs ==
  ASSUME IInv, Owed, NEW p \in DOMAIN ledger
  PROVE  /\ Until(p) \in Nat /\ Until(p) <= ledger[p].end
         /\ \/ Until(p) = ledger[p].through
            \/ \E q \in DOMAIN ledger \ {p} : /\ ledger[q].sub = ledger[p].sub
                                             /\ Until(p) = ledger[q].start
<1>1. /\ ledger[p].through \in Nat /\ ledger[p].end \in Nat /\ ledger[p].through <= ledger[p].end
  BY Rows
<1>2. CASE Heirs(p) = {}
  BY <1>1, <1>2 DEF Until
<1>3. CASE Heirs(p) # {}
  <2>. DEFINE q == heir(p)
  <2>1. q \in DOMAIN ledger \ {p} /\ CarriesFrom(p, q) /\ Until(p) = ledger[q].start
    BY <1>3, HeirIs DEF Until
  <2>. HIDE DEF q
  <2>2. ledger[q].start = IF ledger[p].sub = ledger[q].sub THEN ledger[p].end ELSE ledger[p].through
    BY <2>1, DaysFor DEF CarriesFrom
  <2>. QED  BY <1>1, <2>1, <2>2
<1>. QED  BY <1>2, <1>3

(* Two periods state no day between them twice. *)
LEMMA DaysApart ==
  ASSUME IInv, Owed, NEW p \in DOMAIN ledger, NEW q \in DOMAIN ledger, p # q
  PROVE  DaysOf(p) \cap DaysOf(q) = {}
<1>1. ASSUME NEW a \in DOMAIN ledger, NEW b \in DOMAIN ledger, ledger[a].sub < ledger[b].sub
      PROVE  Until(a) <= ledger[b].start
  <2>1. ledger[a].through <= ledger[b].start /\ Until(a) \in Nat /\ ledger[b].start \in Nat
    BY <1>1, UntilIs, Rows DEF Owed
  <2>2. CASE Until(a) = ledger[a].through
    BY <2>1, <2>2
  <2>3. ASSUME NEW c \in DOMAIN ledger, ledger[c].sub = ledger[a].sub, Until(a) = ledger[c].start
        PROVE  Until(a) <= ledger[b].start
    <3>1. /\ ledger[c].start \in Nat /\ ledger[c].through \in Nat
          /\ ledger[c].start <= ledger[c].through
      BY Rows
    <3>2. ledger[c].through <= ledger[b].start
      BY <1>1, <2>3 DEF Owed
    <3>. QED  BY <2>1, <2>3, <3>1, <3>2
  <2>. QED  BY <2>2, <2>3, UntilIs
<1>2. ASSUME NEW a \in DOMAIN ledger, NEW b \in DOMAIN ledger, ledger[a].sub = ledger[b].sub,
             Before(a, b)
      PROVE  Until(a) <= ledger[b].start
  <2>1. daysFor(ledger[a], ledger[b].sub).end = ledger[a].end
    BY <1>2, DaysFor
  <2>2. ledger[a].end <= ledger[b].start
    BY <1>2, <2>1 DEF Before
  <2>3. Until(a) \in Nat /\ Until(a) <= ledger[a].end /\ ledger[a].end \in Nat /\ ledger[b].start \in Nat
    BY UntilIs, Rows
  <2>. QED  BY <2>2, <2>3
<1>3. Until(p) <= ledger[q].start \/ Until(q) <= ledger[p].start
  <2>1. ledger[p].sub \in Nat /\ ledger[q].sub \in Nat
    BY Rows
  <2>2. Before(p, q) \/ Before(q, p)
    BY DEF IInv, Windows
  <2>3. CASE ledger[p].sub = ledger[q].sub
    BY <1>2, <2>2, <2>3
  <2>4. CASE ledger[p].sub < ledger[q].sub
    BY <1>1, <2>4
  <2>5. CASE ledger[q].sub < ledger[p].sub
    BY <1>1, <2>5
  <2>. QED  BY <2>1, <2>3, <2>4, <2>5
<1>4. /\ Until(p) \in Nat /\ Until(q) \in Nat /\ ledger[p].start \in Nat /\ ledger[q].start \in Nat
  BY UntilIs, Rows
<1>5. Days \subseteq Nat
  BY Numbers, DayIs DEF Days
<1>6. SUFFICES ASSUME NEW d \in DaysOf(p), d \in DaysOf(q) PROVE FALSE
  OBVIOUS
<1>7. d \in Nat /\ ledger[p].start <= d /\ d < Until(p) /\ ledger[q].start <= d /\ d < Until(q)
  BY <1>5, <1>6 DEF DaysOf
<1>. QED  BY <1>3, <1>4, <1>7

(* What a period states of its own, and another carries from it, are events of its days. *)
LEMMA PeriodOwed ==
  ASSUME IInv, Owed, NEW p \in DOMAIN ledger
  PROVE  Own(p) + Left(p) <= SumFunctionOnSet(peak, DaysOf(p)) /\ Left(p) \in Nat
<1>. DEFINE u == TierUpTo[ledger[p].plan]
            total == sum(peak, ledger[p].start, Until(p))
<1>1. peak \in [Days -> Nat] /\ \A d \in Days : peak[d] <= peak[d]
  BY CellsAre
<1>2. /\ ledger[p].start \in Nat /\ ledger[p].through \in Nat /\ Until(p) \in Nat
      /\ ledger[p].plan \in Plans
  BY Rows, UntilIs
<1>3. total \in Nat /\ total = SumFunctionOnSet(peak, DaysOf(p))
  <2>1. Until(p) <= Until(p)
    BY <1>2
  <2>2. total \in Nat
    BY <1>1, <1>2, <2>1, DaysGrow
  <2>. QED  BY <1>1, <2>2 DEF sum, DaysOf
<1>4. u \in Seq(Nat) /\ Rising(u)
  BY <1>2, TierBounds, MeterAssumption
<1>5. /\ IsFiniteSet(tiersOf(p)) /\ tiersOf(p) = Tiers(u) /\ Own(p) \in Nat
      /\ \A k \in tiersOf(p) : ledger[p].own[k] \in Nat
  BY Counted DEF tiersOf
<1>6. CASE Heirs(p) = {}
  <2>1. Left(p) = 0 /\ Until(p) = ledger[p].through
    BY <1>6 DEF Left, Until
  <2>2. \A k \in Tiers(u) : ledger[p].own[k] \in Nat /\ ledger[p].own[k] <= Split(total, 0, u)[k]
    BY <1>5, <2>1 DEF Owed, Metered
  <2>. HIDE DEF total, u
  <2>3. SumFunctionOnSet(ledger[p].own, Tiers(u)) <= total
    BY <1>3, <1>4, <2>2, TiersSum
  <2>. QED  BY <1>3, <1>5, <2>1, <2>3 DEF Own
<1>7. CASE Heirs(p) # {}
  <2>. DEFINE q == heir(p)
  <2>1. /\ q \in DOMAIN ledger \ {p} /\ CarriesFrom(p, q)
        /\ Left(p) = Carried(q) /\ Until(p) = ledger[q].start
    BY <1>7, HeirIs DEF Left, Until
  <2>. HIDE DEF q
  <2>2. tiersOf(q) = tiersOf(p) /\ Carried(q) \in Nat /\ \A k \in tiersOf(p) : ledger[q].carry[k] \in Nat
    <3>1. tiersOf(q) = tiersOf(p)
      BY <2>1 DEF CarriesFrom, tiersOf
    <3>. QED  BY <2>1, <3>1, Counted
  <2>. DEFINE c == [k \in tiersOf(p) |-> ledger[p].own[k] + ledger[q].carry[k]]
  <2>3. \A k \in tiersOf(p) : /\ ledger[p].own[k] \in Nat /\ ledger[q].carry[k] \in Nat
                              /\ c[k] = ledger[p].own[k] + ledger[q].carry[k] /\ c[k] \in Nat
    BY <1>5, <2>2
  <2>4. \A k \in tiersOf(p) : c[k] <= Split(total, 0, u)[k]
    BY <1>5, <2>1 DEF CarriesFrom, Metered
  <2>. HIDE DEF c, total, u
  <2>5. SumFunctionOnSet(c, tiersOf(p)) <= total
    BY <1>3, <1>4, <1>5, <2>3, <2>4, TiersSum
  <2>6. SumFunctionOnSet(c, tiersOf(p)) = Own(p) + Carried(q)
    BY <1>5, <2>2, <2>3, SumAdds DEF Own, Carried
  <2>. QED  BY <1>3, <2>1, <2>2, <2>5, <2>6
<1>. QED  BY <1>6, <1>7

(* A period is billed what it states, and nothing if it states nothing. *)
LEMMA PeriodBilled ==
  ASSUME IInv, Owed, NEW p \in Instants, SumFunction(held[p]) # 0
  PROVE  p \in DOMAIN ledger /\ SumFunction(held[p]) <= Own(p) + Carried(p)
<1>1. /\ held[p] \in [1 .. MaxTiers -> Nat] /\ IsFiniteSet(1 .. MaxTiers)
      /\ SumFunction(held[p]) = SumFunctionOnSet(held[p], 1 .. MaxTiers)
  BY HeldIs
<1>2. p \in DOMAIN ledger
  <2>. SUFFICES ASSUME p \notin DOMAIN ledger PROVE FALSE
    OBVIOUS
  <2>1. \A k \in 1 .. MaxTiers : held[p][k] = 0
    BY DEF IInv, LedgerNeverUnderstates
  <2>. QED  BY <1>1, <2>1, SumZero
<1>. DEFINE c == [k \in tiersOf(p) |-> ledger[p].own[k] + ledger[p].carry[k]]
<1>3. \A k \in tiersOf(p) : /\ ledger[p].own[k] \in Nat /\ ledger[p].carry[k] \in Nat
                            /\ c[k] = ledger[p].own[k] + ledger[p].carry[k] /\ c[k] \in Nat
  BY <1>2, Counted
<1>4. \A k \in 1 .. MaxTiers : held[p][k] # 0 => k \in tiersOf(p) /\ held[p][k] <= c[k]
  <2>. SUFFICES ASSUME NEW k \in 1 .. MaxTiers, held[p][k] # 0
                PROVE  k \in tiersOf(p) /\ held[p][k] <= c[k]
    OBVIOUS
  <2>1. k \in tiersOf(p)
    BY <1>2 DEF Owed, tiersOf
  <2>2. DOMAIN stated(ledger[p]) = tiersOf(p) /\ stated(ledger[p])[k] = c[k]
    BY <1>2, <1>3, <2>1, Counted, StatedIs
  <2>. QED  BY <1>2, <2>1, <2>2 DEF IInv, LedgerNeverUnderstates
<1>. HIDE DEF c
<1>5. SumFunctionOnSet(held[p], 1 .. MaxTiers) <= SumFunctionOnSet(c, tiersOf(p))
  <2>1. IsFiniteSet(tiersOf(p)) /\ \A k \in 1 .. MaxTiers : held[p][k] \in Nat
    BY <1>1, <1>2, Counted
  <2>. QED  BY <1>1, <1>3, <1>4, <2>1, SumWithin
<1>6. SumFunctionOnSet(c, tiersOf(p)) = Own(p) + Carried(p)
  <2>1. IsFiniteSet(tiersOf(p))
    BY <1>2, Counted
  <2>. QED  BY <1>3, <2>1, SumAdds DEF Own, Carried
<1>. QED  BY <1>1, <1>2, <1>5, <1>6

(* While a shortfall is carried once, what the meters hold of all periods is no more
   than the days ever held.                                                         *)
LEMMA BilledOwed == IInv /\ Owed => (CarriedOnce => NeverOverbilled)
<1>. SUFFICES ASSUME IInv, Owed, CarriedOnce PROVE NeverOverbilled
  OBVIOUS
<1>. DEFINE L == DOMAIN ledger
            bill == [p \in Instants |-> SumFunction(held[p])]
            own == [p \in L |-> Own(p)]
            carried == [p \in L |-> Carried(p)]
            left == [p \in L |-> Left(p)]
            states == [p \in L |-> Own(p) + Carried(p)]
            owed == [p \in L |-> Own(p) + Left(p)]
            part == [p \in L |-> DaysOf(p)]
            days == [p \in L |-> SumFunctionOnSet(peak, DaysOf(p))]
            from == [q \in L |-> From(q)]
<1>1. L \subseteq Instants /\ IsFiniteSet(L) /\ IsFiniteSet(Instants)
  <2>1. L \subseteq Instants
    BY Rows
  <2>. QED  BY <2>1, InstantsAre, FS_Subset
<1>2. \A p \in L : /\ Own(p) \in Nat /\ Carried(p) \in Nat /\ Left(p) \in Nat
                   /\ Own(p) + Left(p) <= SumFunctionOnSet(peak, DaysOf(p))
  BY Counted, PeriodOwed
<1>3. IsFiniteSet(Days) /\ peak \in [Days -> Nat] /\ Days \subseteq Nat
  <2>1. day(Horizon) \in Nat /\ Days = 0 .. day(Horizon)
    BY Numbers, DayIs DEF Days
  <2>. QED  BY <2>1, FS_Interval, CellsAre
<1>4. /\ \A p \in L : /\ own[p] = Own(p) /\ carried[p] = Carried(p) /\ left[p] = Left(p)
                      /\ states[p] = Own(p) + Carried(p) /\ owed[p] = Own(p) + Left(p)
                      /\ part[p] = DaysOf(p) /\ days[p] = SumFunctionOnSet(peak, DaysOf(p))
                      /\ from[p] = From(p)
      /\ \A p \in Instants : bill[p] = SumFunction(held[p])
      /\ part \in [L -> SUBSET Days]
  BY DEF DaysOf
<1>5. MapThenSumSet(LAMBDA p : SumFunction(held[p]), Instants) = SumFunctionOnSet(bill, Instants)
  BY BilledSum
<1>6. SumFunction(peak) = SumFunctionOnSet(peak, Days)
  BY <1>3 DEF SumFunction
<1>. HIDE DEF L, bill, own, carried, left, states, owed, part, days, from
<1>7. SumFunctionOnSet(bill, Instants) <= SumFunctionOnSet(states, L)
  <2>1. \A p \in Instants : bill[p] \in Nat
    BY <1>4, HeldIs
  <2>2. \A p \in L : states[p] \in Nat
    BY <1>2, <1>4
  <2>3. \A p \in Instants : bill[p] # 0 => p \in L /\ bill[p] <= states[p]
    BY <1>4, PeriodBilled DEF L
  <2>. QED  BY <1>1, <2>1, <2>2, <2>3, SumWithin
<1>8. SumFunctionOnSet(states, L) = SumFunctionOnSet(own, L) + SumFunctionOnSet(carried, L)
  <2>1. \A p \in L : own[p] \in Nat /\ carried[p] \in Nat /\ states[p] = own[p] + carried[p]
    BY <1>2, <1>4
  <2>. QED  BY <1>1, <2>1, SumAdds
<1>9. SumFunctionOnSet(carried, L) <= SumFunctionOnSet(left, L)
  <2>1. \A p \in L : carried[p] \in Nat /\ left[p] \in Nat
    BY <1>2, <1>4
  <2>2. \A q \in L : carried[q] # 0 => from[q] \in L /\ carried[q] <= left[from[q]]
    <3>. SUFFICES ASSUME NEW q \in L, Carried(q) # 0
                  PROVE  From(q) \in L /\ Carried(q) <= Left(From(q))
      BY <1>4
    <3>1. From(q) \in L /\ q \in Heirs(From(q))
      BY FromOne DEF L, Heirs
    <3>2. /\ Left(From(q)) = Carried(heir(From(q)))
          /\ heir(From(q)) \in L /\ Carried(heir(From(q))) # 0 /\ From(heir(From(q))) = From(q)
      BY <3>1, HeirIs DEF L, Left
    <3>3. heir(From(q)) = q
      BY <3>2, OneHeir DEF L
    <3>. QED  BY <1>2, <3>1, <3>2, <3>3
  <2>3. \A q, r \in L : carried[q] # 0 /\ carried[r] # 0 /\ from[q] = from[r] => q = r
    BY <1>4, OneHeir DEF L
  <2>. QED  BY <1>1, <2>1, <2>2, <2>3, SumMoved
<1>10. SumFunctionOnSet(owed, L) = SumFunctionOnSet(own, L) + SumFunctionOnSet(left, L)
  <2>1. \A p \in L : own[p] \in Nat /\ left[p] \in Nat /\ owed[p] = own[p] + left[p]
    BY <1>2, <1>4
  <2>. QED  BY <1>1, <2>1, SumAdds
<1>11. \A p \in L : owed[p] \in Nat /\ days[p] \in Nat /\ owed[p] <= days[p]
  <2>1. \A p \in L : SumFunctionOnSet(peak, DaysOf(p)) \in Nat
    <3>. SUFFICES ASSUME NEW p \in L PROVE SumFunctionOnSet(peak, DaysOf(p)) \in Nat
      OBVIOUS
    <3>1. DaysOf(p) \subseteq Days
      BY DEF DaysOf
    <3>. QED  BY <1>3, <3>1, FS_Subset, SumType
  <2>. QED  BY <1>2, <1>4, <2>1
<1>12. SumFunctionOnSet(owed, L) <= SumFunctionOnSet(days, L)
  <2>1. L \in SUBSET L
    OBVIOUS
  <2>. QED  BY <1>1, <1>11, <2>1, SumGrows
<1>13. SumFunctionOnSet(days, L) <= SumFunctionOnSet(peak, Days)
  <2>1. \A p, q \in L : p # q => part[p] \cap part[q] = {}
    BY <1>4, DaysApart DEF L
  <2>2. \A p \in L : days[p] = SumFunctionOnSet(peak, part[p])
    BY <1>4
  <2>3. \A d \in Days : peak[d] \in Nat
    BY <1>3
  <2>. QED  BY <1>1, <1>3, <1>4, <2>1, <2>2, <2>3, SumOfParts
<1>14. /\ SumFunctionOnSet(bill, Instants) \in Nat /\ SumFunctionOnSet(states, L) \in Nat
       /\ SumFunctionOnSet(own, L) \in Nat /\ SumFunctionOnSet(carried, L) \in Nat
       /\ SumFunctionOnSet(left, L) \in Nat /\ SumFunctionOnSet(owed, L) \in Nat
       /\ SumFunctionOnSet(days, L) \in Nat /\ SumFunctionOnSet(peak, Days) \in Nat
  <2>1. /\ \A p \in L : /\ states[p] \in Nat /\ own[p] \in Nat /\ carried[p] \in Nat
                        /\ left[p] \in Nat /\ owed[p] \in Nat /\ days[p] \in Nat
        /\ \A p \in Instants : bill[p] \in Nat
        /\ \A d \in Days : peak[d] \in Nat
    BY <1>2, <1>3, <1>4, <1>11, HeldIs
  <2>. QED  BY <1>1, <1>3, <2>1, SumType
<1>15. SumFunctionOnSet(bill, Instants) <= SumFunctionOnSet(peak, Days)
  BY <1>7, <1>8, <1>9, <1>10, <1>12, <1>13, <1>14
<1>. QED  BY <1>5, <1>6, <1>15 DEF NeverOverbilled

(* The provider never holds more events of a customer, over all periods, than its days
   ever held, however windows are renewed, cut over and reported late, while each
   shortfall is carried once (carryInto): only one carried twice can bill events twice. *)
THEOREM MeterNeverOverbills == Spec => [](CarriedOnce => NeverOverbilled)
BY BilledOwed, MeterKept, MeterStatesOwed, PTL
===============================================================================
