------------------------------ MODULE Statement ------------------------------
(* The arithmetic of a billing statement: how a period's event count is split
   over the plan's tiers, what a finished period carries into the next one, and
   the windows of whole UTC days that periods starting at an instant are given.
   An instant is a natural number, DayLength of them make a UTC day, and a window
   is the run of days [start, end).                                           *)
EXTENDS Integers, Sequences, FiniteSetsExt, Functions

CONSTANT DayLength

ASSUME DayLengthAssumption == DayLength \in Nat \ {0}

Larger(a, b)  == IF a < b THEN b ELSE a
Smaller(a, b) == IF a < b THEN a ELSE b

Tiers(upTo) == 1 .. Len(upTo) + 1

(* Mutant of Split: the first tier starts at zero, whatever the allowance. *)
SplitFromPlan(total, allowance, upTo) ==
  [k \in Tiers(upTo) |->
     LET from  == IF k = 1 THEN 0 ELSE Larger(upTo[k - 1], allowance)
         until == IF k <= Len(upTo) THEN Smaller(total, upTo[k]) ELSE total
     IN  Larger(0, until - from)]

(* Tier k holds the events from max(allowance, upTo[k - 1]) up to upTo[k]. *)
Split(total, allowance, upTo) ==
  [k \in Tiers(upTo) |->
     LET from  == Larger(IF k = 1 THEN 0 ELSE upTo[k - 1], allowance)
         until == IF k <= Len(upTo) THEN Smaller(total, upTo[k]) ELSE total
     IN  Larger(0, until - from)]

(* Event number i of a period is billed in tier k: past the allowance, and
   between the bounds of the tier.                                          *)
FallsIn(i, k, free, upTo) ==
  /\ i >= free
  /\ k = 1 \/ i >= upTo[k - 1]
  /\ k = Len(upTo) + 1 \/ i < upTo[k]

Rising(s) == \A i, j \in DOMAIN s : i < j => s[i] < s[j]

carry(final, stated) == [k \in DOMAIN final |-> Larger(0, final[k] - stated[k])]
maxEach(a, b) == [k \in DOMAIN a |-> Larger(a[k], b[k])]
sumEach(a, b) == [k \in DOMAIN a |-> a[k] + b[k]]
None(upTo)    == [k \in Tiers(upTo) |-> 0]

day(t) == t \div DayLength

(* A window keeps the start it was first given; a new one starts where the days
   it follows end, or at its own first day after a gap.                        *)
windowFor(periodStart, periodEnd, statedStart, prevEnd) ==
  LET end   == day(periodEnd)
      start == IF statedStart # {} THEN Max(statedStart)
               ELSE Max({day(periodStart)} \cup prevEnd)
  IN  [start |-> Smaller(start, end), end |-> end]

(* Tomorrow's midnight, never past the window's end nor before its start. *)
throughDay(win, now) == Larger(win.start, Smaller(day(now) + 1, win.end))

sum(cells, from, to) == SumFunctionOnSet(cells, {d \in DOMAIN cells : from <= d /\ d < to})
==============================================================================
