---------------------------- MODULE MCBillingMeter ----------------------------
EXTENDS BillingMeter, TLC

CONSTANTS small, large

MCTierUpTo == (small :> <<1>>) @@ (large :> <<2>>)
MCOneTier == (small :> <<1>>)

(* Up to 6 events, allowances to 5, and up to two bounds: three tiers. *)
MCInputs ==
  LET bounds == {s \in UNION {[1 .. n -> 1 .. 5] : n \in 0 .. 2} : Rising(s)}
  IN  [total : 0 .. 6, free : 0 .. 5, upTo : bounds]
MCNoInputs == {}
===============================================================================
