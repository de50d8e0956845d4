------------------------------- MODULE MCUsage -------------------------------
EXTENDS Usage, TLC

CONSTANTS o1, o2, p1, p2

MCOrgOf == (p1 :> o1) @@ (p2 :> o2)
MCEarlier == (p1 :> 1) @@ (p2 :> 1)
MCAnniversary == (o1 :> 3) @@ (o2 :> 1)
Symmetry == Permutations(Passes)
==============================================================================
