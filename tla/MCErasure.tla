----------------------------- MODULE MCErasure -----------------------------
(* Erasure for TLC.  The .cfg files give the constants: one subject with   *)
(* one merged anonymous id.  Callers and workers are interchangeable.      *)
EXTENDS Erasure, TLC

Symmetry == Permutations(Workers) \cup Permutations(Callers)
=============================================================================
