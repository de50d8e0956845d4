----------------------------- MODULE MCDelivery -----------------------------
(* Delivery with interchangeable loops for the safety runs.                *)
EXTENDS Delivery, TLC

Symmetry == Permutations(Loops)
=============================================================================
