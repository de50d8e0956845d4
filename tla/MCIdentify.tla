------------------------------ MODULE MCIdentify ------------------------------
EXTENDS Identify

CONSTANTS alice, bob, anon, phone, color, plan

Sets(u, keys) == [user |-> u, anon |-> None, device |-> None, keys |-> keys, nul |-> FALSE]
MCItems == {Sets(alice, {color}), Sets(alice, {color, plan}),
            [Sets(alice, {color}) EXCEPT !.nul = TRUE],
            [Sets(alice, {plan}) EXCEPT !.anon = anon, !.device = phone],
            [Sets(bob, {}) EXCEPT !.anon = anon]}

(* Every pair, and longer batches of one person's traits. *)
MCBatches ==
  [1 .. 2 -> MCItems] \cup
  {b \in [1 .. 4 -> {i \in MCItems : i.user = alice}] : b[1].nul /\ b[2].anon # None /\ b[4].anon = None}
===============================================================================
