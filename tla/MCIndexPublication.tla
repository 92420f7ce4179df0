------------------------- MODULE MCIndexPublication -------------------------
(* IndexPublication on a small instance. *)
EXTENDS IndexPublication, TLC

Symmetry == Permutations(Ids)
=============================================================================
