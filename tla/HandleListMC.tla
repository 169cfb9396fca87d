--------------------------- MODULE HandleListMC ---------------------------
(* Instance of HandleList for TLC: the handles are interchangeable. *)
EXTENDS HandleList, TLC

Symmetry == Permutations(Items)
=============================================================================
