--------------------------- MODULE HandlePoolMC ---------------------------
(* Instance of HandlePool for TLC: callers and handles are interchangeable. *)
EXTENDS HandlePool, TLC

Symmetry == Permutations(Callers) \cup Permutations(Handles)
=============================================================================
