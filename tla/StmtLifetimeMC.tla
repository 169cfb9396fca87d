-------------------------- MODULE StmtLifetimeMC --------------------------
(* Instance of StmtLifetime for TLC. *)
EXTENDS StmtLifetime, TLC

Symmetry == Permutations(Threads) \cup Permutations(Stmts)
=============================================================================
