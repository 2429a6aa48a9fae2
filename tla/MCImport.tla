----------------------------- MODULE MCImport -----------------------------
(* Model checking of Import with two blocks at each number. *)
EXTENDS Import, TLC

Symmetry == Permutations(Fork)
=============================================================================
