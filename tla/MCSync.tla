------------------------------ MODULE MCSync ------------------------------
(* Model checking of Sync with a few chains and blocks. *)
EXTENDS Sync, TLC
=============================================================================
