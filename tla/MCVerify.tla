------------------------------ MODULE MCVerify ------------------------------
(* Model checking of Verify with all databases of a few blocks. *)
EXTENDS Verify, TLC
=============================================================================
