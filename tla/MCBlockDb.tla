----------------------------- MODULE MCBlockDb -----------------------------
(* Model checking of BlockDb with a few chains, blocks and one payload. *)
EXTENDS BlockDb, TLC
=============================================================================
