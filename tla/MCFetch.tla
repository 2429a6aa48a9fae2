------------------------------ MODULE MCFetch ------------------------------
(* Model checking of Fetch with a few blocks and a short channel. *)
EXTENDS Fetch, TLC
=============================================================================
