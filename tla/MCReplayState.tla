--------------------------- MODULE MCReplayState ---------------------------
(* Model checking of ReplayState with a few blocks and verifications. *)
EXTENDS ReplayState
=============================================================================
