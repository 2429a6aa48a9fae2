---------------------------- MODULE MCRangesExt ----------------------------
(* Model checking of RangesExt: the constants are plain numbers. *)
EXTENDS RangesExt
=============================================================================
