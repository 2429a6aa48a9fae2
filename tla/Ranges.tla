------------------------------- MODULE Ranges -------------------------------
(***************************************************************************)
(* What the operations on lists of block ranges promise                    *)
(* (blockservice/src/utils/ranges.rs).                                     *)
(*                                                                         *)
(* A range start..=end is the pair <<start, end>>, with both ends          *)
(* included.  The code keeps a sorted vector of ranges and documents that  *)
(* they are non-empty, non-overlapping and sorted.  Such a vector is       *)
(* determined by the set of its ranges, and that set by the block numbers  *)
(* it covers: it consists of the maximal runs of consecutive numbers.      *)
(* This module states the operations on those sets.  RangesExt translates  *)
(* the loops of the code and is shown to compute them.                     *)
(***************************************************************************)
EXTENDS Integers

(* The block numbers of one range; none if start > end. *)
Blocks(r) == r[1] .. r[2]

(* The block numbers covered by a set of ranges. *)
Covered(R) == UNION {Blocks(r) : r \in R}

(* s..e is a run of consecutive members of U that cannot be extended. *)
IsRun(U, s, e) ==
    /\ s <= e
    /\ s .. e \subseteq U
    /\ (s - 1) \notin U
    /\ (e + 1) \notin U

(* RangesExt::canonicalize: the ranges that cover exactly U. *)
Canonical(U) == {r \in U \X U : IsRun(U, r[1], r[2])}

(* RangesExt::add_range *)
AddRange(R, r) == Canonical(Covered(R) \cup Blocks(r))

(* add_range for every range of New, one after the other *)
AddRanges(R, New) == Canonical(Covered(R) \cup Covered(New))

(* RangesExt::subtract_range *)
SubtractRange(R, del) == Canonical(Covered(R) \ Blocks(del))

(* intersect_ranges *)
IntersectRanges(target, R) == Canonical(Blocks(target) \cap Covered(R))

(* subtract_ranges, for a minuend that is not empty *)
SubtractRanges(minuend, R) == Canonical(Blocks(minuend) \ Covered(R))
=============================================================================
