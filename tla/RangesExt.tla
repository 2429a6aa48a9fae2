------------------------------ MODULE RangesExt ------------------------------
(***************************************************************************)
(* The range algorithms of blockservice/src/utils/ranges.rs, one loop      *)
(* iteration per step.                                                     *)
(*                                                                         *)
(* An execution is one call: add_range, subtract_range or canonicalize on  *)
(* an arbitrary vector, as the trait RangesExt accepts one.  The vector is *)
(* the sequence rs, the loop index i counts from 1.  Block numbers are     *)
(* u64; end + 1 wraps at MaxU64 the way the release build does (there is   *)
(* no overflow check in the release profile).                              *)
(***************************************************************************)
EXTENDS Ranges, Sequences, SequencesExt

CONSTANTS
    MaxU64,   \* u64::MAX
    MaxEnd,   \* no number in the inputs is larger
    MaxLen,   \* length of the longest input vector
    EmptyDeletion  \* TRUE if subtract_range may be given an empty range

ASSUME BoundsAssumption ==
    /\ MaxU64 \in Nat
    /\ MaxEnd \in 0 .. MaxU64
    /\ MaxLen \in Nat
    /\ EmptyDeletion \in BOOLEAN

Number == 0 .. MaxEnd
BlockRange == Number \X Number
Vectors == UNION {[1 .. n -> BlockRange] : n \in 0 .. MaxLen}

VARIABLES
    op,     \* the method called
    input,  \* self at the time of the call
    arg,    \* the argument: the range to add or to delete
    rs,     \* self
    i,      \* index of the loop that runs
    pc      \* where the call is

vars == <<op, input, arg, rs, i, pc>>

-----------------------------------------------------------------------------
IsEmpty(r) == r[1] > r[2]

(* end + 1 on u64 *)
Successor(e) == IF e = MaxU64 THEN 0 ELSE e + 1

(* Mutation: the merged range takes the end of the second range. *)
SecondEnd(a, b) == b

Larger(a, b) == IF a >= b THEN a ELSE b

(* The order of sort_by_key(|r| (start, end)). *)
KeyLeq(r, s) == r[1] < s[1] \/ (r[1] = s[1] /\ r[2] <= s[2])

(* The outcomes of a sort: rearrangements of s in key order. *)
Sorted(s) ==
    {t \in [DOMAIN s -> Range(s)] :
        /\ \A j, k \in DOMAIN s : j < k => KeyLeq(t[j], t[k])
        /\ \E p \in Bijection(DOMAIN s, DOMAIN s) :
              \A j \in DOMAIN s : t[j] = s[p[j]]}

-----------------------------------------------------------------------------
(* Every caller of subtract_range has excluded an empty range before:       *)
(* delete_range by its check (blockdb.rs:396), subtract_ranges because it  *)
(* passes on stored ranges.                                                *)
Init ==
    /\ op \in {"add_range", "subtract_range", "canonicalize"}
    /\ input \in Vectors
    /\ arg \in BlockRange
    /\ op = "subtract_range" => EmptyDeletion \/ ~ IsEmpty(arg)
    /\ rs = input
    /\ i = 1
    /\ pc = "call"

(* add_range pushes before it canonicalizes, the others start with it. *)
Call ==
    /\ pc = "call"
    /\ rs' = IF op = "add_range" THEN Append(rs, arg) ELSE rs
    /\ pc' = "sort"
    /\ UNCHANGED <<op, input, arg, i>>

Sort ==
    /\ pc = "sort"
    /\ rs' \in Sorted(rs)
    /\ i' = 1
    /\ pc' = "canonicalize"
    /\ UNCHANGED <<op, input, arg>>

InCanonicalize == pc = "canonicalize" /\ i <= Len(rs)

RemoveEmpty ==
    /\ InCanonicalize
    /\ IsEmpty(rs[i])
    /\ rs' = RemoveAt(rs, i)
    /\ UNCHANGED <<op, input, arg, i, pc>>

(* The condition under which a range swallows the next one. *)
Touches(r, s) == Successor(r[2]) >= s[1]

Merge ==
    /\ InCanonicalize
    /\ ~ IsEmpty(rs[i])
    /\ i + 1 <= Len(rs)
    /\ Touches(rs[i], rs[i + 1])
    /\ LET merged == <<rs[i][1], Larger(rs[i][2], rs[i + 1][2])>>
       IN  rs' = RemoveAt(ReplaceAt(rs, i, merged), i + 1)
    /\ UNCHANGED <<op, input, arg, i, pc>>

Keep ==
    /\ InCanonicalize
    /\ ~ IsEmpty(rs[i])
    /\ ~ (i + 1 <= Len(rs) /\ Touches(rs[i], rs[i + 1]))
    /\ i' = i + 1
    /\ UNCHANGED <<op, input, arg, rs, pc>>

(* The loop ends; subtract_range goes on with its own loop. *)
EndCanonicalize ==
    /\ pc = "canonicalize"
    /\ i > Len(rs)
    /\ i' = 1
    /\ pc' = IF op = "subtract_range" THEN "subtract" ELSE "done"
    /\ UNCHANGED <<op, input, arg, rs>>

InSubtract == pc = "subtract" /\ i <= Len(rs)

(* rs[i] does not meet the deleted range *)
Disjoint(r) == arg[2] < r[1] \/ arg[1] > r[2]

Skip ==
    /\ InSubtract
    /\ Disjoint(rs[i])
    /\ i' = i + 1
    /\ UNCHANGED <<op, input, arg, rs, pc>>

(* Mutation: the loop neither removes the range nor moves on. *)
RemoveContainedForgotten ==
    /\ InSubtract
    /\ ~ Disjoint(rs[i])
    /\ arg[1] <= rs[i][1] /\ arg[2] >= rs[i][2]
    /\ UNCHANGED vars

RemoveContained ==
    /\ InSubtract
    /\ ~ Disjoint(rs[i])
    /\ arg[1] <= rs[i][1] /\ arg[2] >= rs[i][2]
    /\ rs' = RemoveAt(rs, i)
    /\ UNCHANGED <<op, input, arg, i, pc>>

TrimRight ==
    /\ InSubtract
    /\ ~ Disjoint(rs[i])
    /\ arg[1] > rs[i][1] /\ arg[2] >= rs[i][2]
    /\ rs' = ReplaceAt(rs, i, <<rs[i][1], arg[1] - 1>>)
    /\ i' = i + 1
    /\ UNCHANGED <<op, input, arg, pc>>

TrimLeft ==
    /\ InSubtract
    /\ ~ Disjoint(rs[i])
    /\ arg[1] <= rs[i][1] /\ arg[2] < rs[i][2]
    /\ rs' = ReplaceAt(rs, i, <<Successor(arg[2]), rs[i][2]>>)
    /\ i' = i + 1
    /\ UNCHANGED <<op, input, arg, pc>>

Split ==
    /\ InSubtract
    /\ ~ Disjoint(rs[i])
    /\ arg[1] > rs[i][1] /\ arg[2] < rs[i][2]
    /\ LET left  == <<rs[i][1], arg[1] - 1>>
           right == <<Successor(arg[2]), rs[i][2]>>
       IN  rs' = InsertAt(ReplaceAt(rs, i, left), i + 1, right)
    /\ i' = i + 2
    /\ UNCHANGED <<op, input, arg, pc>>

EndSubtract ==
    /\ pc = "subtract"
    /\ i > Len(rs)
    /\ pc' = "done"
    /\ UNCHANGED <<op, input, arg, rs, i>>

Next ==
    \/ Call \/ Sort
    \/ RemoveEmpty \/ Merge \/ Keep \/ EndCanonicalize
    \/ Skip \/ RemoveContained \/ TrimRight \/ TrimLeft \/ Split \/ EndSubtract

Spec == Init /\ [][Next]_vars

FairSpec == Spec /\ WF_vars(Next)

-----------------------------------------------------------------------------
TypeOK ==
    /\ op \in {"add_range", "subtract_range", "canonicalize"}
    /\ input \in Seq(BlockRange)
    /\ arg \in BlockRange
    /\ rs \in Seq(BlockRange)
    /\ i \in Nat \ {0}
    /\ pc \in {"call", "sort", "canonicalize", "subtract", "done"}

(* What the abstract module Ranges says the call computes. *)
Expected ==
    CASE op = "add_range"      -> AddRange(Range(input), arg)
      [] op = "subtract_range" -> SubtractRange(Range(input), arg)
      [] op = "canonicalize"   -> Canonical(Covered(Range(input)))

(* Sorted, non-empty, and with at least one missing number in between. *)
Separated(s) ==
    /\ \A k \in DOMAIN s : s[k][1] <= s[k][2]
    /\ \A j, k \in DOMAIN s : j < k => s[j][2] + 1 < s[k][1]

-----------------------------------------------------------------------------
(* The inductive invariant.  The numbers the vector has to cover when it   *)
(* is canonical: *)
Goal ==
    Covered(Range(input)) \cup (IF op = "add_range" THEN Blocks(arg) ELSE {})

SortedByStart(s) == \A j, k \in DOMAIN s : j < k => s[j][1] <= s[k][1]

(* The ranges before the index are final: not empty, and apart from all    *)
(* that follow. *)
PrefixSeparated ==
    \A j \in DOMAIN rs : j < i =>
        /\ rs[j][1] <= rs[j][2]
        /\ \A k \in DOMAIN rs : j < k => rs[j][2] + 1 < rs[k][1]

SortPhase == Covered(Range(rs)) = Goal

CanonicalizePhase ==
    /\ i <= Len(rs) + 1
    /\ SortedByStart(rs)
    /\ PrefixSeparated
    /\ Covered(Range(rs)) = Goal

SubtractPhase ==
    /\ op = "subtract_range"
    /\ i <= Len(rs) + 1
    /\ Separated(rs)
    /\ \A j \in DOMAIN rs : j < i => Disjoint(rs[j])
    /\ Covered(Range(rs)) \ Blocks(arg) = Goal \ Blocks(arg)

DonePhase ==
    /\ Separated(rs)
    /\ Covered(Range(rs)) =
          IF op = "subtract_range" THEN Goal \ Blocks(arg) ELSE Goal

(* What holds at each place in the code of ranges.rs:46-114: at every      *)
(* iteration the vector covers the numbers it has to, and its part before  *)
(* the index is already in canonical form.                                 *)
LoopInvariant ==
    /\ op = "subtract_range" => ~ IsEmpty(arg)
    /\ pc = "call" => rs = input
    /\ pc = "sort" => SortPhase
    /\ pc = "canonicalize" => CanonicalizePhase
    /\ pc = "subtract" => SubtractPhase
    /\ pc = "done" => DonePhase

-----------------------------------------------------------------------------
(* Whatever vector a method is called on (the trait asks nothing of it),   *)
(* it leaves ranges that are sorted, non-empty and apart, and that cover   *)
(* what they should: the vector lists exactly the maximal runs that module *)
(* Ranges promises.                                                        *)
ComputesCanonicalRanges ==
    pc = "done" => Separated(rs) /\ Range(rs) = Expected

(* Every call returns: the loops, which remove and insert elements of the  *)
(* vector they walk over, reach its end.                                   *)
Terminates == <>(pc = "done")

(* The postconditions in the documentation of the trait (ranges.rs:22-45)  *)
(* and nothing more: ranges are non-empty, non-overlapping and sorted.     *)
DocumentedPostconditions ==
    pc = "done" =>
        /\ \A k \in DOMAIN rs : rs[k][1] <= rs[k][2]
        /\ \A j, k \in DOMAIN rs : j < k => rs[j][2] < rs[k][1]
=============================================================================
