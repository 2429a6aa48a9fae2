-------------------------- MODULE RangesExtProofs --------------------------
(***************************************************************************)
(* Proof that the loops of RangesExt compute what Ranges promises, for     *)
(* vectors of any length and any numbers below u64::MAX, and, at the end,  *)
(* of what the import promises, whose first step is to look for the stored *)
(* range it may skip.                                                      *)
(***************************************************************************)
EXTENDS RangesExt, Import, SequenceTheorems, FiniteSetTheorems,
        WellFoundedInduction, TLAPS

(* What Vec::remove does: the elements behind position k move up by one.   *)
LEMMA RemoveAtProperties ==
    ASSUME NEW S, NEW s \in Seq(S), NEW k \in 1 .. Len(s)
    PROVE  /\ RemoveAt(s, k) \in Seq(S)
           /\ Len(RemoveAt(s, k)) = Len(s) - 1
           /\ \A j \in 1 .. Len(s) - 1 :
                 RemoveAt(s, k)[j] = IF j < k THEN s[j] ELSE s[j + 1]
<1> DEFINE front == SubSeq(s, 1, k - 1)
           back  == SubSeq(s, k + 1, Len(s))
<1>1. /\ front \in Seq(S)
      /\ Len(front) = k - 1
      /\ \A j \in 1 .. k - 1 : front[j] = s[j]
  <2>1. \A j \in 1 .. k - 1 : s[j] \in S
    BY ElementOfSeq
  <2>. QED
    BY <2>1, SubSeqProperties
<1>2. /\ back \in Seq(S)
      /\ Len(back) = Len(s) - k
      /\ \A j \in 1 .. Len(s) - k : back[j] = s[k + j]
  <2>1. \A j \in k + 1 .. Len(s) : s[j] \in S
    BY ElementOfSeq
  <2>. QED
    BY <2>1, SubSeqProperties
<1>3. RemoveAt(s, k) = front \o back
  BY DEF RemoveAt
<1> HIDE DEF front, back
<1>4. /\ front \o back \in Seq(S)
      /\ Len(front \o back) = Len(s) - 1
      /\ \A j \in 1 .. Len(s) - 1 :
            (front \o back)[j] = IF j <= k - 1 THEN front[j]
                                               ELSE back[j - (k - 1)]
  <2>1. /\ front \o back \in Seq(S)
        /\ Len(front \o back) = Len(front) + Len(back)
        /\ \A j \in 1 .. Len(front) + Len(back) :
              (front \o back)[j] = IF j <= Len(front) THEN front[j]
                                   ELSE back[j - Len(front)]
    BY <1>1, <1>2, ConcatProperties
  <2>2. Len(front) + Len(back) = Len(s) - 1
    BY <1>1, <1>2, LenProperties
  <2>. QED
    BY <1>1, <2>1, <2>2
<1>5. ASSUME NEW j \in 1 .. Len(s) - 1
      PROVE  (front \o back)[j] = IF j < k THEN s[j] ELSE s[j + 1]
  <2>1. CASE j < k
    BY <1>1, <1>4, <2>1
  <2>2. CASE ~ (j < k)
    <3>1. j - (k - 1) \in 1 .. Len(s) - k /\ k + (j - (k - 1)) = j + 1
      BY <2>2
    <3>. QED
      BY <1>2, <1>4, <2>2, <3>1
  <2>. QED
    BY <2>1, <2>2
<1>. QED
  BY <1>3, <1>4, <1>5

(* What Vec::insert does: the elements from position k on move down. *)
LEMMA InsertAtProperties ==
    ASSUME NEW S, NEW s \in Seq(S), NEW e \in S, NEW k \in 1 .. Len(s) + 1
    PROVE  /\ InsertAt(s, k, e) \in Seq(S)
           /\ Len(InsertAt(s, k, e)) = Len(s) + 1
           /\ \A j \in 1 .. Len(s) + 1 :
                 InsertAt(s, k, e)[j] = IF j < k THEN s[j]
                                        ELSE IF j = k THEN e ELSE s[j - 1]
<1> DEFINE front == SubSeq(s, 1, k - 1)
           back  == SubSeq(s, k, Len(s))
<1>1. /\ front \in Seq(S)
      /\ Len(front) = k - 1
      /\ \A j \in 1 .. k - 1 : front[j] = s[j]
  <2>1. \A j \in 1 .. k - 1 : s[j] \in S
    BY ElementOfSeq
  <2>. QED
    BY <2>1, SubSeqProperties
<1>2. /\ back \in Seq(S)
      /\ Len(back) = Len(s) - k + 1
      /\ \A j \in 1 .. Len(s) - k + 1 : back[j] = s[k + j - 1]
  <2>1. \A j \in k .. Len(s) : s[j] \in S
    BY ElementOfSeq
  <2>. QED
    BY <2>1, SubSeqProperties
<1>3. /\ <<e>> \in Seq(S)
      /\ Len(<<e>>) = 1
      /\ <<e>>[1] = e
  OBVIOUS
<1>4. InsertAt(s, k, e) = (front \o <<e>>) \o back
  BY DEF InsertAt
<1> DEFINE mid == <<e>>
<1> HIDE DEF front, back, mid
<1>5. /\ front \o mid \in Seq(S)
      /\ Len(front \o mid) = k
      /\ \A j \in 1 .. k : (front \o mid)[j] = IF j < k THEN s[j] ELSE e
  BY <1>1, <1>3, ConcatProperties DEF mid
<1>. QED
  BY <1>2, <1>4, <1>5, ConcatProperties DEF mid

(* What an assignment to an element of the vector does. *)
LEMMA ReplaceAtProperties ==
    ASSUME NEW S, NEW s \in Seq(S), NEW e \in S, NEW k \in 1 .. Len(s)
    PROVE  /\ ReplaceAt(s, k, e) \in Seq(S)
           /\ Len(ReplaceAt(s, k, e)) = Len(s)
           /\ \A j \in 1 .. Len(s) :
                 ReplaceAt(s, k, e)[j] = IF j = k THEN e ELSE s[j]
  BY DEF ReplaceAt

-----------------------------------------------------------------------------
(* n lies in one of the ranges of the vector s. *)
CoveredBy(s, n) == \E k \in DOMAIN s : s[k][1] <= n /\ n <= s[k][2]

LEMMA BlockRangeType ==
    ASSUME NEW s \in Seq(BlockRange), NEW k \in DOMAIN s
    PROVE  /\ s[k] \in BlockRange
           /\ s[k][1] \in Number /\ s[k][2] \in Number
           /\ s[k][1] \in Nat /\ s[k][2] \in Nat
           /\ s[k] = <<s[k][1], s[k][2]>>
           /\ DOMAIN s = 1 .. Len(s) /\ Len(s) \in Nat
  BY BoundsAssumption DEF BlockRange, Number

(* The numbers covered by the ranges of a vector, without UNION. *)
LEMMA CoveredOfVector ==
    ASSUME NEW s \in Seq(BlockRange)
    PROVE  Covered(Range(s)) = {n \in Int : CoveredBy(s, n)}
<1>1. \A k \in DOMAIN s : s[k][1] \in Int /\ s[k][2] \in Int
  BY BlockRangeType
<1>. QED
  BY <1>1 DEF Covered, Blocks, Range, CoveredBy

(* Two vectors that cover the same numbers pointwise cover the same set. *)
LEMMA SameCover ==
    ASSUME NEW s \in Seq(BlockRange), NEW t \in Seq(BlockRange),
           \A n \in Int : CoveredBy(s, n) <=> CoveredBy(t, n)
    PROVE  Covered(Range(s)) = Covered(Range(t))
  BY CoveredOfVector

(* A vector whose ranges are sorted, non-empty and apart lists exactly the *)
(* maximal runs of the numbers it covers.                                  *)
LEMMA SeparatedIsCanonical ==
    ASSUME NEW s \in Seq(BlockRange), Separated(s)
    PROVE  Range(s) = Canonical(Covered(Range(s)))
<1> DEFINE U == Covered(Range(s))
<1>1. U = {n \in Int : CoveredBy(s, n)}
  BY CoveredOfVector
<1>2. DOMAIN s = 1 .. Len(s) /\ Len(s) \in Nat
  BY LenProperties
<1>3. \A k \in DOMAIN s : /\ s[k][1] \in Nat /\ s[k][2] \in Nat
                          /\ s[k] = <<s[k][1], s[k][2]>>
                          /\ s[k][1] <= s[k][2]
  BY BlockRangeType DEF Separated
<1>4. \A j, k \in DOMAIN s : j < k => s[j][2] + 1 < s[k][1]
  BY DEF Separated
<1> HIDE DEF U
<1>5. ASSUME NEW k \in DOMAIN s
      PROVE  s[k] \in Canonical(U)
  <2>1. s[k][1] \in U /\ s[k][2] \in U
    BY <1>1, <1>3 DEF CoveredBy
  <2>2. s[k][1] .. s[k][2] \subseteq U
    BY <1>1, <1>3 DEF CoveredBy
  <2>3. (s[k][1] - 1) \notin U
    <3> SUFFICES ASSUME NEW j \in DOMAIN s,
                        s[j][1] <= s[k][1] - 1, s[k][1] - 1 <= s[j][2]
                 PROVE  FALSE
      BY <1>1 DEF CoveredBy
    <3>1. CASE j < k
      BY <1>3, <1>4, <3>1
    <3>2. CASE j = k
      BY <1>3, <3>2
    <3>3. CASE k < j
      BY <1>3, <1>4, <3>3
    <3>. QED
      BY <1>2, <3>1, <3>2, <3>3
  <2>4. (s[k][2] + 1) \notin U
    <3> SUFFICES ASSUME NEW j \in DOMAIN s,
                        s[j][1] <= s[k][2] + 1, s[k][2] + 1 <= s[j][2]
                 PROVE  FALSE
      BY <1>1 DEF CoveredBy
    <3>. QED
      BY <1>2, <1>3, <1>4
  <2>. QED
    BY <1>3, <2>1, <2>2, <2>3, <2>4 DEF Canonical, IsRun
<1>6. ASSUME NEW r \in Canonical(U)
      PROVE  r \in Range(s)
  <2>1. /\ r \in U \X U
        /\ r[1] <= r[2] /\ r[1] .. r[2] \subseteq U
        /\ (r[1] - 1) \notin U /\ (r[2] + 1) \notin U
    BY DEF Canonical, IsRun
  <2>2. r[1] \in Int /\ r[2] \in Int /\ r = <<r[1], r[2]>>
    BY <1>1, <2>1
  <2>3. PICK k \in DOMAIN s : s[k][1] <= r[1] /\ r[1] <= s[k][2]
    BY <1>1, <2>1 DEF CoveredBy
  <2>4. PICK m \in DOMAIN s : s[m][1] <= r[2] /\ r[2] <= s[m][2]
    BY <1>1, <2>1 DEF CoveredBy
  <2>5. s[k][1] = r[1]
    <3>1. ~ (s[k][1] <= r[1] - 1 /\ r[1] - 1 <= s[k][2])
      BY <1>1, <2>1, <2>2 DEF CoveredBy
    <3>. QED
      BY <1>3, <2>2, <2>3, <3>1
  <2>6. s[m][2] = r[2]
    <3>1. ~ (s[m][1] <= r[2] + 1 /\ r[2] + 1 <= s[m][2])
      BY <1>1, <2>1, <2>2 DEF CoveredBy
    <3>. QED
      BY <1>3, <2>2, <2>4, <3>1
  <2>7. ~ (m < k)
    BY <1>2, <1>3, <1>4, <2>1, <2>2, <2>5, <2>6
  <2>8. ~ (k < m)
    <3> SUFFICES ASSUME k < m PROVE FALSE
      OBVIOUS
    <3>1. s[k][2] + 1 < s[m][1]
      BY <1>4
    <3>2. s[k][2] + 1 \in r[1] .. r[2]
      BY <1>3, <2>2, <2>3, <2>4, <3>1
    <3>3. PICK j \in DOMAIN s : s[j][1] <= s[k][2] + 1 /\ s[k][2] + 1 <= s[j][2]
      BY <1>1, <2>1, <3>2 DEF CoveredBy
    <3>. QED
      BY <1>2, <1>3, <1>4, <3>3
  <2>9. k = m
    BY <1>2, <2>7, <2>8
  <2>. QED
    BY <1>3, <2>2, <2>5, <2>6, <2>9 DEF Range
<1>. QED
  BY <1>5, <1>6 DEF U, Range

-----------------------------------------------------------------------------
LEMMA VectorsAreSequences == Vectors \subseteq Seq(BlockRange)
  BY DEF Vectors

LEMMA SortedType ==
    ASSUME NEW s \in Seq(BlockRange), NEW t \in Sorted(s)
    PROVE  /\ t \in Seq(BlockRange)
           /\ Len(t) = Len(s)
           /\ DOMAIN t = DOMAIN s
           /\ \A j, k \in DOMAIN s : j < k => KeyLeq(t[j], t[k])
           /\ \E p \in Bijection(DOMAIN s, DOMAIN s) :
                 \A j \in DOMAIN s : t[j] = s[p[j]]
<1>1. t \in [1 .. Len(s) -> Range(s)] /\ DOMAIN s = 1 .. Len(s) /\ Len(s) \in Nat
  BY LenProperties DEF Sorted
<1>2. Range(s) \subseteq BlockRange
  BY BlockRangeType DEF Range
<1>3. t \in Seq(BlockRange) /\ Len(t) = Len(s)
  BY <1>1, <1>2
<1>. QED
  BY <1>1, <1>3 DEF Sorted

(* The sequence and the index stay well typed.  No addition or subtraction *)
(* on u64 leaves the range of the type.                                    *)
LEMMA TypeInductive ==
    ASSUME MaxEnd < MaxU64, TypeOK, LoopInvariant, [Next]_vars
    PROVE  TypeOK'
<1> USE DEF TypeOK
<1>0. DOMAIN rs = 1 .. Len(rs) /\ Len(rs) \in Nat /\ Number \subseteq Nat
  BY BoundsAssumption, LenProperties DEF Number
<1>1. CASE UNCHANGED vars
  BY <1>1 DEF vars
<1>2. CASE Call
  BY <1>2, AppendProperties DEF Call
<1>3. CASE Sort
  BY <1>3, SortedType DEF Sort
<1>4. CASE RemoveEmpty
  BY <1>0, <1>4, RemoveAtProperties DEF RemoveEmpty, InCanonicalize
<1>5. CASE Merge
  <2> DEFINE merged == <<rs[i][1], Larger(rs[i][2], rs[i + 1][2])>>
             mid == ReplaceAt(rs, i, merged)
  <2>1. i \in 1 .. Len(rs) /\ i + 1 \in 1 .. Len(rs)
    BY <1>0, <1>5 DEF Merge, InCanonicalize
  <2>2. rs[i] \in BlockRange /\ rs[i + 1] \in BlockRange
    BY <2>1, ElementOfSeq
  <2>3. merged \in BlockRange
    BY <2>2 DEF Larger, BlockRange
  <2>4. rs' = RemoveAt(mid, i + 1)
    BY <1>5 DEF Merge
  <2> HIDE DEF merged
  <2>5. mid \in Seq(BlockRange) /\ Len(mid) = Len(rs)
    BY <2>1, <2>3, ReplaceAtProperties
  <2> HIDE DEF mid
  <2>6. rs' \in Seq(BlockRange)
    BY <2>1, <2>4, <2>5, RemoveAtProperties
  <2>. QED
    BY <1>5, <2>6 DEF Merge
<1>6. CASE Keep
  BY <1>6 DEF Keep
<1>7. CASE EndCanonicalize
  BY <1>7 DEF EndCanonicalize
<1>8. CASE Skip
  BY <1>8 DEF Skip
<1>9. CASE RemoveContained
  BY <1>0, <1>9, RemoveAtProperties DEF RemoveContained, InSubtract
<1>10. CASE TrimRight
  <2>1. i \in 1 .. Len(rs) /\ rs[i] \in BlockRange
    BY <1>0, <1>10, ElementOfSeq DEF TrimRight, InSubtract
  <2>2. <<rs[i][1], arg[1] - 1>> \in BlockRange
    BY <1>0, <1>10, <2>1, BoundsAssumption DEF TrimRight, BlockRange, Number
  <2>3. rs' \in Seq(BlockRange)
    BY <1>10, <2>1, <2>2, ReplaceAtProperties DEF TrimRight
  <2>. QED
    BY <1>10, <2>3 DEF TrimRight
<1>11. CASE TrimLeft
  <2>1. i \in 1 .. Len(rs) /\ rs[i] \in BlockRange
    BY <1>0, <1>11, ElementOfSeq DEF TrimLeft, InSubtract
  <2>2. <<Successor(arg[2]), rs[i][2]>> \in BlockRange
    BY <1>0, <1>11, <2>1, BoundsAssumption
    DEF TrimLeft, BlockRange, Number, Successor
  <2>3. rs' \in Seq(BlockRange)
    BY <1>11, <2>1, <2>2, ReplaceAtProperties DEF TrimLeft
  <2>. QED
    BY <1>11, <2>3 DEF TrimLeft
<1>12. CASE Split
  <2> DEFINE left  == <<rs[i][1], arg[1] - 1>>
             right == <<Successor(arg[2]), rs[i][2]>>
             mid == ReplaceAt(rs, i, left)
  <2>1. i \in 1 .. Len(rs) /\ rs[i] \in BlockRange
    BY <1>0, <1>12, ElementOfSeq DEF Split, InSubtract
  <2>2. left \in BlockRange /\ right \in BlockRange
    BY <1>0, <1>12, <2>1, BoundsAssumption
    DEF Split, BlockRange, Number, Successor
  <2>3. rs' = InsertAt(mid, i + 1, right)
    BY <1>12 DEF Split
  <2> HIDE DEF left, right
  <2>4. mid \in Seq(BlockRange) /\ Len(mid) = Len(rs)
    BY <2>1, <2>2, ReplaceAtProperties
  <2> HIDE DEF mid
  <2>5. rs' \in Seq(BlockRange)
    BY <1>0, <2>1, <2>2, <2>3, <2>4, InsertAtProperties
  <2>. QED
    BY <1>12, <2>5 DEF Split
<1>13. CASE EndSubtract
  BY <1>13 DEF EndSubtract
<1>. QED
  BY <1>1, <1>2, <1>3, <1>4, <1>5, <1>6, <1>7, <1>8, <1>9, <1>10, <1>11,
     <1>12, <1>13 DEF Next

-----------------------------------------------------------------------------
(* Sorting changes the order of the ranges, not what they cover. *)
LEMMA SortStep ==
    ASSUME TypeOK, LoopInvariant, Sort, TypeOK'
    PROVE  LoopInvariant'
<1>1. rs \in Seq(BlockRange) /\ rs' \in Seq(BlockRange) /\ rs' \in Sorted(rs)
  BY DEF TypeOK, Sort
<1>2. DOMAIN rs' = DOMAIN rs /\ DOMAIN rs = 1 .. Len(rs) /\ Len(rs') = Len(rs)
      /\ Len(rs) \in Nat
  BY <1>1, SortedType, LenProperties
<1>3. PICK p \in Bijection(DOMAIN rs, DOMAIN rs) :
         \A j \in DOMAIN rs : rs'[j] = rs[p[j]]
  BY <1>1, SortedType
<1>4. Range(rs') = Range(rs)
  <2>1. \A j \in DOMAIN rs : p[j] \in DOMAIN rs
    BY DEF Bijection, Injection
  <2>2. \A k \in DOMAIN rs : \E j \in DOMAIN rs : p[j] = k
    BY DEF Bijection, Surjection
  <2>. QED
    BY <1>2, <1>3, <2>1, <2>2 DEF Range
<1>5. SortedByStart(rs')
  <2>1. \A j, k \in DOMAIN rs : j < k => KeyLeq(rs'[j], rs'[k])
    BY <1>1, SortedType
  <2>2. \A k \in DOMAIN rs' : rs'[k][1] \in Nat
    BY <1>1, BlockRangeType
  <2>. QED
    BY <1>2, <2>1, <2>2 DEF SortedByStart, KeyLeq
<1>6. CanonicalizePhase'
  <2>1. Goal' = Goal /\ i' = 1
    BY DEF Sort, Goal
  <2>2. Covered(Range(rs')) = Goal'
    BY <1>4, <2>1 DEF LoopInvariant, SortPhase, Sort
  <2>3. PrefixSeparated'
    BY <1>2, <2>1 DEF PrefixSeparated
  <2>. QED
    BY <1>2, <1>5, <2>1, <2>2, <2>3 DEF CanonicalizePhase
<1>. QED
  BY <1>6 DEF LoopInvariant, Sort, IsEmpty

(* Dropping an empty range. *)
LEMMA RemoveEmptyStep ==
    ASSUME TypeOK, LoopInvariant, RemoveEmpty, TypeOK'
    PROVE  LoopInvariant'
<1>1. /\ rs \in Seq(BlockRange) /\ rs' \in Seq(BlockRange)
      /\ i \in 1 .. Len(rs) /\ i' = i
      /\ rs[i][1] > rs[i][2]
      /\ CanonicalizePhase
  BY DEF TypeOK, RemoveEmpty, InCanonicalize, LoopInvariant, IsEmpty
<1>2. /\ Len(rs') = Len(rs) - 1
      /\ \A j \in 1 .. Len(rs) - 1 : rs'[j] = IF j < i THEN rs[j] ELSE rs[j + 1]
  BY <1>1, RemoveAtProperties DEF RemoveEmpty
<1>3. /\ DOMAIN rs = 1 .. Len(rs) /\ DOMAIN rs' = 1 .. Len(rs) - 1
      /\ Len(rs) \in Nat
  BY <1>1, <1>2, LenProperties
<1>4. \A k \in DOMAIN rs : rs[k][1] \in Nat /\ rs[k][2] \in Nat
  BY <1>1, BlockRangeType
<1> DEFINE old(j) == IF j < i THEN j ELSE j + 1
<1>a. \A j \in DOMAIN rs' : /\ old(j) \in DOMAIN rs
                            /\ rs'[j] = rs[old(j)]
                            /\ j < i => old(j) = j
  BY <1>1, <1>2, <1>3
<1>b. \A j, k \in DOMAIN rs' : j < k => old(j) < old(k)
  BY <1>1, <1>3
<1> HIDE DEF old
<1>5. SortedByStart(rs')
  BY <1>1, <1>a, <1>b DEF SortedByStart, CanonicalizePhase
<1>6. PrefixSeparated'
  <2> SUFFICES ASSUME NEW j \in DOMAIN rs', j < i
               PROVE  /\ rs'[j][1] <= rs'[j][2]
                      /\ \A k \in DOMAIN rs' : j < k => rs'[j][2] + 1 < rs'[k][1]
    BY <1>1 DEF PrefixSeparated
  <2>. QED
    BY <1>1, <1>a, <1>b DEF PrefixSeparated, CanonicalizePhase
<1>7. Covered(Range(rs')) = Covered(Range(rs))
  <2>1. ASSUME NEW n \in Int, CoveredBy(rs', n) PROVE CoveredBy(rs, n)
    BY <1>1, <1>2, <1>3, <2>1 DEF CoveredBy
  <2>2. ASSUME NEW n \in Int, CoveredBy(rs, n) PROVE CoveredBy(rs', n)
    <3>1. PICK k \in DOMAIN rs : rs[k][1] <= n /\ n <= rs[k][2]
      BY <2>2 DEF CoveredBy
    <3>2. k # i
      BY <1>1, <1>3, <1>4, <3>1
    <3>3. CASE k < i
      BY <1>1, <1>2, <1>3, <3>1, <3>3 DEF CoveredBy
    <3>4. CASE k > i
      <4>1. k - 1 \in DOMAIN rs' /\ rs'[k - 1] = rs[k]
        BY <1>1, <1>2, <1>3, <3>4
      <4>. QED
        BY <3>1, <4>1 DEF CoveredBy
    <3>. QED
      BY <1>1, <1>3, <3>2, <3>3, <3>4
  <2>. QED
    BY <1>1, <2>1, <2>2, SameCover
<1>8. Goal' = Goal
  BY DEF RemoveEmpty, Goal
<1>9. CanonicalizePhase'
  BY <1>1, <1>2, <1>3, <1>5, <1>6, <1>7, <1>8 DEF CanonicalizePhase
<1>. QED
  BY <1>9 DEF LoopInvariant, RemoveEmpty, InCanonicalize, IsEmpty

(* Merging a range with the next one, which starts inside it or right      *)
(* behind it. *)
LEMMA MergeStep ==
    ASSUME MaxEnd < MaxU64, TypeOK, LoopInvariant, Merge, TypeOK'
    PROVE  LoopInvariant'
<1> DEFINE merged == <<rs[i][1], Larger(rs[i][2], rs[i + 1][2])>>
           mid == ReplaceAt(rs, i, merged)
           old(j) == IF j <= i THEN j ELSE j + 1
<1>1. /\ rs \in Seq(BlockRange) /\ rs' \in Seq(BlockRange)
      /\ i \in 1 .. Len(rs) /\ i + 1 \in 1 .. Len(rs) /\ i' = i
      /\ CanonicalizePhase
      /\ rs' = RemoveAt(mid, i + 1)
  BY LenProperties DEF TypeOK, Merge, InCanonicalize, LoopInvariant
<1>2. /\ DOMAIN rs = 1 .. Len(rs) /\ Len(rs) \in Nat
      /\ \A k \in DOMAIN rs : rs[k][1] \in Nat /\ rs[k][2] \in Nat
  BY <1>1, LenProperties, BlockRangeType
<1>3. /\ rs[i][1] <= rs[i][2]
      /\ rs[i + 1][1] <= rs[i][2] + 1
  <2>1. rs[i][2] # MaxU64
    BY <1>1, <1>2, BlockRangeType, BoundsAssumption DEF Number
  <2>. QED
    BY <1>1, <1>2, <2>1 DEF Merge, IsEmpty, Touches, Successor
<1>4. rs[i][1] <= rs[i + 1][1]
  BY <1>1, <1>2 DEF CanonicalizePhase, SortedByStart
<1>5. merged \in BlockRange /\ merged[1] = rs[i][1]
      /\ merged[2] = Larger(rs[i][2], rs[i + 1][2])
  BY <1>1, <1>2, BlockRangeType DEF Larger, BlockRange
<1> HIDE DEF merged
<1>6. /\ mid \in Seq(BlockRange) /\ Len(mid) = Len(rs)
      /\ \A j \in 1 .. Len(rs) : mid[j] = IF j = i THEN merged ELSE rs[j]
  <2>1. rs \in Seq(BlockRange) /\ i \in 1 .. Len(rs) /\ merged \in BlockRange
    BY <1>1, <1>5
  <2>. QED
    BY <2>1, ReplaceAtProperties
<1> HIDE DEF mid
<1>7. /\ Len(rs') = Len(rs) - 1
      /\ \A j \in 1 .. Len(rs) - 1 :
            rs'[j] = IF j < i + 1 THEN mid[j] ELSE mid[j + 1]
  <2>1. i + 1 \in 1 .. Len(mid)
    BY <1>1, <1>6
  <2>2. /\ Len(RemoveAt(mid, i + 1)) = Len(mid) - 1
        /\ \A j \in 1 .. Len(mid) - 1 : RemoveAt(mid, i + 1)[j] =
               IF j < i + 1 THEN mid[j] ELSE mid[j + 1]
    BY <1>6, <2>1, RemoveAtProperties
  <2>. QED
    BY <1>1, <1>6, <2>2
<1>8. DOMAIN rs' = 1 .. Len(rs) - 1
  BY <1>1, <1>7, LenProperties
<1>9. /\ \A j \in DOMAIN rs' : /\ old(j) \in DOMAIN rs
                               /\ rs'[j] = IF j = i THEN merged ELSE rs[old(j)]
                               /\ j < i => old(j) = j
      /\ \A j, k \in DOMAIN rs' : j < k => old(j) < old(k)
      /\ old(i) = i /\ i \in DOMAIN rs'
  BY <1>1, <1>2, <1>6, <1>7, <1>8
<1>10. \A k \in DOMAIN rs : k # i /\ k # i + 1 =>
          \E j \in DOMAIN rs' : j # i /\ old(j) = k
  <2> SUFFICES ASSUME NEW k \in DOMAIN rs, k # i, k # i + 1
               PROVE  \E j \in DOMAIN rs' : j # i /\ old(j) = k
    OBVIOUS
  <2>1. CASE k < i
    <3>1. k \in DOMAIN rs' /\ k # i /\ old(k) = k
      BY <1>1, <1>2, <1>8, <2>1
    <3>. QED
      BY <3>1
  <2>2. CASE k > i + 1
    <3>1. k - 1 \in DOMAIN rs' /\ k - 1 # i /\ old(k - 1) = k
      BY <1>1, <1>2, <1>8, <2>2
    <3>. QED
      BY <3>1
  <2>. QED
    BY <1>1, <1>2, <2>1, <2>2
<1> HIDE DEF old
<1>11. \A j \in DOMAIN rs' : rs'[j][1] = rs[old(j)][1]
  BY <1>5, <1>9
<1>12. SortedByStart(rs')
  BY <1>1, <1>9, <1>11 DEF SortedByStart, CanonicalizePhase
<1>13. PrefixSeparated'
  <2> SUFFICES ASSUME NEW j \in DOMAIN rs', j < i
               PROVE  /\ rs'[j][1] <= rs'[j][2]
                      /\ \A k \in DOMAIN rs' : j < k => rs'[j][2] + 1 < rs'[k][1]
    BY <1>1 DEF PrefixSeparated
  <2>1. rs'[j] = rs[j] /\ j \in DOMAIN rs /\ old(j) = j
    <3>1. j # i
      BY <1>1, <1>2, <1>8
    <3>. QED
      BY <1>9, <3>1
  <2>. QED
    BY <1>1, <1>9, <1>11, <2>1 DEF PrefixSeparated, CanonicalizePhase
<1>14. Covered(Range(rs')) = Covered(Range(rs))
  <2>1. ASSUME NEW n \in Int, CoveredBy(rs', n) PROVE CoveredBy(rs, n)
    <3>1. PICK j \in DOMAIN rs' : rs'[j][1] <= n /\ n <= rs'[j][2]
      BY <2>1 DEF CoveredBy
    <3>2. CASE j # i
      BY <1>9, <3>1, <3>2 DEF CoveredBy
    <3>3. CASE j = i
      <4>1. \/ rs[i][1] <= n /\ n <= rs[i][2]
            \/ rs[i + 1][1] <= n /\ n <= rs[i + 1][2]
        BY <1>1, <1>2, <1>3, <1>5, <1>9, <3>1, <3>3 DEF Larger
      <4>. QED
        BY <1>1, <1>2, <4>1 DEF CoveredBy
    <3>. QED
      BY <3>2, <3>3
  <2>2. ASSUME NEW n \in Int, CoveredBy(rs, n) PROVE CoveredBy(rs', n)
    <3>1. PICK k \in DOMAIN rs : rs[k][1] <= n /\ n <= rs[k][2]
      BY <2>2 DEF CoveredBy
    <3>2. CASE k # i /\ k # i + 1
      BY <1>9, <1>10, <3>1, <3>2 DEF CoveredBy
    <3>3. CASE k = i \/ k = i + 1
      <4>1. merged[1] <= n /\ n <= merged[2]
        BY <1>1, <1>2, <1>4, <1>5, <3>1, <3>3 DEF Larger
      <4>. QED
        BY <1>9, <4>1 DEF CoveredBy
    <3>. QED
      BY <3>2, <3>3
  <2>. QED
    BY <1>1, <2>1, <2>2, SameCover
<1>15. Goal' = Goal
  BY DEF Merge, Goal
<1>16. CanonicalizePhase'
  BY <1>1, <1>2, <1>7, <1>12, <1>13, <1>14, <1>15 DEF CanonicalizePhase
<1>. QED
  BY <1>16 DEF LoopInvariant, Merge, InCanonicalize, IsEmpty

(* Moving on: the range at the index is not empty and ends before the next *)
(* one starts, hence before all that follow.                               *)
LEMMA KeepStep ==
    ASSUME MaxEnd < MaxU64, TypeOK, LoopInvariant, Keep, TypeOK'
    PROVE  LoopInvariant'
<1>1. /\ rs \in Seq(BlockRange) /\ rs' = rs
      /\ i \in 1 .. Len(rs) /\ i' = i + 1
      /\ CanonicalizePhase
  BY LenProperties DEF TypeOK, Keep, InCanonicalize, LoopInvariant
<1>2. /\ DOMAIN rs = 1 .. Len(rs) /\ Len(rs) \in Nat
      /\ \A k \in DOMAIN rs : rs[k][1] \in Nat /\ rs[k][2] \in Nat
  BY <1>1, LenProperties, BlockRangeType
<1>3. /\ rs[i][1] <= rs[i][2]
      /\ i + 1 \in DOMAIN rs => rs[i][2] + 1 < rs[i + 1][1]
  <2>1. rs[i][2] # MaxU64
    BY <1>1, <1>2, BlockRangeType, BoundsAssumption DEF Number
  <2>. QED
    BY <1>1, <1>2, <2>1 DEF Keep, IsEmpty, Touches, Successor
<1>4. ASSUME NEW k \in DOMAIN rs, i < k PROVE rs[i][2] + 1 < rs[k][1]
  <2>1. i + 1 \in DOMAIN rs /\ (k = i + 1 \/ i + 1 < k)
    BY <1>1, <1>2, <1>4
  <2>2. rs[i + 1][1] <= rs[k][1]
    BY <1>1, <1>2, <2>1 DEF CanonicalizePhase, SortedByStart
  <2>. QED
    BY <1>1, <1>2, <1>3, <2>1, <2>2
<1>5. PrefixSeparated'
  <2> SUFFICES ASSUME NEW j \in DOMAIN rs, j < i + 1
               PROVE  /\ rs[j][1] <= rs[j][2]
                      /\ \A k \in DOMAIN rs : j < k => rs[j][2] + 1 < rs[k][1]
    BY <1>1 DEF PrefixSeparated
  <2>1. CASE j < i
    BY <1>1, <2>1 DEF CanonicalizePhase, PrefixSeparated
  <2>2. CASE j = i
    BY <1>3, <1>4, <2>2
  <2>. QED
    BY <1>1, <1>2, <2>1, <2>2
<1>6. Goal' = Goal
  BY DEF Keep, Goal
<1>7. CanonicalizePhase'
  BY <1>1, <1>2, <1>5, <1>6 DEF CanonicalizePhase
<1>. QED
  BY <1>7 DEF LoopInvariant, Keep, InCanonicalize, IsEmpty

(* At the end of the first loop the prefix is the whole vector. *)
LEMMA EndCanonicalizeStep ==
    ASSUME TypeOK, LoopInvariant, EndCanonicalize, TypeOK'
    PROVE  LoopInvariant'
<1>1. /\ rs \in Seq(BlockRange) /\ rs' = rs /\ i' = 1
      /\ i \in Nat /\ i > Len(rs)
      /\ CanonicalizePhase
      /\ DOMAIN rs = 1 .. Len(rs) /\ Len(rs) \in Nat
  BY LenProperties DEF TypeOK, EndCanonicalize, LoopInvariant
<1>2. Separated(rs')
  <2>1. \A j \in DOMAIN rs : j < i
    BY <1>1
  <2>. QED
    BY <1>1, <2>1 DEF CanonicalizePhase, PrefixSeparated, Separated
<1>3. Goal' = Goal /\ arg' = arg /\ op' = op
  BY DEF EndCanonicalize, Goal
<1>4. CASE op = "subtract_range"
  <2>1. SubtractPhase'
    BY <1>1, <1>2, <1>3, <1>4 DEF SubtractPhase, CanonicalizePhase
  <2>. QED
    BY <1>4, <2>1 DEF LoopInvariant, EndCanonicalize, IsEmpty
<1>5. CASE op # "subtract_range"
  <2>1. DonePhase'
    BY <1>1, <1>2, <1>3, <1>5 DEF DonePhase, CanonicalizePhase
  <2>. QED
    BY <1>5, <2>1 DEF LoopInvariant, EndCanonicalize, IsEmpty
<1>. QED
  BY <1>4, <1>5

-----------------------------------------------------------------------------
(* The second loop.  Facts about its state that every step starts from. *)
LEMMA SubtractFacts ==
    ASSUME TypeOK, LoopInvariant, InSubtract
    PROVE  /\ rs \in Seq(BlockRange)
           /\ DOMAIN rs = 1 .. Len(rs) /\ Len(rs) \in Nat
           /\ i \in 1 .. Len(rs) /\ i \in DOMAIN rs
           /\ SubtractPhase
           /\ arg[1] \in Nat /\ arg[2] \in Nat /\ arg[1] <= arg[2]
           /\ \A k \in DOMAIN rs : /\ rs[k][1] \in Nat /\ rs[k][2] \in Nat
                                    /\ rs[k][1] <= rs[k][2]
           /\ \A j, k \in DOMAIN rs : j < k => rs[j][2] + 1 < rs[k][1]
<1>1. rs \in Seq(BlockRange) /\ arg \in BlockRange /\ i \in Nat \ {0}
  BY DEF TypeOK
<1>2. SubtractPhase /\ i <= Len(rs) /\ ~ IsEmpty(arg)
  BY DEF LoopInvariant, InSubtract, SubtractPhase
<1>3. arg[1] \in Nat /\ arg[2] \in Nat
  BY <1>1, BoundsAssumption DEF BlockRange, Number
<1>4. DOMAIN rs = 1 .. Len(rs) /\ Len(rs) \in Nat
  BY <1>1, LenProperties
<1>5. \A k \in DOMAIN rs : rs[k][1] \in Nat /\ rs[k][2] \in Nat
  BY <1>1, BlockRangeType
<1>. QED
  BY <1>1, <1>2, <1>3, <1>4, <1>5 DEF SubtractPhase, Separated, IsEmpty

(* Only the numbers outside the deleted range matter. *)
LEMMA SameCoverOutside ==
    ASSUME NEW s \in Seq(BlockRange), NEW t \in Seq(BlockRange),
           NEW r \in BlockRange,
           \A n \in Int : ~ (r[1] <= n /\ n <= r[2]) =>
                             (CoveredBy(s, n) <=> CoveredBy(t, n))
    PROVE  Covered(Range(s)) \ Blocks(r) = Covered(Range(t)) \ Blocks(r)
<1>1. r[1] \in Int /\ r[2] \in Int
  BY BoundsAssumption DEF BlockRange, Number
<1>. QED
  BY <1>1, CoveredOfVector DEF Blocks

LEMMA SkipStep ==
    ASSUME TypeOK, LoopInvariant, Skip, TypeOK'
    PROVE  LoopInvariant'
<1>1. InSubtract /\ rs' = rs /\ i' = i + 1 /\ arg' = arg /\ op' = op /\ Goal' = Goal
  BY DEF Skip, Goal
<1>2. SubtractPhase /\ i \in 1 .. Len(rs) /\ Len(rs) \in Nat /\ DOMAIN rs = 1 .. Len(rs)
  BY <1>1, SubtractFacts
<1>3. \A j \in DOMAIN rs : j < i + 1 => Disjoint(rs[j])
  <2> SUFFICES ASSUME NEW j \in DOMAIN rs, j < i + 1 PROVE Disjoint(rs[j])
    OBVIOUS
  <2>1. CASE j < i
    BY <1>2, <2>1 DEF SubtractPhase
  <2>2. CASE j = i
    BY <2>2 DEF Skip
  <2>. QED
    BY <1>2, <2>1, <2>2
<1>4. SubtractPhase'
  BY <1>1, <1>2, <1>3 DEF SubtractPhase, Disjoint
<1>. QED
  BY <1>1, <1>4 DEF LoopInvariant, Skip, InSubtract, IsEmpty

LEMMA RemoveContainedStep ==
    ASSUME TypeOK, LoopInvariant, RemoveContained, TypeOK'
    PROVE  LoopInvariant'
<1> DEFINE old(j) == IF j < i THEN j ELSE j + 1
<1>0. InSubtract
  BY DEF RemoveContained
<1>1. /\ i' = i /\ arg' = arg /\ op' = op /\ Goal' = Goal
      /\ arg[1] <= rs[i][1] /\ arg[2] >= rs[i][2]
      /\ rs' \in Seq(BlockRange) /\ arg \in BlockRange
  BY DEF RemoveContained, Goal, TypeOK
<1>2. /\ Len(rs') = Len(rs) - 1
      /\ \A j \in 1 .. Len(rs) - 1 : rs'[j] = IF j < i THEN rs[j] ELSE rs[j + 1]
  BY <1>0, SubtractFacts, RemoveAtProperties DEF RemoveContained
<1>3. DOMAIN rs' = 1 .. Len(rs) - 1
  BY <1>1, <1>2, LenProperties
<1>4. /\ \A j \in DOMAIN rs' : /\ old(j) \in DOMAIN rs
                               /\ rs'[j] = rs[old(j)]
                               /\ j < i => old(j) = j
      /\ \A j, k \in DOMAIN rs' : j < k => old(j) < old(k)
  BY <1>0, <1>2, <1>3, SubtractFacts
<1>5. \A k \in DOMAIN rs : k # i => \E j \in DOMAIN rs' : old(j) = k
  <2> SUFFICES ASSUME NEW k \in DOMAIN rs, k # i
               PROVE  \E j \in DOMAIN rs' : old(j) = k
    OBVIOUS
  <2>1. CASE k < i
    <3>1. k \in DOMAIN rs' /\ old(k) = k
      BY <1>0, <1>3, <2>1, SubtractFacts
    <3>. QED
      BY <3>1
  <2>2. CASE k > i
    <3>1. k - 1 \in DOMAIN rs' /\ old(k - 1) = k
      BY <1>0, <1>3, <2>2, SubtractFacts
    <3>. QED
      BY <3>1
  <2>. QED
    BY <1>0, <2>1, <2>2, SubtractFacts
<1> HIDE DEF old
<1>6. Separated(rs')
  BY <1>0, <1>4, SubtractFacts DEF Separated
<1>7. \A j \in DOMAIN rs' : j < i => Disjoint(rs'[j])
  BY <1>0, <1>4, SubtractFacts DEF SubtractPhase
<1>8. Covered(Range(rs')) \ Blocks(arg) = Covered(Range(rs)) \ Blocks(arg)
  <2>1. ASSUME NEW n \in Int, ~ (arg[1] <= n /\ n <= arg[2]), CoveredBy(rs', n)
        PROVE  CoveredBy(rs, n)
    BY <1>4, <2>1 DEF CoveredBy
  <2>2. ASSUME NEW n \in Int, ~ (arg[1] <= n /\ n <= arg[2]), CoveredBy(rs, n)
        PROVE  CoveredBy(rs', n)
    <3>1. PICK k \in DOMAIN rs : rs[k][1] <= n /\ n <= rs[k][2]
      BY <2>2 DEF CoveredBy
    <3>2. k # i
      BY <1>0, <1>1, <2>2, <3>1, SubtractFacts
    <3>. QED
      BY <1>4, <1>5, <3>1, <3>2 DEF CoveredBy
  <2>3. rs \in Seq(BlockRange)
    BY DEF TypeOK
  <2>. QED
    BY <1>1, <2>1, <2>2, <2>3, SameCoverOutside
<1>9. SubtractPhase'
  <2>1. i <= Len(rs') + 1
    BY <1>0, <1>2, SubtractFacts
  <2>. QED
    BY <1>0, <1>1, <1>6, <1>7, <1>8, <2>1, SubtractFacts
    DEF SubtractPhase, Disjoint
<1>. QED
  BY <1>0, <1>1, <1>9 DEF LoopInvariant, RemoveContained, InSubtract, IsEmpty

(* Both trims replace rs[i] by the part of it that is not deleted. *)
LEMMA TrimStep ==
    ASSUME TypeOK, LoopInvariant, InSubtract, TypeOK',
           NEW part \in BlockRange,
           part[1] <= part[2],
           rs[i][1] <= part[1], part[2] <= rs[i][2],
           arg[2] < part[1] \/ arg[1] > part[2],
           \A n \in Int : /\ rs[i][1] <= n /\ n <= rs[i][2]
                          /\ ~ (arg[1] <= n /\ n <= arg[2])
                          => part[1] <= n /\ n <= part[2],
           rs' = ReplaceAt(rs, i, part), i' = i + 1,
           UNCHANGED <<op, input, arg, pc>>
    PROVE  LoopInvariant'
<1>1. /\ Goal' = Goal /\ arg' = arg /\ arg \in BlockRange /\ op' = op
      /\ rs' \in Seq(BlockRange) /\ rs \in Seq(BlockRange) /\ i' = i + 1
  BY DEF Goal, TypeOK
<1>2. /\ Len(rs') = Len(rs)
      /\ \A j \in 1 .. Len(rs) : rs'[j] = IF j = i THEN part ELSE rs[j]
  BY SubtractFacts, ReplaceAtProperties
<1>3. DOMAIN rs' = DOMAIN rs
  BY <1>1, <1>2, LenProperties, SubtractFacts
<1>4. part[1] \in Nat /\ part[2] \in Nat
  BY BoundsAssumption DEF BlockRange, Number
<1>5. \A j \in DOMAIN rs : /\ rs[j][1] <= rs'[j][1] /\ rs'[j][2] <= rs[j][2]
                           /\ rs'[j][1] <= rs'[j][2]
                           /\ rs'[j][1] \in Nat /\ rs'[j][2] \in Nat
  BY <1>2, <1>4, SubtractFacts
<1>6. Separated(rs')
  <2> SUFFICES ASSUME NEW j \in DOMAIN rs, NEW k \in DOMAIN rs, j < k
               PROVE  rs'[j][2] + 1 < rs'[k][1]
    BY <1>3, <1>5 DEF Separated
  <2>1. rs[j][2] + 1 < rs[k][1]
    BY SubtractFacts
  <2>2. rs[j][2] \in Nat /\ rs[k][1] \in Nat
    BY SubtractFacts
  <2>3. /\ rs'[j][2] <= rs[j][2] /\ rs[k][1] <= rs'[k][1]
        /\ rs'[j][2] \in Nat /\ rs'[k][1] \in Nat
    BY <1>5
  <2>. QED
    BY <2>1, <2>2, <2>3
<1>7. \A j \in DOMAIN rs' : j < i + 1 => Disjoint(rs'[j])
  <2> SUFFICES ASSUME NEW j \in DOMAIN rs, j < i + 1 PROVE Disjoint(rs'[j])
    BY <1>3
  <2>1. CASE j < i
    <3>1. j # i /\ j \in 1 .. Len(rs)
      BY <2>1, SubtractFacts
    <3>2. rs'[j] = rs[j]
      BY <1>2, <3>1
    <3>. QED
      BY <2>1, <3>2, SubtractFacts DEF SubtractPhase
  <2>2. CASE j = i
    BY <1>2, <2>2, SubtractFacts DEF Disjoint
  <2>. QED
    BY <2>1, <2>2, SubtractFacts
<1>8. Covered(Range(rs')) \ Blocks(arg) = Covered(Range(rs)) \ Blocks(arg)
  <2>1. ASSUME NEW n \in Int, ~ (arg[1] <= n /\ n <= arg[2]), CoveredBy(rs', n)
        PROVE  CoveredBy(rs, n)
    <3>1. PICK j \in DOMAIN rs : rs'[j][1] <= n /\ n <= rs'[j][2]
      BY <1>3, <2>1 DEF CoveredBy
    <3>2. rs[j][1] <= n /\ n <= rs[j][2]
      BY <1>5, <3>1, SubtractFacts
    <3>. QED
      BY <3>2 DEF CoveredBy
  <2>2. ASSUME NEW n \in Int, ~ (arg[1] <= n /\ n <= arg[2]), CoveredBy(rs, n)
        PROVE  CoveredBy(rs', n)
    <3>1. PICK k \in DOMAIN rs : rs[k][1] <= n /\ n <= rs[k][2]
      BY <2>2 DEF CoveredBy
    <3>2. rs'[k][1] <= n /\ n <= rs'[k][2]
      BY <1>2, <2>2, <3>1, SubtractFacts
    <3>. QED
      BY <1>3, <3>2 DEF CoveredBy
  <2>. QED
    BY <1>1, <2>1, <2>2, SameCoverOutside
<1>9. SubtractPhase'
  <2>1. i + 1 <= Len(rs') + 1
    BY <1>2, SubtractFacts
  <2>. QED
    BY <1>1, <1>6, <1>7, <1>8, <2>1, SubtractFacts DEF SubtractPhase, Disjoint
<1>. QED
  BY <1>1, <1>9 DEF LoopInvariant, InSubtract, IsEmpty

LEMMA TrimRightStep ==
    ASSUME TypeOK, LoopInvariant, TrimRight, TypeOK'
    PROVE  LoopInvariant'
<1> DEFINE part == <<rs[i][1], arg[1] - 1>>
<1>1. InSubtract /\ ~ Disjoint(rs[i]) /\ arg[1] > rs[i][1] /\ arg[2] >= rs[i][2]
  BY DEF TrimRight
<1>2. rs[i][1] \in Number /\ arg \in BlockRange
  BY <1>1, SubtractFacts, BlockRangeType DEF TypeOK
<1>3. part \in BlockRange /\ part[1] = rs[i][1] /\ part[2] = arg[1] - 1
  BY <1>1, <1>2, SubtractFacts, BoundsAssumption DEF BlockRange, Number
<1>4. rs' = ReplaceAt(rs, i, part) /\ i' = i + 1 /\ UNCHANGED <<op, input, arg, pc>>
  BY DEF TrimRight
<1> HIDE DEF part
<1>5. /\ part[1] <= part[2] /\ rs[i][1] <= part[1] /\ part[2] <= rs[i][2]
      /\ arg[1] > part[2]
      /\ \A n \in Int : /\ rs[i][1] <= n /\ n <= rs[i][2]
                         /\ ~ (arg[1] <= n /\ n <= arg[2])
                         => part[1] <= n /\ n <= part[2]
  BY <1>1, <1>3, SubtractFacts DEF Disjoint
<1>. QED
  BY <1>1, <1>3, <1>4, <1>5, TrimStep

LEMMA TrimLeftStep ==
    ASSUME TypeOK, LoopInvariant, TrimLeft, TypeOK'
    PROVE  LoopInvariant'
<1> DEFINE part == <<Successor(arg[2]), rs[i][2]>>
<1>1. InSubtract /\ ~ Disjoint(rs[i]) /\ arg[1] <= rs[i][1] /\ arg[2] < rs[i][2]
  BY DEF TrimLeft
<1>2. rs[i][2] \in Number /\ arg \in BlockRange
  BY <1>1, SubtractFacts, BlockRangeType DEF TypeOK
<1>3. part \in BlockRange /\ part[1] = arg[2] + 1 /\ part[2] = rs[i][2]
  BY <1>1, <1>2, SubtractFacts, BoundsAssumption DEF BlockRange, Number, Successor
<1>4. rs' = ReplaceAt(rs, i, part) /\ i' = i + 1 /\ UNCHANGED <<op, input, arg, pc>>
  BY DEF TrimLeft
<1> HIDE DEF part
<1>5. /\ part[1] <= part[2] /\ rs[i][1] <= part[1] /\ part[2] <= rs[i][2]
      /\ arg[2] < part[1]
      /\ \A n \in Int : /\ rs[i][1] <= n /\ n <= rs[i][2]
                         /\ ~ (arg[1] <= n /\ n <= arg[2])
                         => part[1] <= n /\ n <= part[2]
  BY <1>1, <1>3, SubtractFacts DEF Disjoint
<1>. QED
  BY <1>1, <1>3, <1>4, <1>5, TrimStep

LEMMA EndSubtractStep ==
    ASSUME TypeOK, LoopInvariant, EndSubtract, TypeOK'
    PROVE  LoopInvariant'
<1>1. /\ rs \in Seq(BlockRange) /\ rs' = rs /\ arg \in BlockRange
      /\ i \in Nat /\ i > Len(rs) /\ SubtractPhase /\ ~ IsEmpty(arg)
      /\ DOMAIN rs = 1 .. Len(rs) /\ Len(rs) \in Nat
  BY LenProperties DEF TypeOK, EndSubtract, LoopInvariant, SubtractPhase
<1>2. \A j \in DOMAIN rs : Disjoint(rs[j])
  BY <1>1 DEF SubtractPhase
<1>3. Covered(Range(rs)) \cap Blocks(arg) = {}
  <2>1. \A k \in DOMAIN rs : rs[k][1] \in Nat /\ rs[k][2] \in Nat
    BY <1>1, BlockRangeType
  <2>2. arg[1] \in Nat /\ arg[2] \in Nat
    BY <1>1, BoundsAssumption DEF BlockRange, Number
  <2>. QED
    BY <1>1, <1>2, <2>1, <2>2, CoveredOfVector DEF CoveredBy, Blocks, Disjoint
<1>4. Goal' = Goal /\ arg' = arg /\ op' = op /\ pc' = "done"
  BY DEF EndSubtract, Goal
<1>5. DonePhase'
  BY <1>1, <1>3, <1>4 DEF DonePhase, SubtractPhase
<1>. QED
  BY <1>1, <1>4, <1>5 DEF LoopInvariant, IsEmpty

(* add_range pushes its argument: the vector covers it as well. *)
LEMMA CallStep ==
    ASSUME TypeOK, LoopInvariant, Call, TypeOK'
    PROVE  LoopInvariant'
<1>1. /\ rs \in Seq(BlockRange) /\ rs = input /\ arg \in BlockRange
      /\ Goal' = Goal /\ op' = op /\ arg' = arg /\ pc' = "sort"
  BY DEF TypeOK, Call, LoopInvariant, Goal
<1>2. CASE op = "add_range"
  <2>1. rs' = Append(rs, arg)
    BY <1>2 DEF Call
  <2>2. Range(rs') = Range(rs) \cup {arg}
    <3>1. /\ rs' \in Seq(BlockRange)
          /\ Len(rs') = Len(rs) + 1
          /\ \A k \in 1 .. Len(rs) : rs'[k] = rs[k]
          /\ rs'[Len(rs) + 1] = arg
      BY <1>1, <2>1, AppendProperties
    <3>2. /\ DOMAIN rs = 1 .. Len(rs) /\ Len(rs) \in Nat
          /\ DOMAIN rs' = (1 .. Len(rs)) \cup {Len(rs) + 1}
      BY <1>1, <3>1, LenProperties
    <3>. QED
      BY <3>1, <3>2 DEF Range
  <2>3. Covered(Range(rs')) = Covered(Range(rs)) \cup Blocks(arg)
    BY <2>2 DEF Covered
  <2>4. SortPhase'
    BY <1>1, <1>2, <2>3 DEF SortPhase, Goal
  <2>. QED
    BY <1>1, <1>2, <2>4 DEF LoopInvariant
<1>3. CASE op # "add_range"
  <2>1. SortPhase'
    BY <1>1, <1>3 DEF SortPhase, Goal, Call
  <2>. QED
    BY <1>1, <2>1 DEF LoopInvariant, IsEmpty
<1>. QED
  BY <1>2, <1>3

(* The deleted range lies inside rs[i]: what is left of it on both sides.  *)
LEMMA SplitStep ==
    ASSUME TypeOK, LoopInvariant, Split, TypeOK'
    PROVE  LoopInvariant'
<1> DEFINE left  == <<rs[i][1], arg[1] - 1>>
           right == <<Successor(arg[2]), rs[i][2]>>
           mid == ReplaceAt(rs, i, left)
           old(j) == IF j <= i THEN j ELSE j - 1
<1>0. InSubtract /\ ~ Disjoint(rs[i]) /\ arg[1] > rs[i][1] /\ arg[2] < rs[i][2]
  BY DEF Split
<1>1. /\ i' = i + 2 /\ arg' = arg /\ op' = op /\ Goal' = Goal
      /\ rs \in Seq(BlockRange) /\ rs' \in Seq(BlockRange) /\ arg \in BlockRange
      /\ rs' = InsertAt(mid, i + 1, right)
  BY DEF Split, Goal, TypeOK
<1>2. rs[i][1] \in Number /\ rs[i][2] \in Number
  BY <1>0, SubtractFacts, BlockRangeType
<1>3. /\ left \in BlockRange /\ left[1] = rs[i][1] /\ left[2] = arg[1] - 1
      /\ right \in BlockRange /\ right[1] = arg[2] + 1 /\ right[2] = rs[i][2]
  BY <1>0, <1>1, <1>2, SubtractFacts, BoundsAssumption
  DEF BlockRange, Number, Successor
<1> HIDE DEF left, right
<1>4. /\ mid \in Seq(BlockRange) /\ Len(mid) = Len(rs)
      /\ \A j \in 1 .. Len(rs) : mid[j] = IF j = i THEN left ELSE rs[j]
  BY <1>0, <1>3, SubtractFacts, ReplaceAtProperties
<1> HIDE DEF mid
<1>5. /\ Len(rs') = Len(rs) + 1
      /\ \A j \in 1 .. Len(rs) + 1 :
            rs'[j] = IF j < i + 1 THEN mid[j]
                     ELSE IF j = i + 1 THEN right ELSE mid[j - 1]
  <2>1. i + 1 \in 1 .. Len(mid) + 1
    BY <1>0, <1>4, SubtractFacts
  <2>2. ASSUME NEW k \in 1 .. Len(mid) + 1
        PROVE  /\ Len(InsertAt(mid, k, right)) = Len(mid) + 1
               /\ \A j \in 1 .. Len(mid) + 1 :
                     InsertAt(mid, k, right)[j] =
                        IF j < k THEN mid[j]
                        ELSE IF j = k THEN right ELSE mid[j - 1]
    <3>1. mid \in Seq(BlockRange) /\ right \in BlockRange
      BY <1>3, <1>4
    <3>. QED
      BY <3>1, InsertAtProperties
  <2>. QED
    BY <1>1, <1>4, <2>1, <2>2
<1>6. DOMAIN rs' = 1 .. Len(rs) + 1
  BY <1>1, <1>5, LenProperties
<1>7. \A j \in DOMAIN rs' :
         /\ old(j) \in DOMAIN rs
         /\ rs'[j] = IF j = i THEN left ELSE IF j = i + 1 THEN right ELSE rs[old(j)]
         /\ j = i => old(j) = i
         /\ j = i + 1 => old(j) = i
         /\ j < i => old(j) = j
  <2>0. DOMAIN rs = 1 .. Len(rs) /\ Len(rs) \in Nat /\ i \in 1 .. Len(rs)
    BY <1>0, SubtractFacts
  <2> SUFFICES ASSUME NEW j \in 1 .. Len(rs) + 1
               PROVE  /\ old(j) \in DOMAIN rs
                      /\ rs'[j] = IF j = i THEN left
                                  ELSE IF j = i + 1 THEN right ELSE rs[old(j)]
                      /\ j = i => old(j) = i
                      /\ j = i + 1 => old(j) = i
                      /\ j < i => old(j) = j
    BY <1>6
  <2>1. CASE j < i + 1
    <3>1. rs'[j] = mid[j] /\ old(j) = j /\ j \in 1 .. Len(rs) /\ j # i + 1
      BY <1>5, <2>0, <2>1
    <3>. QED
      BY <1>4, <2>0, <3>1
  <2>2. CASE j = i + 1
    <3>1. rs'[j] = right /\ old(j) = i /\ j # i
      BY <1>5, <2>0, <2>2
    <3>. QED
      BY <2>0, <2>2, <3>1
  <2>3. CASE j > i + 1
    <3>1. /\ rs'[j] = mid[j - 1] /\ old(j) = j - 1 /\ j - 1 \in 1 .. Len(rs)
          /\ j # i /\ j # i + 1 /\ j - 1 # i /\ ~ (j < i)
      BY <1>5, <2>0, <2>3
    <3>2. mid[j - 1] = rs[j - 1]
      BY <1>4, <3>1
    <3>. QED
      BY <2>0, <3>1, <3>2
  <2>. QED
    BY <2>0, <2>1, <2>2, <2>3
<1>8. \A j, k \in DOMAIN rs' : j < k => old(j) < old(k) \/ (j = i /\ k = i + 1)
  BY <1>0, <1>6, SubtractFacts
<1>9. \A k \in DOMAIN rs : k # i =>
         \E j \in DOMAIN rs' : j # i /\ j # i + 1 /\ old(j) = k
  <2> SUFFICES ASSUME NEW k \in DOMAIN rs, k # i
               PROVE  \E j \in DOMAIN rs' : j # i /\ j # i + 1 /\ old(j) = k
    OBVIOUS
  <2>1. CASE k < i
    <3>1. k \in DOMAIN rs' /\ k # i /\ k # i + 1 /\ old(k) = k
      BY <1>0, <1>6, <2>1, SubtractFacts
    <3>. QED
      BY <3>1
  <2>2. CASE k > i
    <3>1. k + 1 \in DOMAIN rs' /\ k + 1 # i /\ k + 1 # i + 1 /\ old(k + 1) = k
      BY <1>0, <1>6, <2>2, SubtractFacts
    <3>. QED
      BY <3>1
  <2>. QED
    BY <1>0, <2>1, <2>2, SubtractFacts
<1>10. i \in DOMAIN rs' /\ i + 1 \in DOMAIN rs'
  BY <1>0, <1>6, SubtractFacts
<1> HIDE DEF old
<1>11. \A j \in DOMAIN rs' : /\ rs[old(j)][1] <= rs'[j][1]
                             /\ rs'[j][2] <= rs[old(j)][2]
                             /\ rs'[j][1] <= rs'[j][2]
                             /\ rs'[j][1] \in Nat /\ rs'[j][2] \in Nat
  <2>1. /\ left[1] \in Nat /\ left[2] \in Nat /\ left[1] <= left[2]
        /\ right[1] \in Nat /\ right[2] \in Nat /\ right[1] <= right[2]
        /\ rs[i][1] <= left[1] /\ left[2] <= rs[i][2]
        /\ rs[i][1] <= right[1] /\ right[2] <= rs[i][2]
    BY <1>0, <1>3, SubtractFacts
  <2>2. \A k \in DOMAIN rs : /\ rs[k][1] \in Nat /\ rs[k][2] \in Nat
                             /\ rs[k][1] <= rs[k][2]
    BY <1>0, SubtractFacts
  <2> SUFFICES ASSUME NEW j \in DOMAIN rs'
               PROVE  /\ rs[old(j)][1] <= rs'[j][1] /\ rs'[j][2] <= rs[old(j)][2]
                      /\ rs'[j][1] <= rs'[j][2]
                      /\ rs'[j][1] \in Nat /\ rs'[j][2] \in Nat
    OBVIOUS
  <2>3. CASE j = i
    BY <1>7, <2>1, <2>3
  <2>4. CASE j = i + 1 /\ j # i
    BY <1>7, <2>1, <2>4
  <2>5. CASE j # i /\ j # i + 1
    BY <1>7, <2>2, <2>5
  <2>. QED
    BY <2>3, <2>4, <2>5
<1>12. Separated(rs')
  <2> SUFFICES ASSUME NEW j \in DOMAIN rs', NEW k \in DOMAIN rs', j < k
               PROVE  rs'[j][2] + 1 < rs'[k][1]
    BY <1>11 DEF Separated
  <2>1. CASE j = i /\ k = i + 1
    <3>1. rs'[j] = left /\ rs'[k] = right
      BY <1>0, <1>7, <2>1, SubtractFacts
    <3>. QED
      BY <1>0, <1>3, <3>1, SubtractFacts
  <2>2. CASE old(j) < old(k)
    <3>1. old(j) \in DOMAIN rs /\ old(k) \in DOMAIN rs
      BY <1>7
    <3>2. rs[old(j)][2] + 1 < rs[old(k)][1]
      BY <1>0, <2>2, <3>1, SubtractFacts
    <3>3. rs[old(j)][2] \in Nat /\ rs[old(k)][1] \in Nat
      BY <1>0, <3>1, SubtractFacts
    <3>4. /\ rs'[j][2] <= rs[old(j)][2] /\ rs[old(k)][1] <= rs'[k][1]
          /\ rs'[j][2] \in Nat /\ rs'[k][1] \in Nat
      BY <1>11
    <3>. QED
      BY <3>2, <3>3, <3>4
  <2>. QED
    BY <1>8, <2>1, <2>2
<1>13. \A j \in DOMAIN rs' : j < i + 2 => Disjoint(rs'[j])
  <2> SUFFICES ASSUME NEW j \in DOMAIN rs', j < i + 2 PROVE Disjoint(rs'[j])
    OBVIOUS
  <2>1. CASE j < i
    <3>1. j # i /\ j # i + 1 /\ j \in DOMAIN rs
      BY <1>0, <1>6, <2>1, SubtractFacts
    <3>2. rs'[j] = rs[j]
      BY <1>7, <2>1, <3>1
    <3>. QED
      BY <1>0, <2>1, <3>1, <3>2, SubtractFacts DEF SubtractPhase
  <2>2. CASE j = i
    <3>1. rs'[j] = left
      BY <1>7, <2>2
    <3>. QED
      BY <1>0, <1>3, <3>1, SubtractFacts DEF Disjoint
  <2>3. CASE j = i + 1
    <3>1. rs'[j] = right
      BY <1>0, <1>7, <2>3, SubtractFacts
    <3>. QED
      BY <1>0, <1>3, <3>1, SubtractFacts DEF Disjoint
  <2>. QED
    BY <1>0, <1>6, <2>1, <2>2, <2>3, SubtractFacts
<1>14. Covered(Range(rs')) \ Blocks(arg) = Covered(Range(rs)) \ Blocks(arg)
  <2>1. ASSUME NEW n \in Int, ~ (arg[1] <= n /\ n <= arg[2]), CoveredBy(rs', n)
        PROVE  CoveredBy(rs, n)
    <3>1. PICK j \in DOMAIN rs' : rs'[j][1] <= n /\ n <= rs'[j][2]
      BY <2>1 DEF CoveredBy
    <3>2. old(j) \in DOMAIN rs
      BY <1>7
    <3>3. rs[old(j)][1] \in Nat /\ rs[old(j)][2] \in Nat
      BY <1>0, <3>2, SubtractFacts
    <3>4. rs[old(j)][1] <= n /\ n <= rs[old(j)][2]
      BY <1>11, <3>1, <3>3
    <3>. QED
      BY <3>2, <3>4 DEF CoveredBy
  <2>2. ASSUME NEW n \in Int, ~ (arg[1] <= n /\ n <= arg[2]), CoveredBy(rs, n)
        PROVE  CoveredBy(rs', n)
    <3>1. PICK k \in DOMAIN rs : rs[k][1] <= n /\ n <= rs[k][2]
      BY <2>2 DEF CoveredBy
    <3>2. CASE k # i
      BY <1>7, <1>9, <3>1, <3>2 DEF CoveredBy
    <3>3. CASE k = i
      <4>1. \/ left[1] <= n /\ n <= left[2]
            \/ right[1] <= n /\ n <= right[2]
        BY <1>0, <1>3, <2>2, <3>1, <3>3, SubtractFacts
      <4>2. rs'[i] = left /\ rs'[i + 1] = right
        BY <1>0, <1>7, <1>10, SubtractFacts
      <4>. QED
        BY <1>10, <4>1, <4>2 DEF CoveredBy
    <3>. QED
      BY <3>2, <3>3
  <2>. QED
    BY <1>1, <2>1, <2>2, SameCoverOutside
<1>15. SubtractPhase'
  <2>1. i + 2 <= Len(rs') + 1
    BY <1>0, <1>5, SubtractFacts
  <2>. QED
    BY <1>0, <1>1, <1>12, <1>13, <1>14, <2>1, SubtractFacts
    DEF SubtractPhase, Disjoint
<1>. QED
  BY <1>0, <1>1, <1>15 DEF LoopInvariant, Split, InSubtract, IsEmpty

-----------------------------------------------------------------------------
LEMMA InitEstablishes ==
    ASSUME EmptyDeletion = FALSE, Init
    PROVE  TypeOK /\ LoopInvariant
<1>1. TypeOK
  BY VectorsAreSequences DEF Init, TypeOK
<1>2. LoopInvariant
  BY DEF Init, LoopInvariant
<1>. QED
  BY <1>1, <1>2

LEMMA LoopInvariantInductive ==
    ASSUME MaxEnd < MaxU64, TypeOK, LoopInvariant, [Next]_vars
    PROVE  TypeOK' /\ LoopInvariant'
<1>0. TypeOK'
  BY TypeInductive
<1>1. CASE UNCHANGED vars
  BY <1>0, <1>1 DEF vars, LoopInvariant, SortPhase, CanonicalizePhase,
     SubtractPhase, DonePhase, PrefixSeparated, Goal, IsEmpty, Disjoint
<1>2. CASE Call
  BY <1>0, <1>2, CallStep
<1>3. CASE Sort
  BY <1>0, <1>3, SortStep
<1>4. CASE RemoveEmpty
  BY <1>0, <1>4, RemoveEmptyStep
<1>5. CASE Merge
  BY <1>0, <1>5, MergeStep
<1>6. CASE Keep
  BY <1>0, <1>6, KeepStep
<1>7. CASE EndCanonicalize
  BY <1>0, <1>7, EndCanonicalizeStep
<1>8. CASE Skip
  BY <1>0, <1>8, SkipStep
<1>9. CASE RemoveContained
  BY <1>0, <1>9, RemoveContainedStep
<1>10. CASE TrimRight
  BY <1>0, <1>10, TrimRightStep
<1>11. CASE TrimLeft
  BY <1>0, <1>11, TrimLeftStep
<1>12. CASE Split
  BY <1>0, <1>12, SplitStep
<1>13. CASE EndSubtract
  BY <1>0, <1>13, EndSubtractStep
<1>. QED
  BY <1>1, <1>2, <1>3, <1>4, <1>5, <1>6, <1>7, <1>8, <1>9, <1>10, <1>11,
     <1>12, <1>13 DEF Next

LEMMA LoopInvariantSuffices ==
    ASSUME TypeOK, LoopInvariant
    PROVE  ComputesCanonicalRanges
<1> SUFFICES ASSUME pc = "done"
             PROVE  Separated(rs) /\ Range(rs) = Expected
  BY DEF ComputesCanonicalRanges
<1>1. /\ Separated(rs)
      /\ Covered(Range(rs)) =
            IF op = "subtract_range" THEN Goal \ Blocks(arg) ELSE Goal
  BY DEF LoopInvariant, DonePhase
<1>2. Range(rs) = Canonical(Covered(Range(rs)))
  BY <1>1, SeparatedIsCanonical DEF TypeOK
<1>3. op \in {"add_range", "subtract_range", "canonicalize"}
  BY DEF TypeOK
<1>4. CASE op = "add_range"
  BY <1>1, <1>2, <1>4 DEF Expected, AddRange, Goal
<1>5. CASE op = "subtract_range"
  <2>1. Goal \ Blocks(arg) = Covered(Range(input)) \ Blocks(arg)
    BY <1>5 DEF Goal
  <2>. QED
    BY <1>1, <1>2, <1>5, <2>1 DEF Expected, SubtractRange
<1>6. CASE op = "canonicalize"
  <2>1. Goal = Covered(Range(input))
    BY <1>6 DEF Goal
  <2>. QED
    BY <1>1, <1>2, <1>6, <2>1 DEF Expected
<1>. QED
  BY <1>1, <1>3, <1>4, <1>5, <1>6

(* add_range, subtract_range and canonicalize (ranges.rs:46-114), called   *)
(* on any vector of ranges whose numbers stay below u64::MAX and, for      *)
(* subtract_range, with a range that is not empty, leave exactly the       *)
(* sorted list of maximal ranges that module Ranges promises; on the way   *)
(* no index and no number leaves its type.                                 *)
THEOREM RangeLoopsAreCorrect ==
    ASSUME MaxEnd < MaxU64, EmptyDeletion = FALSE
    PROVE  Spec => [](TypeOK /\ LoopInvariant /\ ComputesCanonicalRanges)
<1>1. Init => TypeOK /\ LoopInvariant
  BY InitEstablishes
<1>2. TypeOK /\ LoopInvariant /\ [Next]_vars => (TypeOK /\ LoopInvariant)'
  BY LoopInvariantInductive
<1>3. TypeOK /\ LoopInvariant => ComputesCanonicalRanges
  BY LoopInvariantSuffices
<1>. QED
  BY <1>1, <1>2, <1>3, PTL DEF Spec

-----------------------------------------------------------------------------
(* The import.  The least and the greatest of some block numbers. *)
LEMMA LeastOf ==
    ASSUME NEW T \in SUBSET Nat, T # {}
    PROVE  Min(T) \in T /\ \A y \in T : Min(T) <= y
<1>1. PICK x \in T : \A y \in T : ~ (<<y, x>> \in OpToRel(<, Nat))
  BY NatLessThanWellFounded, WFMin
<1>2. \A y \in T : ~ (y < x)
  BY <1>1 DEF OpToRel
<1>3. \A y \in T : x <= y
  BY <1>2
<1>. QED
  BY <1>3 DEF Min

LEMMA GreatestOf ==
    ASSUME NEW m \in Nat, NEW T \in SUBSET (0 .. m), T # {}
    PROVE  Max(T) \in T /\ \A y \in T : y <= Max(T)
<1> DEFINE D == {d \in 0 .. m : (m - d) \in T}
<1>1. \A y \in T : (m - y) \in D
  OBVIOUS
<1>2. D \in SUBSET Nat /\ D # {}
  <2>1. PICK y \in T : TRUE
    OBVIOUS
  <2>2. (m - y) \in D
    BY <1>1
  <2>3. D \in SUBSET Nat
    OBVIOUS
  <2>. QED
    BY <2>2, <2>3
<1>3. PICK d \in D : \A e \in D : d <= e
  BY <1>2, LeastOf
<1>5. \A y \in T : m - d >= y
  BY <1>1, <1>3
<1>6. \E z \in T : \A y \in T : z >= y
  BY <1>3, <1>5
<1>. QED
  BY <1>6 DEF Max

(* The iterator goes down the file and leaves out no item. *)
LEMMA ItemBelowFacts ==
    ASSUME NEW f, NEW n \in 0 .. MaxBlock + 1
    PROVE  /\ ItemBelow(f, n) \in Items(f) \cup {-1}
           /\ ItemBelow(f, n) \in -1 .. MaxBlock /\ ItemBelow(f, n) < n
           /\ \A m \in Items(f) : m < n => m <= ItemBelow(f, n)
<1> USE ImportAssumption
<1> DEFINE below == {m \in Items(f) : m < n}
<1>1. below \in SUBSET (0 .. MaxBlock)
  BY DEF Items, Height
<1>2. CASE below = {}
  <2>1. ItemBelow(f, n) = -1
    BY <1>2 DEF ItemBelow
  <2>. QED
    BY <1>2, <2>1
<1>3. CASE below # {}
  <2>1. ItemBelow(f, n) = Max(below)
    BY <1>3 DEF ItemBelow
  <2>2. Max(below) \in below /\ \A m \in below : m <= Max(below)
    BY <1>1, <1>3, GreatestOf
  <2>. QED
    BY <1>1, <2>1, <2>2
<1>. QED
  BY <1>2, <1>3

(* Every block below the first one to import is stored. *)
LEMMA SmallestImportFacts ==
    ASSUME NEW S \in SUBSET Height
    PROVE  /\ SmallestImport(S) \in 0 .. MaxBlock + 1
           /\ \A n \in Height : n < SmallestImport(S) => n \in S
<1> USE ImportAssumption DEF Height
<1> DEFINE ends == {r[2] + 1 : r \in {q \in Canonical(S) : q[1] = 0}}
           X == {0} \cup ends
<1>1. \A r \in Canonical(S) : r[1] \in S /\ r[2] \in S /\ r[1] .. r[2] \subseteq S
  BY DEF Canonical, IsRun
<1>2. ASSUME NEW e \in ends
      PROVE  e \in 0 .. MaxBlock + 1 /\ 0 .. e - 1 \subseteq S
  <2>1. PICK r \in Canonical(S) : r[1] = 0 /\ e = r[2] + 1
    OBVIOUS
  <2>2. r[2] \in 0 .. MaxBlock /\ 0 .. r[2] \subseteq S
    BY <1>1, <2>1
  <2>3. e \in 0 .. MaxBlock + 1 /\ e - 1 = r[2]
    BY <2>1, <2>2
  <2>. QED
    BY <2>2, <2>3
<1>3. X \in SUBSET (0 .. MaxBlock + 1) /\ X # {} /\ MaxBlock + 1 \in Nat
  BY <1>2
<1>4. Max(X) \in X
  <2> HIDE DEF X
  <2>. QED
    BY <1>3, GreatestOf
<1>5. SmallestImport(S) = Max(X)
  BY DEF SmallestImport
<1>6. \A e \in X : \A n \in 0 .. MaxBlock : n < e => n \in S
  BY <1>2
<1> HIDE DEF X
<1>. QED
  BY <1>3, <1>4, <1>5, <1>6

(* What an import has taken: everything it skipped is stored, what it put  *)
(* is stored or in the batch, and nothing else is in the batch.            *)
Taken ==
    /\ \A n \in Imported : file[n] \in Fork /\ Written[n] = file[n]
    /\ InBatch \subseteq Imported
    /\ phase # "idle" => \A n \in Height : n < smallest => db[n] # Absent
    /\ phase # "loop" => InBatch = {}
    /\ phase = "idle" => outcome = "none" /\ file = NoBatch
    /\ phase = "loop" => /\ outcome = "none" /\ next \in Items(file) \cup {-1}
                         /\ \A n \in Items(file) : n > next => n >= smallest

(* With --verify: the hash the next block must have is the one the lowest  *)
(* block so far names, and there is no gap above that one.                 *)
Expects ==
    phase = "loop" =>
        IF prev = NoHash
        THEN verify => /\ next >= smallest
                       /\ \A n \in Items(file) : n <= next
        ELSE \E m \in Imported :
                /\ prev = ParentHash(m, file[m])
                /\ \A n \in Items(file) : n > next => n >= m
                /\ \A n \in Items(file) : m .. n \subseteq Imported

(* The inductive invariant of the import.  AllImported and VerifiedLinks   *)
(* speak of an import that returns; Taken and Expects say what the loop    *)
(* has established on the way there.                                       *)
ImportRest == Taken /\ Expects /\ AllImported /\ VerifiedLinks
ImportIInv == ImportTypeOK /\ ImportRest

-----------------------------------------------------------------------------
LEMMA ImportTypesStep ==
    ASSUME ImportTypeOK, Taken, [ImportNext]_importVars
    PROVE  ImportTypeOK'
<1> USE ImportAssumption
<1>a. MaxBlock \in Nat /\ -1 \in -1 .. MaxBlock /\ 0 \in 0 .. MaxBlock + 1
  OBVIOUS
<1>b. /\ NoBatch \in [Height -> Fork \cup {Absent}]
      /\ NoBatch \in [Height -> Fork \cup {Absent, Malformed}]
  BY DEF NoBatch
<1>c. Cardinality({}) = 0 /\ 0 <= BatchSize
  BY FS_EmptySet
<1>d. batch' = NoBatch => InBatch' = {}
  BY DEF InBatch, NoBatch
<1>e. Written \in [Height -> Fork \cup {Absent}]
  BY DEF Written, ImportTypeOK
<1>1. CASE Exit
  BY <1>1, <1>a, <1>b, <1>c, <1>d DEF Exit, ImportTypeOK
<1>2. ASSUME NEW f \in [Height -> Fork \cup {Absent, Malformed}],
             NEW v \in BOOLEAN, Start(f, v)
      PROVE  ImportTypeOK'
  <2>1. StoredBlocks \in SUBSET Height
    BY DEF StoredBlocks
  <2>2. SmallestImport(StoredBlocks) \in 0 .. MaxBlock + 1
    BY <2>1, SmallestImportFacts
  <2>3. ItemBelow(f, MaxBlock + 1) \in -1 .. MaxBlock
    BY <1>a, ItemBelowFacts
  <2>4. phase' \in {"loop", "return"} /\ outcome' \in {"none", "nothing"}
    BY <1>2 DEF Start
  <2>. QED
    BY <1>2, <1>b, <1>c, <1>d, <2>2, <2>3, <2>4 DEF Start, AddChain, ImportTypeOK
<1>3. ASSUME NEW how \in {"ok", "cancelled"}, WriteLast(how)
      PROVE  ImportTypeOK'
  BY <1>3, <1>b, <1>c, <1>d, <1>e DEF WriteLast, ImportTypeOK
<1>4. CASE PutBlock
  <2>1. /\ phase = "loop" /\ next # -1 /\ file[next] # Malformed /\ next >= smallest
        /\ prev' = IF verify THEN ParentHash(next, Block) ELSE NoHash
        /\ next' = ItemBelow(file, next)
        /\ UNCHANGED <<parent, config, file, verify, smallest, phase, outcome>>
    BY <1>4 DEF PutBlock, Accepted, AtItem
  <2>2. next \in Height /\ file[next] \in Fork
    BY <2>1 DEF Taken, Items, ImportTypeOK, Height
  <2>3. next' \in -1 .. MaxBlock
    BY <1>a, <2>1, <2>2, ItemBelowFacts DEF Height
  <2>4. prev' \in ((-1 .. MaxBlock) \X Fork) \cup {Zero, NoHash}
    <3>1. Block = file[next]
      BY <2>1, <2>2 DEF Block, ImportTypeOK, Height
    <3>2. parent[next][file[next]] \in Fork \cup {Zero} /\ next - 1 \in -1 .. MaxBlock
      BY <1>a, <2>2 DEF ImportTypeOK, Height
    <3>. QED
      BY <2>1, <3>1, <3>2 DEF ParentHash, HashOf
  <2>5. CASE Cardinality(InBatch) >= BatchSize
    <3>1. db' = Written /\ batch' = [NoBatch EXCEPT ![next] = file[next]]
      BY <1>4, <2>5 DEF PutBlock
    <3>2. InBatch' = {next}
      BY <2>2, <3>1 DEF InBatch, NoBatch
    <3>3. Cardinality({next}) = 1 /\ 1 <= BatchSize
      BY FS_Singleton
    <3>. QED
      BY <1>b, <1>e, <2>1, <2>2, <2>3, <2>4, <3>1, <3>2, <3>3 DEF ImportTypeOK
  <2>6. CASE ~(Cardinality(InBatch) >= BatchSize)
    <3>1. db' = db /\ batch' = [batch EXCEPT ![next] = file[next]]
      BY <1>4, <2>6 DEF PutBlock
    <3>2. InBatch' = InBatch \cup {next}
      BY <2>2, <3>1 DEF InBatch, ImportTypeOK
    <3>3. IsFiniteSet(InBatch)
      <4>1. IsFiniteSet(0 .. MaxBlock)
        BY <1>a, FS_Interval
      <4>. QED
        BY <4>1, FS_Subset DEF InBatch, Height
    <3>4. /\ Cardinality(InBatch) \in Nat
          /\ Cardinality(InBatch \cup {next})
                \in {Cardinality(InBatch), Cardinality(InBatch) + 1}
      BY <3>3, FS_CardinalityType, FS_AddElement
    <3>5. Cardinality(InBatch \cup {next}) <= BatchSize
      BY <2>6, <3>4
    <3>. QED
      BY <2>1, <2>2, <2>3, <2>4, <3>1, <3>2, <3>5 DEF ImportTypeOK
  <2>. QED
    BY <2>5, <2>6
<1>5. ASSUME NEW from \in Height, NEW to \in Height, Purge(from, to)
      PROVE  ImportTypeOK'
  <2>1. InBatch' = InBatch
    BY <1>5 DEF Purge, InBatch
  <2>. QED
    BY <1>5, <2>1 DEF Purge, ImportTypeOK
<1>6. CASE UNCHANGED importVars
  <2>1. InBatch' = InBatch
    BY <1>6 DEF importVars, InBatch
  <2>. QED
    BY <1>6, <2>1 DEF importVars, ImportTypeOK
<1>. QED
  BY <1>1, <1>2, <1>3, <1>4, <1>5, <1>6
     DEF ImportNext, Cancelled, ItemFails, Killed, StopAtStored, EndOfFile, Return

-----------------------------------------------------------------------------
(* The steps of an import. *)
LEMMA ExitKeeps ==
    ASSUME Exit
    PROVE  ImportRest'
<1>1. Items(file)' = {}
  BY DEF Exit, Items, NoBatch
<1>2. Imported' = {} /\ InBatch' = {}
  BY <1>1 DEF Exit, Imported, InBatch, NoBatch
<1>3. phase' = "idle" /\ outcome' = "none" /\ file' = NoBatch /\ verify' = FALSE
  BY DEF Exit
<1>4. NoBatch' = NoBatch
  BY DEF NoBatch, Height
<1>. QED
  BY <1>2, <1>3, <1>4
     DEF ImportRest, Taken, Expects, AllImported, VerifiedLinks

LEMMA StartKeeps ==
    ASSUME ImportTypeOK, NEW f \in [Height -> Fork \cup {Absent, Malformed}],
           NEW v \in BOOLEAN, Start(f, v)
    PROVE  ImportRest'
<1> USE ImportAssumption
<1> DEFINE top == ItemBelow(f, MaxBlock + 1)
           first == SmallestImport(StoredBlocks)
<1>1. /\ file' = f /\ db' = db /\ next' = top /\ smallest' = first
      /\ verify' = v /\ prev' = NoHash /\ batch' = NoBatch
      /\ IF top < first THEN phase' = "return" /\ outcome' = "nothing"
                        ELSE phase' = "loop" /\ outcome' = "none"
  BY DEF Start
<1>2. /\ top \in Items(f) \cup {-1} /\ top \in -1 .. MaxBlock
      /\ \A n \in Items(f) : n <= top
  <2>1. MaxBlock + 1 \in 0 .. MaxBlock + 1
    OBVIOUS
  <2>2. \A n \in Items(f) : n < MaxBlock + 1
    BY DEF Items, Height
  <2>. QED
    BY <2>1, <2>2, ItemBelowFacts
<1>3. first \in 0 .. MaxBlock + 1 /\ \A n \in Height : n < first => n \in StoredBlocks
  <2>1. StoredBlocks \in SUBSET Height
    BY DEF StoredBlocks
  <2>. QED
    BY <2>1, SmallestImportFacts
<1> HIDE DEF top, first
<1>4. /\ Items(file)' = Items(f) /\ StoredBlocks' = StoredBlocks
      /\ Items(f) \subseteq 0 .. MaxBlock
  BY <1>1 DEF Items, StoredBlocks, Height
<1>5. Imported' = {} /\ InBatch' = {}
  <2>1. \A n \in Items(f) : ~(n > top)
    BY <1>2, <1>4
  <2>. QED
    BY <1>1, <1>4, <2>1 DEF Imported, InBatch, NoBatch
<1>6. Taken'
  <2>1. \A n \in Height : n < smallest' => db'[n] # Absent
    BY <1>1, <1>3 DEF StoredBlocks
  <2>2. phase' \in {"loop", "return"} /\ (phase' = "loop" => outcome' = "none")
    BY <1>1
  <2>3. next' \in Items(file)' \cup {-1}
    BY <1>1, <1>2, <1>4
  <2>4. \A n \in Items(file)' : ~(n > next')
    BY <1>1, <1>2, <1>4
  <2>. QED
    BY <1>5, <2>1, <2>2, <2>3, <2>4 DEF Taken
<1>7. Expects'
  <2>1. phase' = "loop" => next' >= smallest'
    BY <1>1, <1>2, <1>3
  <2>2. \A n \in Items(file)' : n <= next'
    BY <1>1, <1>2, <1>4
  <2>. QED
    BY <1>1, <2>1, <2>2 DEF Expects
<1>8. AllImported'
  <2> SUFFICES ASSUME outcome' = "nothing"
               PROVE  /\ Items(f) \subseteq StoredBlocks
                      /\ Items(f) # {} =>
                            Min(Items(f)) .. Max(Items(f)) \subseteq StoredBlocks
    BY <1>1, <1>4 DEF AllImported
  <2>1. top < first
    BY <1>1
  <2>2. Items(f) \subseteq StoredBlocks
    BY <1>2, <1>3, <1>4, <2>1 DEF Height
  <2>3. ASSUME Items(f) # {}
        PROVE  Min(Items(f)) .. Max(Items(f)) \subseteq StoredBlocks
    <3>1. Min(Items(f)) \in 0 .. MaxBlock
      BY <1>4, <2>3, LeastOf
    <3>2. Max(Items(f)) \in Items(f)
      BY <1>4, <2>3, GreatestOf
    <3>3. Max(Items(f)) \in 0 .. MaxBlock /\ Max(Items(f)) < first
      BY <1>2, <1>3, <1>4, <2>1, <3>2
    <3>. QED
      BY <1>3, <3>1, <3>3 DEF Height
  <2>. QED
    BY <2>2, <2>3
<1>9. VerifiedLinks'
  BY <1>1, <1>5 DEF VerifiedLinks
<1>. QED
  BY <1>6, <1>7, <1>8, <1>9 DEF ImportRest

(* A block whose hash is the expected one is the parent of the lowest      *)
(* block taken so far.                                                     *)
LEMMA ExpectedIsParent ==
    ASSUME ImportTypeOK, Taken, Expects, phase = "loop", prev # NoHash,
           next \in Height, NEW b \in Fork, prev = HashOf(next, b)
    PROVE  \E m \in Imported : /\ m = next + 1 /\ parent[m][file[m]] = b
                               /\ \A n \in Items(file) : m .. n \subseteq Imported
<1> USE ImportAssumption
<1>1. PICK m \in Imported : /\ prev = ParentHash(m, file[m])
                            /\ \A n \in Items(file) : m .. n \subseteq Imported
  BY DEF Expects
<1>2. m \in 0 .. MaxBlock
  BY DEF Imported, Items, Height
<1>3. next \in Int /\ <<next, b>> \in Int \X Fork
  BY DEF Height
<1>4. prev # Zero
  BY <1>3 DEF HashOf
<1>5. HashOf(m - 1, parent[m][file[m]]) = HashOf(next, b)
  BY <1>1, <1>4 DEF ParentHash
<1>6. m - 1 = next /\ parent[m][file[m]] = b
  BY <1>5 DEF HashOf
<1>. QED
  BY <1>1, <1>2, <1>6 DEF Height

(* The item is taken: the lowest block taken so far is now this one. *)
LEMMA PutKeeps ==
    ASSUME ImportTypeOK, ImportRest, PutBlock
    PROVE  ImportRest'
<1> USE ImportAssumption
<1>1. /\ phase = "loop" /\ next # -1 /\ file[next] # Malformed /\ ~Mismatch
      /\ next >= smallest
      /\ prev' = IF verify THEN ParentHash(next, Block) ELSE NoHash
      /\ next' = ItemBelow(file, next)
      /\ UNCHANGED <<parent, config, file, verify, smallest, phase, outcome>>
  BY DEF PutBlock, Accepted, AtItem
<1>2. /\ next \in Items(file) /\ next \in Height /\ next \in 0 .. MaxBlock
      /\ file[next] \in Fork
  <2>1. next \in Items(file)
    BY <1>1 DEF ImportRest, Taken
  <2>. QED
    BY <1>1, <2>1 DEF Items, ImportTypeOK, Height
<1>3. smallest \in 0 .. MaxBlock + 1 /\ Block = file[next]
  BY <1>1, <1>2 DEF Block, ImportTypeOK
<1>4. /\ next' \in Items(file) \cup {-1} /\ next' \in -1 .. MaxBlock /\ next' < next
      /\ \A m \in Items(file) : m < next => m <= next'
  <2>1. next \in 0 .. MaxBlock + 1
    BY <1>2
  <2>. QED
    BY <1>1, <2>1, ItemBelowFacts
<1>5. Items(file)' = Items(file) /\ Items(file) \subseteq 0 .. MaxBlock
  BY <1>1 DEF Items, Height
<1>6. Imported' = Imported \cup {next}
  <2>1. \A n \in Items(file) : n > next' <=> n > next \/ n = next
    BY <1>2, <1>4, <1>5
  <2>. QED
    BY <1>1, <1>2, <1>5, <2>1 DEF Imported
<1>7. /\ \A n \in Height : n # next => Written'[n] = Written[n]
      /\ Written'[next] = file[next]
      /\ InBatch' \subseteq InBatch \cup {next}
      /\ \A n \in Height : db[n] # Absent => db'[n] # Absent
  <2>1. CASE Cardinality(InBatch) >= BatchSize
    <3>1. db' = Written /\ batch' = [NoBatch EXCEPT ![next] = file[next]]
      BY <2>1 DEF PutBlock
    <3>2. \A n \in Height : n # next => Written'[n] = Written[n]
      BY <1>2, <3>1 DEF Written, NoBatch, Height
    <3>3. Written'[next] = file[next]
      BY <1>2, <3>1 DEF Written, NoBatch, Height
    <3>4. InBatch' \subseteq {next}
      BY <1>2, <3>1 DEF InBatch, NoBatch, Height
    <3>5. \A n \in Height : db[n] # Absent => db'[n] # Absent
      BY <3>1 DEF Written
    <3>. QED
      BY <3>2, <3>3, <3>4, <3>5
  <2>2. CASE ~(Cardinality(InBatch) >= BatchSize)
    <3>1. db' = db /\ batch' = [batch EXCEPT ![next] = file[next]]
      BY <2>2 DEF PutBlock
    <3>2. \A n \in Height : n # next => Written'[n] = Written[n]
      BY <1>2, <3>1 DEF Written, ImportTypeOK, Height
    <3>3. Written'[next] = file[next]
      BY <1>2, <3>1 DEF Written, ImportTypeOK, Height
    <3>4. InBatch' \subseteq InBatch \cup {next}
      BY <1>2, <3>1 DEF InBatch, ImportTypeOK, Height
    <3>. QED
      BY <3>1, <3>2, <3>3, <3>4
  <2>. QED
    BY <2>1, <2>2
<1>8. Imported \subseteq Items(file) /\ \A n \in Imported : n > next
  BY DEF Imported
<1>9. ASSUME verify, prev # NoHash
      PROVE  \E m \in Imported : /\ m = next + 1 /\ parent[m][file[m]] = file[next]
                                 /\ \A n \in Items(file) : m .. n \subseteq Imported
  <2>1. prev = HashOf(next, file[next])
    BY <1>1, <1>3, <1>9 DEF Mismatch
  <2>2. Taken /\ Expects
    BY DEF ImportRest
  <2>. QED
    BY <1>1, <1>2, <1>9, <2>1, <2>2, ExpectedIsParent
<1>10. ASSUME verify, prev = NoHash
       PROVE  Imported = {} /\ \A n \in Items(file) : n <= next
  <2>1. \A n \in Items(file) : n <= next
    BY <1>1, <1>10 DEF ImportRest, Expects
  <2>. QED
    BY <1>2, <1>5, <1>8, <2>1
<1>11. Taken'
  <2>1. \A n \in Imported' : file'[n] \in Fork /\ Written'[n] = file'[n]
    <3> SUFFICES ASSUME NEW n \in Imported', n # next
                 PROVE  file'[n] \in Fork /\ Written'[n] = file'[n]
      BY <1>1, <1>2, <1>7
    <3>1. n \in Imported /\ n \in Height
      BY <1>5, <1>6, <1>8 DEF Height
    <3>. QED
      BY <1>1, <1>7, <3>1 DEF ImportRest, Taken
  <2>2. InBatch' \subseteq Imported'
    BY <1>6, <1>7 DEF ImportRest, Taken
  <2>3. \A n \in Height : n < smallest' => db'[n] # Absent
    BY <1>1, <1>7 DEF ImportRest, Taken
  <2>4. phase' = "loop" /\ outcome' = "none"
    BY <1>1 DEF ImportRest, Taken
  <2>5. next' \in Items(file)' \cup {-1}
    BY <1>4, <1>5
  <2>6. \A n \in Items(file)' : n > next' => n >= smallest'
    <3> SUFFICES ASSUME NEW n \in Items(file), n > next' PROVE n >= smallest
      BY <1>1, <1>5
    <3>1. n >= next
      BY <1>2, <1>4, <1>5
    <3>. QED
      BY <1>1, <1>2, <1>3, <1>5, <3>1
  <2>. QED
    BY <2>1, <2>2, <2>3, <2>4, <2>5, <2>6 DEF Taken
<1>12. Expects'
  <2>1. CASE ~verify
    BY <1>1, <2>1 DEF Expects
  <2>2. CASE verify
    <3>1. prev' = ParentHash(next, file[next])
      BY <1>1, <1>3, <2>2
    <3>2. prev' # NoHash
      <4>1. parent[next][file[next]] \in Fork \cup {Zero} /\ next - 1 \in Int
        BY <1>2 DEF ImportTypeOK
      <4>. QED
        BY <3>1, <4>1 DEF ParentHash, HashOf
    <3>3. next \in Imported'
      BY <1>6
    <3>4. \A n \in Items(file) : n > next' => n >= next
      BY <1>2, <1>4, <1>5
    <3>5. ASSUME NEW n \in Items(file)
          PROVE  next .. n \subseteq Imported \cup {next}
      <4>1. CASE n <= next
        BY <1>2, <1>5, <4>1
      <4>2. CASE n > next
        <5>1. prev # NoHash
          BY <1>2, <1>5, <1>10, <2>2, <4>2
        <5>2. (next + 1) .. n \subseteq Imported
          BY <1>9, <2>2, <5>1
        <5>3. next .. n \subseteq {next} \cup ((next + 1) .. n)
          BY <1>2, <1>5
        <5>. QED
          BY <5>2, <5>3
      <4>. QED
        BY <1>2, <1>5, <4>1, <4>2
    <3>6. \A m : ParentHash(m, file[m])' = ParentHash(m, file[m])
      BY <1>1 DEF ParentHash, HashOf
    <3>7. \E m \in Imported' :
             /\ prev' = ParentHash(m, file[m])'
             /\ \A n \in Items(file)' : n > next' => n >= m
             /\ \A n \in Items(file)' : m .. n \subseteq Imported'
      BY <1>5, <1>6, <3>1, <3>3, <3>4, <3>5, <3>6
    <3>. QED
      BY <3>2, <3>7 DEF Expects
  <2>. QED
    BY <2>1, <2>2 DEF ImportTypeOK
<1>13. AllImported'
  BY <1>11, <1>1 DEF Taken, AllImported
<1>14. VerifiedLinks'
  <2> SUFFICES ASSUME verify
               PROVE  /\ \A n \in Imported' : n - 1 \in Imported' =>
                            parent[n][Written'[n]] = Written'[n - 1]
                      /\ 0 \in Imported' => parent[0][Written'[0]] = Zero
    <3>1. outcome' = "none"
      BY <1>1, <1>11 DEF Taken
    <3>. QED
      BY <1>1, <3>1 DEF VerifiedLinks
  <2>0. /\ \A n \in Imported :
              n - 1 \in Imported => parent[n][Written[n]] = Written[n - 1]
        /\ 0 \in Imported => parent[0][Written[0]] = Zero
    BY <1>1 DEF ImportRest, VerifiedLinks
  <2>1. ASSUME NEW n \in Imported', n - 1 \in Imported'
        PROVE  parent[n][Written'[n]] = Written'[n - 1]
    <3>1. n \in 0 .. MaxBlock /\ n - 1 \in 0 .. MaxBlock
      BY <1>2, <1>5, <1>6, <1>8, <2>1
    <3>2. n # next
      BY <1>2, <1>6, <1>8, <2>1
    <3>3. n \in Imported /\ Written'[n] = Written[n] /\ Written[n] = file[n]
      BY <1>6, <1>7, <2>1, <3>1, <3>2 DEF ImportRest, Taken, Height
    <3>4. CASE n - 1 = next
      <4>1. prev # NoHash
        BY <1>10, <3>3
      <4>2. parent[next + 1][file[next + 1]] = file[next] /\ n = next + 1
        BY <1>2, <1>9, <3>1, <3>4, <4>1
      <4>. QED
        BY <1>7, <3>3, <3>4, <4>2
    <3>5. CASE n - 1 # next
      <4>1. n - 1 \in Imported /\ Written'[n - 1] = Written[n - 1]
        BY <1>6, <1>7, <2>1, <3>1, <3>5 DEF Height
      <4>. QED
        BY <2>0, <3>3, <4>1
    <3>. QED
      BY <3>4, <3>5
  <2>2. ASSUME 0 \in Imported'
        PROVE  parent[0][Written'[0]] = Zero
    <3>1. CASE next = 0
      <4>1. ParentHash(0, file[0]) = Zero
        BY <1>1, <1>3, <3>1 DEF Mismatch
      <4>2. parent[0][file[0]] \in Fork \cup {Zero}
        BY <1>2, <3>1 DEF ImportTypeOK
      <4>3. parent[0][file[0]] = Zero
        <5>1. CASE parent[0][file[0]] # Zero
          <6>1. <<0 - 1, parent[0][file[0]]>> \in Int \X Fork
            BY <4>2, <5>1
          <6>. QED
            BY <4>1, <5>1, <6>1 DEF ParentHash, HashOf
        <5>. QED
          BY <5>1
      <4>. QED
        BY <1>7, <3>1, <4>3
    <3>2. CASE next # 0
      <4>1. 0 \in Imported
        BY <1>6, <2>2, <3>2
      <4>2. 0 > next
        BY <1>8, <4>1
      <4>. QED
        BY <1>2, <4>2
    <3>. QED
      BY <3>1, <3>2
  <2>. QED
    BY <2>1, <2>2
<1>. QED
  BY <1>11, <1>12, <1>13, <1>14 DEF ImportRest

(* What the database holds once the last batch is written. *)
LEMMA WriteLastFacts ==
    ASSUME ImportTypeOK, Taken, phase = "loop", NEW how, WriteLast(how)
    PROVE  /\ Items(file)' = Items(file) /\ Imported' = Imported
           /\ Written' = Written /\ InBatch' = {}
           /\ \A n \in Imported : n \in StoredBlocks'
           /\ \A n \in Height : n < smallest => n \in StoredBlocks'
           /\ Taken'
<1> USE ImportAssumption
<1>1. /\ db' = Written /\ batch' = NoBatch /\ phase' = "return" /\ outcome' = how
      /\ UNCHANGED <<parent, config, file, verify, smallest, next>>
  BY DEF WriteLast
<1>2. Items(file)' = Items(file) /\ Imported' = Imported
  BY <1>1 DEF Items, Imported
<1>3. InBatch' = {}
  BY <1>1 DEF InBatch, NoBatch
<1>4. Written' = Written
  <2>1. \A n \in Height : batch'[n] = Absent
    BY <1>1 DEF NoBatch
  <2>2. Written' = [n \in Height |-> db'[n]]
    BY <2>1 DEF Written
  <2>. QED
    BY <1>1, <2>2 DEF Written
<1>5. \A n \in Imported : n \in Height /\ file[n] \in Fork /\ Written[n] = file[n]
  BY DEF Taken, Imported, Items
<1>6. \A n \in Height : n < smallest => Written[n] # Absent
  BY DEF Taken, Written
<1>7. \A n \in Imported : n \in StoredBlocks'
  BY <1>1, <1>5 DEF StoredBlocks
<1>8. \A n \in Height : n < smallest => n \in StoredBlocks'
  BY <1>1, <1>6 DEF StoredBlocks
<1>9. Taken'
  BY <1>1, <1>2, <1>3, <1>4, <1>5, <1>6 DEF Taken
<1>. QED
  BY <1>2, <1>3, <1>4, <1>7, <1>8, <1>9

(* Writing the last batch moves blocks, so it keeps the links; what is     *)
(* left to show is the link to the stored block below.                     *)
LEMMA WriteLastLinks ==
    ASSUME ImportTypeOK, ImportRest, phase = "loop", NEW how, WriteLast(how),
           how = "ok" /\ verify /\ smallest \in Imported /\ smallest - 1 \in Items(file)
             => parent[smallest][Written[smallest]] = Written[smallest - 1]
    PROVE  Expects' /\ VerifiedLinks'
<1>1. /\ db' = Written /\ phase' = "return" /\ outcome' = how
      /\ UNCHANGED <<parent, file, verify, smallest, next>>
  BY DEF WriteLast
<1>2. Items(file)' = Items(file) /\ Imported' = Imported /\ Written' = Written
  BY WriteLastFacts DEF ImportRest
<1>3. verify => /\ \A n \in Imported :
                      n - 1 \in Imported => parent[n][Written[n]] = Written[n - 1]
                /\ 0 \in Imported => parent[0][Written[0]] = Zero
  BY DEF ImportRest, VerifiedLinks
<1>. QED
  BY <1>1, <1>2, <1>3 DEF Expects, VerifiedLinks

LEMMA CancelKeeps ==
    ASSUME ImportTypeOK, ImportRest, Cancelled
    PROVE  ImportRest'
<1>1. phase = "loop" /\ WriteLast("cancelled")
  BY DEF Cancelled, AtItem
<1>2. Taken' /\ Expects' /\ VerifiedLinks'
  <2>1. Taken'
    BY <1>1, WriteLastFacts DEF ImportRest
  <2>2. Expects' /\ VerifiedLinks'
    BY <1>1, WriteLastLinks
  <2>. QED
    BY <2>1, <2>2
<1>3. AllImported'
  BY <1>1 DEF WriteLast, AllImported
<1>. QED
  BY <1>2, <1>3 DEF ImportRest

LEMMA EndOfFileKeeps ==
    ASSUME ImportTypeOK, ImportRest, EndOfFile
    PROVE  ImportRest'
<1> USE ImportAssumption
<1>1. phase = "loop" /\ next = -1 /\ WriteLast("ok")
  BY DEF EndOfFile
<1>2. Items(file) \subseteq 0 .. MaxBlock /\ smallest \in 0 .. MaxBlock + 1
  BY DEF Items, Height, ImportTypeOK
<1>3. \A n \in Items(file) : n >= smallest
  BY <1>1, <1>2 DEF ImportRest, Taken
<1>4. Imported = Items(file)
  BY <1>1, <1>2, <1>3 DEF Imported
<1>5. /\ Items(file)' = Items(file) /\ \A n \in Imported : n \in StoredBlocks'
      /\ Taken' /\ UNCHANGED verify
  BY <1>1, WriteLastFacts DEF ImportRest, WriteLast
<1>6. Expects' /\ VerifiedLinks'
  <2>1. smallest - 1 \notin Items(file)
    BY <1>2, <1>3
  <2>. QED
    BY <1>1, <2>1, WriteLastLinks
<1>7. ASSUME verify, Items(file) # {}
      PROVE  Min(Items(file)) .. Max(Items(file)) \subseteq Imported
  <2>1. prev # NoHash
    BY <1>1, <1>2, <1>7 DEF ImportRest, Expects
  <2>2. PICK m \in Imported : /\ \A n \in Items(file) : n > next => n >= m
                              /\ \A n \in Items(file) : m .. n \subseteq Imported
    BY <1>1, <2>1 DEF ImportRest, Expects
  <2>3. Min(Items(file)) \in Items(file)
    BY <1>2, <1>7, LeastOf
  <2>4. Max(Items(file)) \in Items(file)
    BY <1>2, <1>7, GreatestOf
  <2>5. Min(Items(file)) >= m /\ m \in 0 .. MaxBlock
    BY <1>1, <1>2, <1>4, <2>2, <2>3
  <2>6. m .. Max(Items(file)) \subseteq Imported
    BY <2>2, <2>4
  <2>7. Min(Items(file)) \in Int /\ Max(Items(file)) \in Int
    BY <1>2, <2>3, <2>4
  <2>8. Min(Items(file)) .. Max(Items(file)) \subseteq m .. Max(Items(file))
    BY <2>5, <2>7
  <2>. QED
    BY <2>6, <2>8
<1>8. AllImported'
  BY <1>4, <1>5, <1>7 DEF AllImported
<1>. QED
  BY <1>5, <1>6, <1>8 DEF ImportRest

LEMMA StopAtStoredKeeps ==
    ASSUME ImportTypeOK, ImportRest, StopAtStored
    PROVE  ImportRest'
<1> USE ImportAssumption
<1>1. /\ phase = "loop" /\ next # -1 /\ ~Mismatch /\ next < smallest
      /\ WriteLast("ok")
  BY DEF StopAtStored, Accepted, AtItem
<1>2. Items(file) \subseteq 0 .. MaxBlock /\ smallest \in 0 .. MaxBlock + 1
  BY DEF Items, Height, ImportTypeOK
<1>3. next \in Items(file) /\ next \in Height /\ next \in 0 .. MaxBlock
  BY <1>1, <1>2 DEF ImportRest, Taken, Height
<1>4. db[next] \in Fork
  BY <1>1, <1>3 DEF ImportRest, Taken, ImportTypeOK
<1>5. /\ Items(file)' = Items(file) /\ \A n \in Imported : n \in StoredBlocks'
      /\ \A n \in Height : n < smallest => n \in StoredBlocks'
      /\ Taken' /\ UNCHANGED verify
  BY <1>1, WriteLastFacts DEF ImportRest, WriteLast
<1>6. Items(file) \subseteq StoredBlocks'
  <2> SUFFICES ASSUME NEW n \in Items(file) PROVE n \in StoredBlocks'
    OBVIOUS
  <2>1. CASE n < smallest
    BY <1>2, <1>5, <2>1 DEF Height
  <2>2. CASE n >= smallest
    BY <1>1, <1>2, <1>3, <1>5, <2>2 DEF Imported
  <2>. QED
    BY <1>2, <2>1, <2>2
<1>7. ASSUME verify
      PROVE  /\ smallest = next + 1 /\ smallest \in Imported
             /\ parent[smallest][file[smallest]] = db[next]
             /\ \A n \in Items(file) : smallest .. n \subseteq Imported
  <2>1. prev # NoHash
    BY <1>1, <1>2, <1>3, <1>7 DEF ImportRest, Expects
  <2>2. prev = HashOf(next, db[next])
    BY <1>1, <1>7, <2>1 DEF Mismatch, Block
  <2>3. PICK m \in Imported : /\ m = next + 1 /\ parent[m][file[m]] = db[next]
                              /\ \A n \in Items(file) : m .. n \subseteq Imported
    BY <1>1, <1>3, <1>4, <2>1, <2>2, ExpectedIsParent DEF ImportRest
  <2>4. m >= smallest
    BY DEF Imported
  <2>5. m = smallest
    BY <1>1, <1>2, <1>3, <2>3, <2>4
  <2>. QED
    BY <2>3, <2>5
<1>8. AllImported'
  <2>1. ASSUME verify, NEW n \in Min(Items(file)) .. Max(Items(file))
        PROVE  n \in StoredBlocks'
    <3>1. Min(Items(file)) \in Items(file)
      BY <1>2, <1>3, LeastOf
    <3>2. Max(Items(file)) \in Items(file)
      BY <1>2, <1>3, GreatestOf
    <3>3. n \in 0 .. MaxBlock
      BY <1>2, <3>1, <3>2
    <3>4. CASE n < smallest
      BY <1>5, <3>3, <3>4 DEF Height
    <3>5. CASE n >= smallest
      <4>1. n \in smallest .. Max(Items(file))
        BY <1>2, <3>2, <3>3, <3>5
      <4>2. n \in Imported
        BY <1>7, <2>1, <3>2, <4>1
      <4>. QED
        BY <1>5, <4>2
    <3>. QED
      BY <1>2, <3>3, <3>4, <3>5
  <2>. QED
    BY <1>5, <1>6, <2>1 DEF AllImported
<1>9. Expects' /\ VerifiedLinks'
  <2>1. ASSUME verify
        PROVE  parent[smallest][Written[smallest]] = Written[smallest - 1]
    <3>1. Written[smallest] = file[smallest]
      BY <1>7, <2>1 DEF ImportRest, Taken
    <3>2. next \notin InBatch
      BY <1>3 DEF ImportRest, Taken, Imported
    <3>3. Written[next] = db[next]
      BY <1>3, <3>2 DEF Written, InBatch
    <3>4. smallest - 1 = next
      BY <1>3, <1>7, <2>1
    <3>. QED
      BY <1>7, <2>1, <3>1, <3>3, <3>4
  <2>. QED
    BY <1>1, <2>1, WriteLastLinks
<1>. QED
  BY <1>5, <1>8, <1>9 DEF ImportRest

LEMMA PurgeKeeps ==
    ASSUME ImportTypeOK, ImportRest, NEW from, NEW to, Purge(from, to)
    PROVE  ImportRest'
<1>1. /\ phase = "idle" /\ phase' = "idle"
      /\ UNCHANGED <<parent, file, verify, smallest, next, prev, batch, outcome>>
  BY DEF Purge
<1>2. outcome = "none" /\ file = NoBatch /\ InBatch = {}
  BY <1>1 DEF ImportRest, Taken
<1>3. Items(file)' = {} /\ InBatch' = {} /\ NoBatch' = NoBatch
  BY <1>1, <1>2 DEF Items, NoBatch, InBatch
<1>4. Imported' = {}
  BY <1>3 DEF Imported
<1>. QED
  BY <1>1, <1>2, <1>3, <1>4
     DEF ImportRest, Taken, Expects, AllImported, VerifiedLinks

LEMMA StutterKeeps ==
    ASSUME ImportRest, UNCHANGED importVars
    PROVE  ImportRest'
BY DEF ImportRest, importVars, Taken, Expects, AllImported, VerifiedLinks, Imported,
       InBatch, Written, Items, StoredBlocks, NoBatch, ParentHash, HashOf

LEMMA ImportRestStep ==
    ASSUME ImportTypeOK, ImportRest, [ImportNext]_importVars
    PROVE  ImportRest'
BY ExitKeeps, StartKeeps, PutKeeps, CancelKeeps, EndOfFileKeeps, StopAtStoredKeeps,
   PurgeKeeps, StutterKeeps
   DEF ImportNext, ItemFails, Killed, Return

LEMMA ImportBegins ==
    ASSUME ImportInit
    PROVE  ImportIInv
<1> USE ImportAssumption
<1>1. InBatch = {} /\ Items(file) = {}
  BY DEF ImportInit, InBatch, Items, NoBatch
<1>2. Cardinality(InBatch) <= BatchSize
  BY <1>1, FS_EmptySet
<1>3. /\ NoBatch \in [Height -> Fork \cup {Absent}]
      /\ NoBatch \in [Height -> Fork \cup {Absent, Malformed}]
  BY DEF NoBatch
<1>4. 0 \in 0 .. MaxBlock + 1 /\ -1 \in -1 .. MaxBlock
  OBVIOUS
<1>5. ImportTypeOK
  BY <1>2, <1>3, <1>4 DEF ImportInit, ImportTypeOK
<1>7. Taken /\ Expects /\ AllImported /\ VerifiedLinks
  BY <1>1 DEF ImportInit, Taken, Expects, AllImported, VerifiedLinks, Imported
<1>. QED
  BY <1>5, <1>7 DEF ImportIInv, ImportRest

LEMMA ImportInvariant == ImportSpec => []ImportIInv
<1>1. ImportInit => ImportIInv
  BY ImportBegins
<1>2. ImportIInv /\ [ImportNext]_importVars => ImportIInv'
  BY ImportTypesStep, ImportRestStep DEF ImportIInv, ImportRest
<1>. QED
  BY <1>1, <1>2, PTL DEF ImportSpec

(* An import that says it succeeded, or that there is nothing to import,   *)
(* leaves every block of its file stored, and with --verify every number   *)
(* between the file's first and last: for any file, any batch size and any *)
(* number of earlier imports that were cancelled or killed anywhere, with  *)
(* blocks purged in between (import.rs:181-199, 212-274).                  *)
THEOREM SuccessfulImportIsComplete == ImportSpec => []AllImported
<1>1. ImportIInv => AllImported
  BY DEF ImportIInv, ImportRest
<1>. QED
  BY <1>1, ImportInvariant, PTL

(* With --verify, the blocks an import has taken are linked by their       *)
(* parent hashes across batches, block zero has no parent, and where the   *)
(* file goes on below them, the lowest is linked to the block in the       *)
(* database (import.rs:220-251), for any file and any batch size.          *)
THEOREM VerifiedImportIsLinked == ImportSpec => []VerifiedLinks
<1>1. ImportIInv => VerifiedLinks
  BY DEF ImportIInv, ImportRest
<1>. QED
  BY <1>1, ImportInvariant, PTL

(* What the write of a batch stores. *)
LEMMA WrittenFromAbove ==
    ASSUME ImportTypeOK, Taken, phase = "loop", NEW n \in Height, Written[n] # db[n]
    PROVE  /\ n >= smallest
           /\ \A k \in Items(file) : k >= n => Written[k] = file[k]
           /\ n \in Items(file)
<1>1. n \in InBatch
  BY DEF Written, InBatch
<1>2. n \in Imported
  BY <1>1 DEF Taken
<1>3. n \in Items(file) /\ n > next /\ n >= smallest
  BY <1>2 DEF Imported
<1>4. ASSUME NEW k \in Items(file), k >= n
      PROVE  Written[k] = file[k]
  <2>1. k \in Int /\ n \in Int /\ next \in Int /\ smallest \in Int
    BY ImportAssumption DEF ImportTypeOK, Items, Height
  <2>2. k > next /\ k >= smallest
    BY <1>3, <1>4, <2>1
  <2>3. k \in Imported
    BY <2>2 DEF Imported
  <2>. QED
    BY <2>3 DEF Taken
<1>. QED
  BY <1>3, <1>4

LEMMA StepStoresFromAbove ==
    ImportIInv /\ [ImportNext]_importVars => [UpperPartStored]_importVars
<1>. SUFFICES ASSUME ImportIInv, ImportNext, phase = "loop",
                     NEW n \in Height, db'[n] # db[n]
              PROVE  /\ n >= smallest
                     /\ \A k \in Items(file) : k >= n => db'[k] = file[k]
                     /\ n \in Items(file)
  BY DEF UpperPartStored
<1>1. db' = Written
  <2>1. db' # db
    OBVIOUS
  <2>2. ~Exit
    BY <2>1 DEF Exit
  <2>3. ~ \E f \in [Height -> Fork \cup {Absent, Malformed}], v \in BOOLEAN : Start(f, v)
    BY DEF Start
  <2>4. ~ \E from, to \in Height : Purge(from, to)
    BY DEF Purge
  <2>5. CASE PutBlock
    BY <2>1, <2>5 DEF PutBlock
  <2>6. CASE Cancelled \/ StopAtStored \/ EndOfFile
    BY <2>6 DEF Cancelled, StopAtStored, EndOfFile, WriteLast
  <2>. QED
    BY <2>2, <2>3, <2>4, <2>5, <2>6 DEF ImportNext, ItemFails, Killed, Return
<1>2. ImportTypeOK /\ Taken
  BY DEF ImportIInv, ImportRest
<1>. QED
  BY <1>1, <1>2, WrittenFromAbove

(* Wherever an import is cancelled, fails or is killed, and whatever the   *)
(* batch size, what it has changed of the database is an upper part of the *)
(* blocks it was to import, each as the file has it (import.rs:253-274).   *)
THEOREM ImportStoresFromAbove == ImportSpec => StoresFromAbove
BY ImportInvariant, StepStoresFromAbove, PTL DEF ImportSpec, StoresFromAbove
=============================================================================
