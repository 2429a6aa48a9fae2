---------------------------- MODULE BlockDbProofs ----------------------------
(***************************************************************************)
(* Proof that the metadata of the block database always describes its      *)
(* blocks, for any chains, block numbers and payloads, and below that the  *)
(* two verify commands find exactly the faults of a database of any size.  *)
(***************************************************************************)
EXTENDS BlockDb, Verify, FiniteSetTheorems, WellFoundedInduction, TLAPS

-----------------------------------------------------------------------------
(* Runs of consecutive numbers. *)

LEMMA SmallestNumber ==
    ASSUME NEW T \in SUBSET Nat, T # {}
    PROVE  \E x \in T : \A y \in T : x <= y
<1>1. PICK x \in T : \A y \in T : ~ (<<y, x>> \in OpToRel(<, Nat))
  BY NatLessThanWellFounded, WFMin
<1>2. \A y \in T : ~ (y < x)
  BY <1>1 DEF OpToRel
<1>. QED
  BY <1>2

LEMMA LargestNumber ==
    ASSUME NEW m \in Nat, NEW T \in SUBSET (0 .. m), T # {}
    PROVE  \E x \in T : \A y \in T : y <= x
<1> DEFINE D == {d \in 0 .. m : (m - d) \in T}
<1>1. \A y \in T : (m - y) \in D
  OBVIOUS
<1>2. D \in SUBSET Nat /\ D # {}
  <2>1. PICK y \in T : TRUE
    OBVIOUS
  <2>2. (m - y) \in D
    BY <1>1
  <2>3. D \in SUBSET Nat
    OBVIOUS
  <2>. QED
    BY <2>2, <2>3
<1>3. PICK d \in D : \A e \in D : d <= e
  BY <1>2, SmallestNumber
<1>4. \A y \in T : y <= m - d
  BY <1>1, <1>3
<1>. QED
  BY <1>3, <1>4

(* The ranges that describe a set of block numbers cover exactly this set. *)
LEMMA CoveredCanonical ==
    ASSUME NEW m \in Nat, NEW U \in SUBSET (0 .. m)
    PROVE  Covered(Canonical(U)) = U
<1>1. Covered(Canonical(U)) \subseteq U
  BY DEF Covered, Canonical, IsRun, Blocks
<1>2. ASSUME NEW n \in U
      PROVE  n \in Covered(Canonical(U))
  <2> DEFINE S == {s \in 0 .. n : s .. n \subseteq U}
             E == {e \in 0 .. m : n <= e /\ n .. e \subseteq U}
  <2>1. n \in S /\ n \in E /\ S \in SUBSET Nat
    OBVIOUS
  <2>2. PICK s \in S : \A x \in S : s <= x
    BY <2>1, SmallestNumber
  <2>3. PICK e \in E : \A x \in E : x <= e
    BY <2>1, LargestNumber
  <2>4. s .. e \subseteq U /\ s <= n /\ n <= e /\ s \in U /\ e \in U
    <3>1. \A k \in s .. e : k \in s .. n \/ k \in n .. e
      BY <2>2, <2>3
    <3>. QED
      BY <2>2, <2>3, <3>1
  <2>5. (s - 1) \notin U
    <3> SUFFICES ASSUME (s - 1) \in U PROVE FALSE
      OBVIOUS
    <3>1. \A k \in (s - 1) .. n : k = s - 1 \/ k \in s .. n
      BY <2>2
    <3>2. (s - 1) \in S
      BY <2>2, <3>1
    <3>. QED
      BY <2>2, <3>2
  <2>6. (e + 1) \notin U
    <3> SUFFICES ASSUME (e + 1) \in U PROVE FALSE
      OBVIOUS
    <3>1. \A k \in n .. (e + 1) : k = e + 1 \/ k \in n .. e
      BY <2>3
    <3>2. (e + 1) \in E
      BY <2>3, <3>1
    <3>. QED
      BY <2>3, <3>2
  <2>7. <<s, e>> \in Canonical(U) /\ n \in Blocks(<<s, e>>)
    BY <2>2, <2>3, <2>4, <2>5, <2>6 DEF Canonical, IsRun, Blocks
  <2>. QED
    BY <2>7 DEF Covered
<1>. QED
  BY <1>1, <1>2

(* Adding and subtracting in terms of the numbers covered. *)
LEMMA AddToCanonical ==
    ASSUME NEW U \in SUBSET Number, NEW n \in Number
    PROVE  AddRange(Canonical(U), <<n, n>>) = Canonical(U \cup {n})
<1>1. Covered(Canonical(U)) = U
  BY CoveredCanonical, BlockDbAssumption DEF Number
<1>2. Blocks(<<n, n>>) = {n}
  BY BlockDbAssumption DEF Blocks, Number
<1>. QED
  BY <1>1, <1>2 DEF AddRange

LEMMA AddAllToCanonical ==
    ASSUME NEW U \in SUBSET Number, NEW V \in SUBSET Number
    PROVE  AddRanges(Canonical(U), Canonical(V)) = Canonical(U \cup V)
<1>1. Covered(Canonical(U)) = U /\ Covered(Canonical(V)) = V
  BY CoveredCanonical, BlockDbAssumption DEF Number
<1>. QED
  BY <1>1 DEF AddRanges

LEMMA SubtractFromCanonical ==
    ASSUME NEW U \in SUBSET Number, NEW s \in Number, NEW e \in Number
    PROVE  SubtractRange(Canonical(U), <<s, e>>) = Canonical(U \ (s .. e))
<1>1. Covered(Canonical(U)) = U
  BY CoveredCanonical, BlockDbAssumption DEF Number
<1>. QED
  BY <1>1 DEF SubtractRange, Blocks

LEMMA CanonicalType ==
    ASSUME NEW U \in SUBSET Number
    PROVE  /\ Canonical(U) \in SUBSET BlockRange
           /\ Canonical(U) = {} <=> U = {}
<1>1. Covered(Canonical(U)) = U
  BY CoveredCanonical, BlockDbAssumption DEF Number
<1>2. Canonical(U) \in SUBSET BlockRange
  BY DEF Canonical, BlockRange
<1>3. U = {} => Canonical(U) = {}
  BY DEF Canonical
<1>4. Canonical(U) = {} => U = {}
  BY <1>1 DEF Covered
<1>. QED
  BY <1>2, <1>3, <1>4

-----------------------------------------------------------------------------
(* Each operation keeps the contents well typed and consistent. *)

LEMMA PutBytesConsistent ==
    ASSUME NEW store \in KvType, Consistent(store),
           NEW c \in Chain, NEW n \in Number, NEW data \in Payload
    PROVE  PutBytes(store, c, n, data) \in KvType /\ Consistent(PutBytes(store, c, n, data))
<1> DEFINE new == PutBytes(store, c, n, data)
<1>1. /\ new.version = store.version /\ new.meta = store.meta
      /\ new.chainIds = store.chainIds \cup {c}
      /\ new.blocks = [store.blocks EXCEPT ![<<c, n>>] = data]
      /\ new.ranges = [store.ranges EXCEPT ![c] = AddRange(@, <<n, n>>)]
  BY DEF PutBytes, KvType
<1>2. \A d \in Chain : Stored(new, d) = IF d = c THEN Stored(store, c) \cup {n}
                                         ELSE Stored(store, d)
  BY <1>1, BlockDbAssumption DEF Stored, StoredIn, KvType
<1>3. \A d \in Chain : Stored(store, d) \in SUBSET Number
  BY DEF Stored, StoredIn
<1>4. \A d \in Chain : new.ranges[d] = Canonical(Stored(new, d))
  <2>1. new.ranges[c] = Canonical(Stored(new, c))
    BY <1>1, <1>2, <1>3, AddToCanonical DEF Consistent, RangesMatchBlocks, KvType
  <2>2. \A d \in Chain \ {c} : new.ranges[d] = Canonical(Stored(new, d))
    BY <1>1, <1>2 DEF Consistent, RangesMatchBlocks, KvType
  <2>. QED
    BY <2>1, <2>2
<1>5. \A d \in Chain : new.ranges[d] \in SUBSET BlockRange
  BY <1>2, <1>3, <1>4, CanonicalType
<1>6. new \in KvType
  <2>1. new.ranges \in [Chain -> SUBSET BlockRange]
    BY <1>1, <1>5 DEF KvType
  <2>2. new.blocks \in [Chain \X Number -> Payload \cup {NoBlock}]
    BY <1>1 DEF KvType
  <2>3. new = [store EXCEPT !.blocks = new.blocks, !.ranges = new.ranges,
                         !.chainIds = new.chainIds]
    BY <1>1 DEF PutBytes, KvType
  <2>4. new.chainIds \in SUBSET Chain
    BY <1>1 DEF KvType
  <2> HIDE DEF new
  <2>. QED
    BY <2>1, <2>2, <2>3, <2>4 DEF KvType
<1>7. ChainsListed(new)
  BY <1>1, <1>2 DEF ChainsListed, Consistent
<1>. QED
  BY <1>4, <1>6, <1>7 DEF Consistent, RangesMatchBlocks

LEMMA DeleteRangeConsistent ==
    ASSUME NEW store \in KvType, Consistent(store), NEW c \in Chain,
           NEW start \in Number, NEW end \in Number, start <= end
    PROVE  /\ DeleteRange(store, c, start, end) \in KvType
           /\ Consistent(DeleteRange(store, c, start, end))
<1> DEFINE new == DeleteRange(store, c, start, end)
<1>1. /\ new.version = store.version /\ new.meta = store.meta
      /\ new.chainIds = store.chainIds
      /\ new.blocks = DeleteRangeRaw(store.blocks, c, start, end)
      /\ new.ranges = [store.ranges EXCEPT ![c] = SubtractRange(@, <<start, end>>)]
  BY DEF DeleteRange, KvType
<1>2. new.blocks \in [Chain \X Number -> Payload \cup {NoBlock}]
  BY <1>1 DEF DeleteRangeRaw, KvType
<1>3. \A d \in Chain, k \in Number : new.blocks[<<d, k>>] =
         IF d = c /\ k \in start .. end THEN NoBlock ELSE store.blocks[<<d, k>>]
  <2> SUFFICES ASSUME NEW d \in Chain, NEW k \in Number
               PROVE  new.blocks[<<d, k>>] =
                        IF d = c /\ k \in start .. end THEN NoBlock
                        ELSE store.blocks[<<d, k>>]
    OBVIOUS
  <2>1. new.blocks[<<d, k>>] =
           IF d = c /\ (k = end \/ (start <= k /\ k < end))
           THEN NoBlock ELSE store.blocks[<<d, k>>]
    BY <1>1 DEF DeleteRangeRaw, KvType
  <2>2. (k = end \/ (start <= k /\ k < end)) <=> k \in start .. end
    BY BlockDbAssumption DEF Number
  <2>. QED
    BY <2>1, <2>2
<1>4. \A d \in Chain : Stored(new, d) =
         IF d = c THEN Stored(store, c) \ (start .. end) ELSE Stored(store, d)
  BY <1>3 DEF Stored, StoredIn
<1>5. \A d \in Chain : Stored(store, d) \in SUBSET Number
  BY DEF Stored, StoredIn
<1>6. \A d \in Chain : new.ranges[d] = Canonical(Stored(new, d))
  <2>1. new.ranges[c] = Canonical(Stored(new, c))
    BY <1>1, <1>4, <1>5, SubtractFromCanonical
    DEF Consistent, RangesMatchBlocks, KvType
  <2>2. \A d \in Chain \ {c} : new.ranges[d] = Canonical(Stored(new, d))
    BY <1>1, <1>4 DEF Consistent, RangesMatchBlocks, KvType
  <2>. QED
    BY <2>1, <2>2
<1>7. new \in KvType
  <2>1. \A d \in Chain : new.ranges[d] \in SUBSET BlockRange
    <3>1. \A d \in Chain : Stored(new, d) \in SUBSET Number
      BY DEF Stored, StoredIn
    <3>. QED
      BY <1>6, <3>1, CanonicalType
  <2>2. new.ranges \in [Chain -> SUBSET BlockRange]
    BY <1>1, <2>1 DEF KvType
  <2>3. new = [store EXCEPT !.blocks = new.blocks, !.ranges = new.ranges]
    BY <1>1 DEF DeleteRange, KvType
  <2> HIDE DEF new
  <2>. QED
    BY <1>2, <2>2, <2>3 DEF KvType
<1>8. ChainsListed(new)
  BY <1>1, <1>4 DEF ChainsListed, Consistent
<1>. QED
  BY <1>6, <1>7, <1>8 DEF Consistent, RangesMatchBlocks

LEMMA PutMetaConsistent ==
    ASSUME NEW store \in KvType, Consistent(store), NEW c \in Chain, NEW kind \in MetaKind
    PROVE  PutMeta(store, c, kind) \in KvType /\ Consistent(PutMeta(store, c, kind))
<1> DEFINE new == PutMeta(store, c, kind)
<1>1. /\ new.version = store.version /\ new.blocks = store.blocks /\ new.ranges = store.ranges
      /\ new.chainIds = store.chainIds \cup {c}
      /\ new.meta = [store.meta EXCEPT ![c] = @ \cup {kind}]
  BY DEF PutMeta, KvType
<1>2. new \in KvType
  BY DEF PutMeta, KvType
<1>3. \A d \in Chain : Stored(new, d) = Stored(store, d)
  BY <1>1 DEF Stored
<1>. QED
  BY <1>1, <1>2, <1>3 DEF Consistent, RangesMatchBlocks, ChainsListed, KvType

(* The replay only rewrites blocks that are there. *)
LEMMA GoUpdateConsistent ==
    ASSUME NEW store \in KvType, Consistent(store), NEW c \in Chain,
           NEW n \in Stored(store, c), NEW data \in Payload
    PROVE  GoUpdate(store, c, n, data) \in KvType /\ Consistent(GoUpdate(store, c, n, data))
<1> DEFINE new == GoUpdate(store, c, n, data)
<1>0. n \in Number
  BY DEF Stored, StoredIn
<1>1. /\ new.version = store.version /\ new.meta = store.meta /\ new.ranges = store.ranges
      /\ new.chainIds = store.chainIds
      /\ new.blocks = [store.blocks EXCEPT ![<<c, n>>] = data]
  BY DEF GoUpdate, KvType
<1>2. new \in KvType
  BY <1>0 DEF GoUpdate, KvType
<1>3. \A d \in Chain : Stored(new, d) = Stored(store, d)
  BY <1>0, <1>1, BlockDbAssumption DEF Stored, StoredIn, KvType
<1>. QED
  BY <1>1, <1>2, <1>3 DEF Consistent, RangesMatchBlocks, ChainsListed

(* The chain of the rules has blocks, hence it is listed already. *)
LEMMA GoPutRulesConsistent ==
    ASSUME NEW store \in KvType, Consistent(store), NEW c \in Chain,
           Stored(store, c) # {}, NEW kind \in MetaKind
    PROVE  GoPutRules(store, c, kind) \in KvType /\ Consistent(GoPutRules(store, c, kind))
<1> DEFINE new == GoPutRules(store, c, kind)
<1>1. /\ new.version = store.version /\ new.blocks = store.blocks /\ new.ranges = store.ranges
      /\ new.chainIds = store.chainIds
      /\ new.meta = [store.meta EXCEPT ![c] = @ \cup {kind}]
  BY DEF GoPutRules, KvType
<1>2. new \in KvType
  BY DEF GoPutRules, KvType
<1>3. \A d \in Chain : Stored(new, d) = Stored(store, d)
  BY <1>1 DEF Stored
<1>. QED
  BY <1>1, <1>2, <1>3 DEF Consistent, RangesMatchBlocks, ChainsListed, KvType

-----------------------------------------------------------------------------
(* Batches. *)

BatchOK(b) == \A c \in Chain : b.ranges[c] = Canonical(StoredIn(b.puts, c))

LEMMA EmptyBatchOK == EmptyBatch \in BatchType /\ BatchOK(EmptyBatch)
<1>1. EmptyBatch \in BatchType
  BY DEF EmptyBatch, BatchType
<1>2. \A c \in Chain : StoredIn(EmptyBatch.puts, c) = {}
  BY DEF EmptyBatch, StoredIn
<1>3. \A c \in Chain : EmptyBatch.ranges[c] = {}
  BY DEF EmptyBatch
<1>4. Canonical({}) = {}
  BY DEF Canonical
<1>. QED
  BY <1>1, <1>2, <1>3, <1>4 DEF BatchOK

LEMMA BatchPutOK ==
    ASSUME NEW b \in BatchType, BatchOK(b),
           NEW c \in Chain, NEW n \in Number, NEW data \in Payload
    PROVE  BatchPut(b, c, n, data) \in BatchType /\ BatchOK(BatchPut(b, c, n, data))
<1> DEFINE new == BatchPut(b, c, n, data)
<1>1. /\ new.puts = [b.puts EXCEPT ![<<c, n>>] = data]
      /\ new.ranges = [b.ranges EXCEPT ![c] = AddRange(@, <<n, n>>)]
      /\ new = [b EXCEPT !.puts = new.puts, !.ranges = new.ranges]
  BY DEF BatchPut, BatchType
<1>2. \A d \in Chain : StoredIn(new.puts, d) =
         IF d = c THEN StoredIn(b.puts, c) \cup {n} ELSE StoredIn(b.puts, d)
  BY <1>1, BlockDbAssumption DEF StoredIn, BatchType
<1>3. \A d \in Chain : StoredIn(b.puts, d) \in SUBSET Number
  BY DEF StoredIn
<1>4. \A d \in Chain : new.ranges[d] = Canonical(StoredIn(new.puts, d))
  <2>1. new.ranges[c] = Canonical(StoredIn(new.puts, c))
    <3>1. new.ranges[c] = AddRange(b.ranges[c], <<n, n>>)
      BY <1>1 DEF BatchType
    <3>2. b.ranges[c] = Canonical(StoredIn(b.puts, c))
      BY DEF BatchOK
    <3>3. StoredIn(new.puts, c) = StoredIn(b.puts, c) \cup {n}
      BY <1>2
    <3>4. StoredIn(b.puts, c) \in SUBSET Number
      BY <1>3
    <3>5. AddRange(Canonical(StoredIn(b.puts, c)), <<n, n>>)
            = Canonical(StoredIn(b.puts, c) \cup {n})
      BY <3>4, AddToCanonical
    <3> HIDE DEF new
    <3>. QED
      BY <3>1, <3>2, <3>3, <3>5
  <2>2. \A d \in Chain \ {c} : new.ranges[d] = Canonical(StoredIn(new.puts, d))
    BY <1>1, <1>2 DEF BatchOK, BatchType
  <2>. QED
    BY <2>1, <2>2
<1>5. new.puts \in [Chain \X Number -> Payload \cup {NoBlock}]
  BY <1>1 DEF BatchType
<1>6. new.ranges \in [Chain -> SUBSET BlockRange]
  <2>1. \A d \in Chain : new.ranges[d] \in SUBSET BlockRange
    <3>1. \A d \in Chain : StoredIn(new.puts, d) \in SUBSET Number
      BY DEF StoredIn
    <3>. QED
      BY <1>4, <3>1, CanonicalType
  <2>. QED
    BY <1>1, <2>1 DEF BatchType
<1> HIDE DEF new
<1>7. new \in BatchType
  BY <1>1, <1>5, <1>6 DEF BatchType
<1>. QED
  BY <1>4, <1>7 DEF BatchOK, new

(* However the contents changed since the batch was begun. *)
LEMMA WriteBatchConsistent ==
    ASSUME NEW store \in KvType, Consistent(store), NEW b \in BatchType, BatchOK(b)
    PROVE  WriteBatch(store, b) \in KvType /\ Consistent(WriteBatch(store, b))
<1>1. CASE BatchChains(b) = {}
  BY <1>1 DEF WriteBatch
<1>2. CASE BatchChains(b) # {}
  <2> DEFINE new == WriteBatch(store, b)
  <2>1. /\ new.version = store.version /\ new.meta = store.meta
        /\ new.chainIds = store.chainIds \cup BatchChains(b)
        /\ new.blocks = [k \in Chain \X Number |->
                            IF b.puts[k] # NoBlock THEN b.puts[k] ELSE store.blocks[k]]
        /\ new.ranges = [c \in Chain |->
                            IF c \in BatchChains(b)
                            THEN AddRanges(store.ranges[c], b.ranges[c])
                            ELSE store.ranges[c]]
        /\ new = [store EXCEPT !.blocks = new.blocks, !.ranges = new.ranges,
                            !.chainIds = new.chainIds]
    BY <1>2 DEF WriteBatch, KvType
  <2> HIDE DEF new
  <2>a. new.blocks = [k \in Chain \X Number |->
                         IF b.puts[k] # NoBlock THEN b.puts[k] ELSE store.blocks[k]]
    BY <2>1
  <2>b. new.ranges = [c \in Chain |->
                         IF c \in BatchChains(b)
                         THEN AddRanges(store.ranges[c], b.ranges[c])
                         ELSE store.ranges[c]]
    BY <2>1
  <2>2. \A c \in Chain : Stored(new, c) = Stored(store, c) \cup StoredIn(b.puts, c)
    BY <2>1 DEF Stored, StoredIn
  <2>3. \A c \in Chain : /\ Stored(store, c) \in SUBSET Number
                         /\ StoredIn(b.puts, c) \in SUBSET Number
                         /\ Stored(new, c) \in SUBSET Number
    BY DEF Stored, StoredIn
  <2>4. \A c \in Chain : c \in BatchChains(b) <=> StoredIn(b.puts, c) # {}
    BY <2>3, CanonicalType DEF BatchChains, BatchOK
  <2>5. \A c \in Chain : new.ranges[c] = Canonical(Stored(new, c))
    <3> SUFFICES ASSUME NEW c \in Chain
                 PROVE  new.ranges[c] = Canonical(Stored(new, c))
      OBVIOUS
    <3>1. /\ store.ranges[c] = Canonical(Stored(store, c))
          /\ b.ranges[c] = Canonical(StoredIn(b.puts, c))
      BY DEF Consistent, RangesMatchBlocks, BatchOK
    <3>2. CASE c \in BatchChains(b)
      <4>1. new.ranges[c] = AddRanges(store.ranges[c], b.ranges[c])
        BY <2>b, <3>2
      <4>2. AddRanges(Canonical(Stored(store, c)), Canonical(StoredIn(b.puts, c)))
              = Canonical(Stored(store, c) \cup StoredIn(b.puts, c))
        BY <2>3, AddAllToCanonical
      <4>. QED
        BY <2>2, <3>1, <4>1, <4>2
    <3>3. CASE c \notin BatchChains(b)
      <4>1. new.ranges[c] = store.ranges[c]
        BY <2>b, <3>3
      <4>2. Stored(new, c) = Stored(store, c)
        BY <2>2, <2>4, <3>3
      <4>. QED
        BY <3>1, <4>1, <4>2
    <3>. QED
      BY <3>2, <3>3
  <2>6. new.ranges \in [Chain -> SUBSET BlockRange]
    <3>1. \A c \in Chain : new.ranges[c] \in SUBSET BlockRange
      BY <2>3, <2>5, CanonicalType
    <3>2. new.ranges = [c \in Chain |-> new.ranges[c]]
      BY <2>b
    <3>. QED
      BY <3>1, <3>2
  <2>7. new.blocks \in [Chain \X Number -> Payload \cup {NoBlock}]
    <3>1. /\ b.puts \in [Chain \X Number -> Payload \cup {NoBlock}]
          /\ store.blocks \in [Chain \X Number -> Payload \cup {NoBlock}]
      BY DEF KvType, BatchType
    <3>. QED
      BY <2>a, <3>1
  <2>8. new.chainIds \in SUBSET Chain
    BY <2>1 DEF KvType, BatchChains
  <2>9. new \in KvType
    BY <2>1, <2>6, <2>7, <2>8 DEF KvType
  <2>10. ChainsListed(new)
    BY <2>1, <2>2, <2>4 DEF ChainsListed, Consistent
  <2>. QED
    BY <2>5, <2>9, <2>10 DEF Consistent, RangesMatchBlocks, new
<1>. QED
  BY <1>1, <1>2

-----------------------------------------------------------------------------
(* The inductive invariant: readers and crashes only ever pick up contents *)
(* that are consistent, and a batch that is committed describes itself.    *)
IInv == TypeOK /\ MetadataMatchesBlocks /\ BatchDescribesItself

LEMMA EmptyKvConsistent == EmptyKv \in KvType /\ Consistent(EmptyKv)
<1>1. EmptyKv \in KvType
  BY DEF EmptyKv, KvType
<1>2. \A c \in Chain : Stored(EmptyKv, c) = {}
  BY DEF EmptyKv, Stored, StoredIn
<1>3. \A c \in Chain : EmptyKv.ranges[c] = {} /\ EmptyKv.meta[c] = {}
  BY DEF EmptyKv
<1>4. Canonical({}) = {}
  BY DEF Canonical
<1>. QED
  BY <1>1, <1>2, <1>3, <1>4 DEF Consistent, RangesMatchBlocks, ChainsListed

LEMMA CreateDbConsistent ==
    ASSUME NEW store \in KvType, Consistent(store)
    PROVE  CreateDb(store) \in KvType /\ Consistent(CreateDb(store))
<1> DEFINE new == CreateDb(store)
<1>1. /\ new.blocks = store.blocks /\ new.ranges = store.ranges
      /\ new.meta = store.meta /\ new.chainIds = store.chainIds
  BY DEF CreateDb, KvType
<1>2. new \in KvType
  BY DEF CreateDb, KvType
<1>3. \A c \in Chain : Stored(new, c) = Stored(store, c)
  BY <1>1 DEF Stored
<1>. QED
  BY <1>1, <1>2, <1>3 DEF Consistent, RangesMatchBlocks, ChainsListed

(* A step that only replaces the contents of the primary. *)
LEMMA WriteKeepsIInv ==
    ASSUME IInv, kv' \in KvType, Consistent(kv'), UNCHANGED <<exists, disk, batch, view>>,
           owner' = owner \/ (owner = "init" /\ owner' = "none")
    PROVE  IInv'
<1>1. TypeOK'
  BY DEF IInv, TypeOK
<1>2. MetadataMatchesBlocks'
  BY DEF IInv, MetadataMatchesBlocks
<1>3. BatchDescribesItself'
  BY DEF IInv, BatchDescribesItself
<1>. QED
  BY <1>1, <1>2, <1>3 DEF IInv

LEMMA StepKeepsIInv == IInv /\ [Next]_vars => IInv'
<1> SUFFICES ASSUME IInv, [Next]_vars PROVE IInv'
  OBVIOUS
<1>0. /\ kv \in KvType /\ Consistent(kv)
      /\ disk \in KvType /\ Consistent(disk)
  BY DEF IInv, TypeOK, MetadataMatchesBlocks
<1>00. ASSUME batch # NoBatch
       PROVE  batch \in BatchType /\ BatchOK(batch) /\ owner = "blockservice"
  BY <1>00 DEF IInv, TypeOK, BatchDescribesItself, BatchOK
<1>a. CASE CreateFiles
  <2>1. batch = NoBatch
    BY <1>00, <1>a DEF CreateFiles
  <2>. QED
    BY <1>a, <2>1
    DEF CreateFiles, IInv, TypeOK, MetadataMatchesBlocks, BatchDescribesItself
<1>1. CASE Create
  <2>1. kv' \in KvType /\ Consistent(kv')
    BY <1>0, <1>1, CreateDbConsistent DEF Create
  <2>. QED
    BY <1>1, <2>1, WriteKeepsIInv DEF Create
<1>2. ASSUME NEW process \in {"blockservice", "replay"}, Open(process)
      PROVE  IInv'
  <2>1. batch = NoBatch
    BY <1>00, <1>2 DEF Open
  <2>. QED
    BY <1>2, <2>1
    DEF Open, IInv, TypeOK, MetadataMatchesBlocks, BatchDescribesItself
<1>3. CASE ReleasePrimary
  BY <1>3 DEF ReleasePrimary, IInv, TypeOK, MetadataMatchesBlocks, BatchDescribesItself
<1>4. ASSUME NEW c \in Chain, NEW n \in Number, NEW data \in Payload,
             Put(c, n, data)
      PROVE  IInv'
  <2>1. kv' \in KvType /\ Consistent(kv')
    BY <1>0, <1>4, PutBytesConsistent DEF Put
  <2>. QED
    BY <1>4, <2>1, WriteKeepsIInv DEF Put
<1>5. ASSUME NEW c \in Chain, NEW n \in Number, NEW data \in Payload,
             PutInBatch(c, n, data)
      PROVE  IInv'
  <2>1. batch' \in BatchType /\ BatchOK(batch') /\ owner = "blockservice"
    BY <1>00, <1>5, BatchPutOK DEF PutInBatch
  <2>. QED
    BY <1>5, <2>1
    DEF PutInBatch, IInv, TypeOK, MetadataMatchesBlocks, BatchDescribesItself, BatchOK
<1>6. ASSUME NEW c \in Chain, NEW n \in Number, NEW data \in Payload,
             Update(c, n, data)
      PROVE  IInv'
  <2>1. kv' \in KvType /\ Consistent(kv')
    BY <1>0, <1>6, GoUpdateConsistent DEF Update
  <2>. QED
    BY <1>6, <2>1, WriteKeepsIInv DEF Update
<1>7. ASSUME NEW c \in Chain, NEW start \in Number, NEW end \in Number,
             Delete(c, start, end)
      PROVE  IInv'
  <2>1. kv' \in KvType /\ Consistent(kv')
    BY <1>0, <1>7, DeleteRangeConsistent DEF Delete
  <2>. QED
    BY <1>7, <2>1, WriteKeepsIInv DEF Delete
<1>8. ASSUME NEW c \in Chain, NEW kind \in MetaKind, PutMetadata(c, kind)
      PROVE  IInv'
  <2>1. kv' \in KvType /\ Consistent(kv')
    BY <1>0, <1>8, PutMetaConsistent DEF PutMetadata
  <2>. QED
    BY <1>8, <2>1, WriteKeepsIInv DEF PutMetadata
<1>9. ASSUME NEW c \in Chain, PutRulesUpdateHeights(c)
      PROVE  IInv'
  <2>1. kv' \in KvType /\ Consistent(kv')
    BY <1>0, <1>9, GoPutRulesConsistent, RulesKindAssumption DEF PutRulesUpdateHeights
  <2>. QED
    BY <1>9, <2>1, WriteKeepsIInv DEF PutRulesUpdateHeights
<1>10. CASE BeginBatch
  BY <1>10, EmptyBatchOK
  DEF BeginBatch, IInv, TypeOK, MetadataMatchesBlocks, BatchDescribesItself, BatchOK
<1>11. CASE CommitBatch
  <2>1. kv' \in KvType /\ Consistent(kv')
    BY <1>0, <1>00, <1>11, WriteBatchConsistent DEF CommitBatch
  <2>. QED
    BY <1>11, <2>1
    DEF CommitBatch, IInv, TypeOK, MetadataMatchesBlocks, BatchDescribesItself
<1>12. CASE DropBatch
  BY <1>12 DEF DropBatch, IInv, TypeOK, MetadataMatchesBlocks, BatchDescribesItself
<1>13. CASE OpenForReading \/ TryCatchUpWithPrimary \/ CloseReader
  BY <1>0, <1>13
  DEF OpenForReading, TryCatchUpWithPrimary, CloseReader,
      IInv, TypeOK, MetadataMatchesBlocks, BatchDescribesItself
<1>14. CASE Flush \/ MachineCrash
  BY <1>0, <1>14
  DEF Flush, MachineCrash, IInv, TypeOK, MetadataMatchesBlocks, BatchDescribesItself
<1>15. CASE UNCHANGED vars
  BY <1>15 DEF vars, IInv, TypeOK, MetadataMatchesBlocks, BatchDescribesItself
<1>. QED
  BY <1>a, <1>1, <1>2, <1>3, <1>4, <1>5, <1>6, <1>7, <1>8, <1>9, <1>10, <1>11, <1>12,
     <1>13, <1>14, <1>15 DEF Next

(* For every set of chains, every largest block number and all payloads,   *)
(* whatever the interleaving of writes, batches, purges, replays, readers  *)
(* and crashes: the stored ranges of a chain are those of its blocks and   *)
(* every chain with data is listed, in the primary, on disk and in readers *)
(* (blockdb.rs put_bytes, delete_range, write_batch; block_db.go Update).  *)
THEOREM MetadataAlwaysMatchesBlocks == Spec => []MetadataMatchesBlocks
<1>1. Init => IInv
  BY EmptyKvConsistent
  DEF Init, IInv, TypeOK, MetadataMatchesBlocks, BatchDescribesItself
<1>2. IInv /\ [Next]_vars => IInv'
  BY StepKeepsIInv
<1>3. IInv => MetadataMatchesBlocks
  BY DEF IInv
<1>. QED
  BY <1>1, <1>2, <1>3, PTL DEF Spec

(* The type invariant, and what a batch carries with it (blockdb.rs        *)
(* KvDbBatchWrapper), from the same inductive invariant.                   *)
THEOREM TypesAndBatches == Spec => [](TypeOK /\ BatchDescribesItself)
<1>1. Init => IInv
  BY EmptyKvConsistent
  DEF Init, IInv, TypeOK, MetadataMatchesBlocks, BatchDescribesItself
<1>2. IInv /\ [Next]_vars => IInv'
  BY StepKeepsIInv
<1>3. IInv => TypeOK /\ BatchDescribesItself
  BY DEF IInv
<1>. QED
  BY <1>1, <1>2, <1>3, PTL DEF Spec

-----------------------------------------------------------------------------
(* The verify commands.  What both read does not change. *)
LEMMA SameDatabase ==
    ASSUME UNCHANGED input
    PROVE  /\ UNCHANGED <<db, bundles, from, given>>
           /\ StoredFrom' = StoredFrom /\ Decoded' = Decoded /\ WrongKeys' = WrongKeys
           /\ BrokenLinks' = BrokenLinks /\ HasGap' = HasGap
           /\ \A n : HashOf(n)' = HashOf(n) /\ ParentHash(n)' = ParentHash(n)
<1>1. UNCHANGED <<db, bundles, from, given>>
  BY DEF input
<1>2. StoredFrom' = StoredFrom
  BY <1>1 DEF StoredFrom, IsStored
<1>3. Decoded' = Decoded
  BY <1>1, <1>2 DEF Decoded
<1>4. WrongKeys' = WrongKeys
  BY <1>1, <1>3 DEF WrongKeys
<1>5. \A n : HashOf(n)' = HashOf(n) /\ ParentHash(n)' = ParentHash(n)
  BY <1>1 DEF HashOf, ParentHash, BlockNumber
<1>6. BrokenLinks' = BrokenLinks
  BY <1>3, <1>5 DEF BrokenLinks
<1>7. HasGap' = HasGap
  BY <1>1, <1>2 DEF HasGap, IsStored
<1>. QED
  BY <1>1, <1>2, <1>3, <1>4, <1>5, <1>6, <1>7

LEMMA VerifyTypesStep ==
    ASSUME VerifyTypeOK, [VerifyNext]_verifyVars
    PROVE  VerifyTypeOK'
<1> USE VerifyAssumption DEF Key, Version
<1>a. ASSUME UNCHANGED input PROVE
          /\ db' \in [Key -> {Absent, Corrupt} \cup Block] /\ bundles' \subseteq Key
          /\ from' \in Key /\ given' \in {NoHash} \cup Hash
  BY <1>a, SameDatabase DEF VerifyTypeOK
<1>b. ASSUME NEW n \in Key, IsStored(n), db[n] # Corrupt
      PROVE  HashOf(n) \in Hash /\ ParentHash(n) \in (-1 .. LastKey) \X Version
  <2>1. db[n] \in Block
    BY <1>b DEF VerifyTypeOK, IsStored
  <2>2. BlockNumber(n) \in 0 .. LastKey + 1
    BY DEF BlockNumber
  <2>. QED
    BY <2>1, <2>2 DEF Block, Hash, HashOf, ParentHash
<1>c. \A n, h, e : CheckBlockHash(n, h, e) \in Nat
  BY DEF CheckBlockHash
<1>1. CASE CheckGiven
  BY <1>1, <1>a, <1>c DEF CheckGiven, VerifyTypeOK, gopher
<1>2. ASSUME NEW n \in Key, VerifyUp(n)
      PROVE  VerifyTypeOK'
  <2>1. CASE db[n] = Corrupt
    BY <1>2, <2>1, <1>a DEF VerifyUp, VerifyTypeOK, gopher
  <2>2. CASE db[n] # Corrupt
    <3>1. CheckParent(n) \in Nat
      BY <1>c DEF CheckParent
    <3>2. errors' \in Nat
      BY <1>2, <2>2, <3>1 DEF VerifyUp, VerifyTypeOK
    <3>3. HashOf(n) \in Hash
      BY <1>2, <1>b, <2>2 DEF VerifyUp
    <3>. QED
      BY <1>2, <2>2, <1>a, <3>2, <3>3 DEF VerifyUp, VerifyTypeOK, gopher
  <2>. QED
    BY <2>1, <2>2
<1>3. CASE EndUp \/ CancelUp
  BY <1>3, <1>a DEF EndUp, CancelUp, VerifyTypeOK, gopher
<1>4. CASE StartDown \/ EndDown \/ CancelDown
  BY <1>4, <1>a DEF StartDown, EndDown, CancelDown, VerifyTypeOK, rusty
<1>5. ASSUME NEW n \in Key, VerifyDown(n)
      PROVE  VerifyTypeOK'
  <2>1. CASE db[n] = Corrupt
    BY <1>5, <2>1, <1>a DEF VerifyDown, VerifyTypeOK, rusty
  <2>2. CASE db[n] # Corrupt
    BY <1>5, <2>2, <1>a, <1>b DEF VerifyDown, VerifyTypeOK, rusty
  <2>. QED
    BY <2>1, <2>2
<1>6. CASE UNCHANGED verifyVars
  BY <1>6 DEF VerifyTypeOK, verifyVars, input, rusty, gopher
<1>. QED
  BY <1>1, <1>2, <1>3, <1>4, <1>5, <1>6 DEF VerifyNext

(* The blockservice going up: what it has passed, and the block it passed last. *)
Up ==
    /\ from <= next
    /\ rust = "given" => errors = 0 /\ next = from /\ prev = NoHash
    /\ rust \in {"running", "ok", "errors"} => \A n \in StoredFrom : n < next => db[n] # Corrupt
    /\ rust \in {"ok", "errors"} => \A n \in StoredFrom : n < next
    /\ rust = "failed" => \E n \in StoredFrom : db[n] = Corrupt
    /\ rust = "running" =>
          IF prev = NoHash THEN \A n \in StoredFrom : n >= next
          ELSE /\ prevNumber \in Decoded /\ prevNumber < next /\ prev = HashOf(prevNumber)
               /\ \A n \in StoredFrom : n < next => n <= prevNumber

(* The Go tool going down: the same, and the links it has passed. *)
Down ==
    /\ go = "waiting" => goNext = LastKey /\ goHash = NoHash
    /\ go # "waiting" => rust \in {"ok", "errors", "failed"}
    /\ go = "running" => StoredFrom # {} /\ db[Lowest] # Corrupt
    /\ WrongKeys = {} /\ go = "running" =>
          /\ \A n \in StoredFrom : n > goNext => db[n] # Corrupt
          /\ \A n \in BrokenLinks : n > goNext => n \in bundles
          /\ IF goHash = NoHash THEN \A n \in StoredFrom : n <= goNext
             ELSE \E k \in Decoded :
                    /\ k > goNext /\ goHash = ParentHash(k)
                    /\ \A n \in StoredFrom : n > goNext => n >= k
    /\ WrongKeys = {} /\ go = "ok" =>
          (\A n \in StoredFrom : db[n] # Corrupt) /\ BrokenLinks \subseteq bundles
    /\ WrongKeys = {} /\ go = "failed" /\ ~HasGap =>
          (\E n \in StoredFrom : db[n] = Corrupt) \/ BrokenLinks \ bundles # {}

LEMMA DatabaseFacts ==
    ASSUME VerifyTypeOK
    PROVE  /\ StoredFrom \subseteq 0 .. LastKey /\ LastKey \in Nat
           /\ \A n \in StoredFrom : n >= from /\ db[n] # Absent
           /\ \A n \in Key : n >= from /\ db[n] # Absent => n \in StoredFrom
           /\ \A n \in Decoded : /\ n \in StoredFrom /\ db[n] # Corrupt /\ db[n] \in Block
                                 /\ HashOf(n) # NoHash /\ ParentHash(n) # NoHash
           /\ \A n \in StoredFrom : db[n] # Corrupt => n \in Decoded
           /\ \A n \in BrokenLinks : n \in Decoded /\ n + 1 \in Decoded
<1> USE VerifyAssumption
<1>1. \A n \in Decoded : n \in StoredFrom /\ db[n] # Corrupt /\ db[n] \in Block
  BY DEF Decoded, StoredFrom, IsStored, VerifyTypeOK, Key
<1>2. ASSUME NEW n \in Decoded
      PROVE  HashOf(n) # NoHash /\ ParentHash(n) # NoHash
  <2>1. n \in Int /\ n + 1 \in Int /\ n - 1 \in Int
    BY <1>1 DEF StoredFrom, Key
  <2>2. db[n].version \in Version /\ db[n].parent \in Version
    BY <1>1 DEF Block
  <2>3. BlockNumber(n) \in Int
    BY <2>1 DEF BlockNumber
  <2>. QED
    BY <2>1, <2>2, <2>3 DEF HashOf, ParentHash
<1>. QED
  BY <1>1, <1>2 DEF Decoded, StoredFrom, IsStored, BrokenLinks, Key

LEMMA UpStep ==
    ASSUME VerifyTypeOK, Up, [VerifyNext]_verifyVars
    PROVE  Up'
<1> USE VerifyAssumption
<1>a. next \in Int /\ from \in Nat /\ from \in Key
  BY DEF VerifyTypeOK, Key
<1>1. CASE CheckGiven
  <2>1. UNCHANGED <<input, next, prev, prevNumber>> /\ rust' \in {"running", "failed"}
        /\ (rust' = "failed" => db[from] = Corrupt) /\ rust = "given"
    BY <1>1 DEF CheckGiven
  <2>2. db[from] = Corrupt => from \in StoredFrom
    BY <1>a DEF StoredFrom, IsStored
  <2>3. \A n \in StoredFrom : n >= next
    BY <2>1 DEF Up, StoredFrom
  <2>. QED
    BY <1>a, <2>1, <2>2, <2>3, SameDatabase, DatabaseFacts DEF Up
<1>2. ASSUME NEW n \in Key, VerifyUp(n)
      PROVE  Up'
  <2>1. /\ UNCHANGED input /\ rust = "running" /\ n >= next /\ next' = n + 1 /\ IsStored(n)
        /\ \A k \in next .. n - 1 : ~IsStored(k)
    BY <1>2 DEF VerifyUp
  <2>2. n \in StoredFrom /\ n \in Int
    BY <1>a, <2>1 DEF StoredFrom, Up, Key
  <2>3. \A k \in StoredFrom : k < n + 1 => k < next \/ k = n
    <3> SUFFICES ASSUME NEW k \in StoredFrom, k < n + 1, ~(k < next), k # n PROVE FALSE
      OBVIOUS
    <3>1. k \in Int /\ IsStored(k)
      BY DEF StoredFrom, Key
    <3>2. k \in next .. n - 1
      BY <1>a, <2>2, <3>1
    <3>. QED
      BY <2>1, <3>1, <3>2
  <2>4. CASE db[n] = Corrupt
    <3>1. rust' = "failed"
      BY <1>2, <2>4 DEF VerifyUp
    <3>2. from <= next'
      BY <1>a, <2>1, <2>2 DEF Up
    <3>. QED
      BY <2>1, <2>2, <2>4, <3>1, <3>2, SameDatabase DEF Up
  <2>5. CASE db[n] # Corrupt
    <3>1. rust' = rust /\ prevNumber' = n /\ prev' = HashOf(n)
      BY <1>2, <2>5 DEF VerifyUp
    <3>2. n \in Decoded /\ prev' # NoHash
      BY <2>2, <2>5, <3>1, DatabaseFacts
    <3>3. from <= next' /\ n < next'
      BY <1>a, <2>1, <2>2 DEF Up
    <3>4. \A k \in StoredFrom : k < next' => k <= n
      BY <1>a, <2>1, <2>2, DatabaseFacts
    <3>5. \A k \in StoredFrom : k < next' => db[k] # Corrupt
      BY <2>1, <2>3, <2>5 DEF Up
    <3>6. StoredFrom' = StoredFrom /\ Decoded' = Decoded /\ db' = db /\ from' = from
      BY <2>1, SameDatabase
    <3>7. prev' = (HashOf(prevNumber))'
      BY <3>1, <3>6 DEF HashOf, BlockNumber
    <3>. QED
      BY <2>1, <3>1, <3>2, <3>3, <3>4, <3>5, <3>6, <3>7 DEF Up
  <2>. QED
    BY <2>4, <2>5
<1>3. CASE EndUp
  <2>1. /\ UNCHANGED <<input, next, prev, prevNumber, errors>> /\ rust = "running"
        /\ rust' \in {"ok", "errors"}
        /\ \A k \in next .. LastKey : ~IsStored(k)
    BY <1>3 DEF EndUp
  <2>2. \A k \in StoredFrom : k < next
    BY <1>a, <2>1, DatabaseFacts DEF IsStored
  <2>. QED
    BY <2>1, <2>2, SameDatabase DEF Up
<1>4. CASE CancelUp
  BY <1>4, SameDatabase DEF CancelUp, Up
<1>5. CASE UNCHANGED <<input, rusty>>
  <2>1. UNCHANGED <<rust, next, prev, prevNumber, errors>>
    BY <1>5 DEF rusty
  <2>2. HashOf(prevNumber)' = HashOf(prevNumber)
    BY <1>5, <2>1 DEF HashOf, BlockNumber, input
  <2>. QED
    BY <1>5, <2>1, <2>2, SameDatabase DEF Up
<1>. QED
  BY <1>1, <1>2, <1>3, <1>4, <1>5 DEF VerifyNext, verifyVars, StartDown, EndDown, CancelDown, VerifyDown

LEMMA LowestIsLowest ==
    ASSUME VerifyTypeOK, StoredFrom # {}
    PROVE  /\ Lowest \in StoredFrom /\ \A k \in StoredFrom : Lowest <= k
           /\ Highest \in StoredFrom
           /\ WrongKeys = {} /\ db[Lowest] # Corrupt => GoFrom = Lowest
<1>1. StoredFrom \subseteq 0 .. LastKey /\ LastKey \in Nat
  BY DatabaseFacts
<1>2. \E n \in StoredFrom : \A k \in StoredFrom : n <= k
  BY <1>1, SmallestNumber
<1>3. \E n \in StoredFrom : \A k \in StoredFrom : k <= n
  BY <1>1, LargestNumber
<1>4. Lowest \in StoredFrom /\ \A k \in StoredFrom : Lowest <= k
  BY <1>2 DEF Lowest
<1>5. Highest \in StoredFrom
  BY <1>3 DEF Highest
<1>6. WrongKeys = {} /\ db[Lowest] # Corrupt => GoFrom = Lowest
  BY <1>4 DEF GoFrom, BlockNumber, WrongKeys, Decoded
<1>. QED
  BY <1>4, <1>5, <1>6

LEMMA DownStep ==
    ASSUME VerifyTypeOK, Up, Down, [VerifyNext]_verifyVars
    PROVE  Down'
<1> USE VerifyAssumption
<1>a. goNext \in Int
  BY DEF VerifyTypeOK
<1>1. CASE CheckGiven \/ EndUp \/ CancelUp \/ \E n \in Key : VerifyUp(n)
  <2>1. UNCHANGED <<input, gopher>> /\ go = "waiting"
    BY <1>1 DEF CheckGiven, EndUp, CancelUp, VerifyUp, Down
  <2>. QED
    BY <2>1, SameDatabase DEF Down, gopher
<1>2. CASE StartDown
  <2>1. UNCHANGED <<input, rusty, goNext, goHash>> /\ go = "waiting" /\ rust \in {"ok", "errors", "failed"}
    BY <1>2 DEF StartDown
  <2>2. rust' = rust /\ goNext' = LastKey /\ goHash' = NoHash /\ UNCHANGED <<db, from, bundles>>
    BY <2>1, SameDatabase DEF rusty, Down
  <2>3. StoredFrom' = StoredFrom /\ Decoded' = Decoded /\ WrongKeys' = WrongKeys
        /\ BrokenLinks' = BrokenLinks /\ HasGap' = HasGap /\ Lowest' = Lowest
    BY <2>1, SameDatabase DEF Lowest
  <2>4. \A n \in StoredFrom : n <= LastKey /\ ~(n > LastKey)
    BY DatabaseFacts
  <2>5. \A n \in BrokenLinks : ~(n > LastKey)
    BY <2>4, DatabaseFacts
  <2>6. CASE StoredFrom = {}
    <3>1. BrokenLinks = {} /\ go' = "ok"
      BY <1>2, <2>6, DatabaseFacts DEF StartDown
    <3>. QED
      BY <2>1, <2>2, <2>3, <2>6, <3>1 DEF Down
  <2>7. CASE StoredFrom # {} /\ Corrupt \in {db[Lowest], db[Highest]}
    <3>1. go' = "failed" /\ \E n \in StoredFrom : db[n] = Corrupt
      BY <1>2, <2>7, LowestIsLowest DEF StartDown
    <3>. QED
      BY <2>1, <2>2, <2>3, <3>1 DEF Down
  <2>8. CASE StoredFrom # {} /\ Corrupt \notin {db[Lowest], db[Highest]}
    <3>1. go' = "running"
      BY <1>2, <2>8 DEF StartDown
    <3>. QED
      BY <2>1, <2>2, <2>3, <2>4, <2>5, <2>8, <3>1 DEF Down
  <2>. QED
    BY <2>6, <2>7, <2>8
<1>3. ASSUME NEW n \in Key, VerifyDown(n)
      PROVE  Down'
  <2>1. /\ UNCHANGED <<input, rusty>> /\ go = "running" /\ n <= goNext /\ n >= GoFrom /\ IsStored(n)
        /\ goNext' = n - 1 /\ \A k \in n + 1 .. goNext : ~IsStored(k)
    BY <1>3 DEF VerifyDown
  <2>2. StoredFrom # {} /\ db[Lowest] # Corrupt /\ rust' \in {"ok", "errors", "failed"}
    BY <2>1 DEF Down, rusty
  <2>3. UNCHANGED <<db, from, bundles>> /\ StoredFrom' = StoredFrom /\ Decoded' = Decoded
        /\ WrongKeys' = WrongKeys /\ BrokenLinks' = BrokenLinks /\ HasGap' = HasGap /\ Lowest' = Lowest
    BY <2>1, SameDatabase DEF Lowest
  <2>4. go' \in {"running", "failed"}
    BY <1>3, <2>1 DEF VerifyDown
  <2>5. CASE WrongKeys # {}
    BY <2>2, <2>3, <2>4, <2>5 DEF Down
  <2>6. CASE WrongKeys = {}
    <3>0. n \in Int /\ n \in StoredFrom
      <4>1. GoFrom = Lowest /\ Lowest \in StoredFrom
        BY <2>2, <2>6, LowestIsLowest
      <4>2. n \in Int /\ Lowest >= from /\ n >= Lowest /\ Lowest \in Int /\ from \in Int
        BY <2>1, <4>1, DatabaseFacts DEF Key, VerifyTypeOK
      <4>3. n >= from
        BY <4>2
      <4>. QED
        BY <2>1, <4>2, <4>3 DEF StoredFrom
    <3>1. \A k \in StoredFrom : k > n - 1 => k = n \/ k > goNext
      <4> SUFFICES ASSUME NEW k \in StoredFrom, k > n - 1, k # n, ~(k > goNext) PROVE FALSE
        OBVIOUS
      <4>1. k \in Int /\ IsStored(k)
        BY DEF StoredFrom, Key
      <4>2. k \in n + 1 .. goNext
        BY <1>a, <3>0, <4>1
      <4>. QED
        BY <2>1, <4>1, <4>2
    <3>2. CASE db[n] = Corrupt
      <4>1. go' = "failed"
        BY <1>3, <3>2 DEF VerifyDown
      <4>. QED
        BY <2>2, <2>3, <3>0, <3>2, <4>1 DEF Down
    <3>3. CASE db[n] # Corrupt
      <4>1. /\ go' = IF goHash = NoHash \/ HashOf(n) = goHash \/ Tolerated(n) THEN go ELSE "failed"
            /\ goHash' = ParentHash(n)
        BY <1>3, <3>3 DEF VerifyDown
      <4>2. n \in Decoded /\ goHash' # NoHash /\ BlockNumber(n) = n
        <5>1. n \in Decoded
          BY <3>0, <3>3, DatabaseFacts
        <5>. QED
          BY <2>6, <4>1, <5>1, DatabaseFacts DEF BlockNumber, WrongKeys
      <4>3. Tolerated(n) <=> n \in bundles
        BY <4>2 DEF Tolerated
      \* The block above, if there is one without a gap, is the one goHash is of.
      <4>4. ASSUME NEW k \in Decoded, k > goNext, goHash = ParentHash(k),
                   \A m \in StoredFrom : m > goNext => m >= k, n + 1 \in StoredFrom
            PROVE  k = n + 1
        <5>1. k \in Int /\ n + 1 >= k /\ k > n
          <6>1. n + 1 > goNext
            BY <1>a, <3>0, <3>1, <4>4
          <6>2. k \in Int
            BY DatabaseFacts
          <6>3. k > n
            BY <1>a, <2>1, <3>0, <4>4, <6>2
          <6>. QED
            BY <4>4, <6>1, <6>2, <6>3
        <5>. QED
          BY <3>0, <5>1
      <4>5. CASE go' = "running"
        <5>1. \A m \in StoredFrom : m > n - 1 => db[m] # Corrupt
          BY <2>1, <2>6, <3>1, <3>3 DEF Down
        <5>2. ASSUME NEW m \in BrokenLinks, m > n - 1
              PROVE  m \in bundles
          <6>1. m \in StoredFrom /\ m + 1 \in StoredFrom
            BY DatabaseFacts
          <6>2. CASE m > goNext
            BY <2>1, <2>6, <6>2 DEF Down
          <6>3. CASE m = n
            <7>1. n + 1 > goNext
              BY <1>a, <3>0, <3>1, <6>1, <6>3
            <7>2. goHash # NoHash
              <8>1. goHash = NoHash => n + 1 <= goNext
                BY <2>1, <2>6, <6>1, <6>3 DEF Down
              <8>. QED
                BY <1>a, <3>0, <7>1, <8>1
            <7>3. goHash = ParentHash(n + 1)
              <8>1. PICK k \in Decoded : /\ k > goNext /\ goHash = ParentHash(k)
                                         /\ \A j \in StoredFrom : j > goNext => j >= k
                BY <2>1, <2>6, <7>2 DEF Down
              <8>. QED
                BY <4>4, <6>1, <6>3, <8>1
            <7>4. HashOf(n) # goHash
              BY <6>3, <7>3 DEF BrokenLinks
            <7>. QED
              BY <2>1, <4>1, <4>3, <4>5, <6>3, <7>2, <7>4
          <6>. QED
            BY <3>1, <5>2, <6>1, <6>2, <6>3
        <5>3. (ParentHash(n))' = ParentHash(n)
          BY <2>1, SameDatabase
        <5>4. n > n - 1 /\ \A m \in StoredFrom : m > n - 1 => m >= n
          <6>1. StoredFrom \subseteq Int
            BY DEF StoredFrom, Key
          <6>. QED
            BY <3>0, <6>1
        <5>. QED
          BY <2>1, <2>2, <2>3, <4>1, <4>2, <4>5, <5>1, <5>2, <5>3, <5>4 DEF Down
      <4>6. CASE go' # "running"
        <5>1. go' = "failed" /\ goHash # NoHash /\ HashOf(n) # goHash /\ n \notin bundles
          BY <2>1, <4>1, <4>3, <4>6
        <5>2. PICK k \in Decoded : /\ k > goNext /\ goHash = ParentHash(k)
                                   /\ \A j \in StoredFrom : j > goNext => j >= k
          BY <2>1, <2>6, <5>1 DEF Down
        <5>3. ASSUME ~HasGap
              PROVE  n \in BrokenLinks
          <6>1. k \in StoredFrom /\ k \in Key /\ k \in Int /\ n < k
            BY <1>a, <2>1, <3>0, <5>2, DatabaseFacts DEF StoredFrom
          <6>2. n + 1 < k => n + 1 \in Key
            BY <3>0, <6>1 DEF Key
          <6>3. n + 1 < k => IsStored(n + 1)
            BY <3>0, <5>3, <6>1, <6>2 DEF HasGap
          <6>4. from \in Int /\ n >= from
            BY <3>0, DatabaseFacts DEF VerifyTypeOK, Key
          <6>5. n + 1 < k => n + 1 \in StoredFrom
            BY <3>0, <6>2, <6>3, <6>4 DEF StoredFrom
          <6>6. k = n + 1
            BY <3>0, <4>4, <5>2, <6>1, <6>5
          <6>. QED
            BY <4>2, <5>1, <5>2, <6>6 DEF BrokenLinks
        <5>. QED
          BY <2>2, <2>3, <5>1, <5>3 DEF Down
      <4>. QED
        BY <4>5, <4>6
    <3>. QED
      BY <3>2, <3>3
  <2>. QED
    BY <2>5, <2>6
<1>4. CASE EndDown
  <2>1. /\ UNCHANGED <<input, rusty, goNext, goHash>> /\ go = "running" /\ go' = "ok"
        /\ \A k \in GoFrom .. goNext : ~IsStored(k)
    BY <1>4 DEF EndDown
  <2>2. StoredFrom # {} /\ db[Lowest] # Corrupt /\ rust' \in {"ok", "errors", "failed"}
    BY <2>1 DEF Down, rusty
  <2>3. ASSUME WrongKeys = {}, NEW k \in StoredFrom PROVE k > goNext
    <3>1. GoFrom = Lowest /\ Lowest <= k /\ Lowest \in StoredFrom
      BY <2>2, <2>3, LowestIsLowest
    <3>2. Lowest \in Int /\ k \in Int /\ IsStored(k)
      BY <3>1 DEF StoredFrom, Key
    <3>. QED
      BY <1>a, <2>1, <3>1, <3>2
  <2>4. ASSUME WrongKeys = {}
        PROVE  (\A n \in StoredFrom : db[n] # Corrupt) /\ BrokenLinks \subseteq bundles
    BY <2>1, <2>3, <2>4, DatabaseFacts DEF Down
  <2>. QED
    BY <2>1, <2>2, <2>4, SameDatabase DEF Down
<1>5. CASE CancelDown
  <2>1. UNCHANGED <<input, rusty>> /\ go = "running" /\ go' = "cancelled"
    BY <1>5 DEF CancelDown
  <2>. QED
    BY <2>1, SameDatabase DEF Down, rusty
<1>6. CASE UNCHANGED verifyVars
  <2>1. UNCHANGED <<input, rust, go, goNext, goHash>>
    BY <1>6 DEF verifyVars, rusty, gopher
  <2>2. Lowest' = Lowest
    BY <2>1, SameDatabase DEF Lowest
  <2>. QED
    BY <2>1, <2>2, SameDatabase DEF Down
<1>. QED
  BY <1>1, <1>2, <1>3, <1>4, <1>5, <1>6 DEF VerifyNext

-----------------------------------------------------------------------------
(* The faults of the blocks that were passed, and that of the given hash. *)
WrongBelow(m) == {n \in WrongKeys : n < m}
BrokenBelow(m) == {n \in BrokenLinks \ bundles : n + 1 < m}
GivenFault ==
    IF given = NoHash \/ from \in bundles \cap StoredFrom THEN 0
    ELSE IF from \in StoredFrom /\ HashOf(from) = given THEN 0
    ELSE 1

Count ==
    /\ rust \in {"running", "ok", "errors"} =>
          errors = Cardinality(WrongBelow(next)) + Cardinality(BrokenBelow(next)) + GivenFault
    /\ rust \in {"ok", "errors"} => EveryFaultCounted

LEMMA FaultsAreFinite ==
    ASSUME VerifyTypeOK, NEW m \in Int
    PROVE  /\ IsFiniteSet(WrongBelow(m)) /\ Cardinality(WrongBelow(m)) \in Nat
           /\ IsFiniteSet(BrokenBelow(m)) /\ Cardinality(BrokenBelow(m)) \in Nat
<1>1. IsFiniteSet(0 .. LastKey)
  BY VerifyAssumption, FS_Interval
<1>2. WrongBelow(m) \subseteq 0 .. LastKey /\ BrokenBelow(m) \subseteq 0 .. LastKey
  BY DEF WrongBelow, BrokenBelow, WrongKeys, BrokenLinks, Decoded, StoredFrom, Key
<1>3. IsFiniteSet(WrongBelow(m)) /\ IsFiniteSet(BrokenBelow(m))
  BY <1>1, <1>2, FS_Subset
<1>. QED
  BY <1>3, FS_CardinalityType

LEMMA CountStep ==
    ASSUME VerifyTypeOK, Up, Count, [VerifyNext]_verifyVars
    PROVE  Count'
<1> USE VerifyAssumption
<1>a. next \in Int /\ from \in Int /\ from \in Key /\ errors \in Nat /\ StoredFrom \subseteq Int
  BY DEF VerifyTypeOK, Key, StoredFrom
<1>b. ASSUME UNCHANGED <<input, next>>
      PROVE  /\ WrongBelow(next)' = WrongBelow(next) /\ BrokenBelow(next)' = BrokenBelow(next)
             /\ GivenFault' = GivenFault
  BY <1>b, SameDatabase DEF WrongBelow, BrokenBelow, GivenFault
<1>1. CASE CheckGiven
  <2>1. /\ UNCHANGED <<input, next>> /\ rust = "given" /\ rust' \in {"running", "failed"}
        /\ given = NoHash => errors' = errors
        /\ given # NoHash => /\ db[from] = Corrupt => rust' = "failed"
                             /\ db[from] = Absent => errors' = 1
                             /\ db[from] \notin {Absent, Corrupt} =>
                                   errors' = CheckBlockHash(from, HashOf(from), given)
    BY <1>1 DEF CheckGiven
  <2>2. next = from /\ errors = 0
    BY <2>1 DEF Up
  <2>3. WrongBelow(next) = {} /\ BrokenBelow(next) = {}
    <3>1. \A n \in Decoded : n \in Int /\ n >= from
      BY <1>a, DatabaseFacts
    <3>2. WrongKeys \subseteq Decoded /\ BrokenLinks \subseteq Decoded
      BY DEF WrongKeys, BrokenLinks
    <3>3. \A n \in Decoded : ~(n < next) /\ ~(n + 1 < next)
      BY <1>a, <2>2, <3>1
    <3>. QED
      BY <3>2, <3>3 DEF WrongBelow, BrokenBelow
  <2>4. from \in StoredFrom <=> db[from] # Absent
    BY <1>a DEF StoredFrom, IsStored
  <2>5. rust' = "running" => errors' = GivenFault
    BY <2>1, <2>2, <2>4 DEF GivenFault, CheckBlockHash
  <2>6. Cardinality({}) = 0
    BY FS_EmptySet
  <2>7. GivenFault \in Nat
    BY DEF GivenFault
  <2>8. rust' = "running" => errors' = 0 + 0 + GivenFault
    BY <2>5, <2>7
  <2>. QED
    BY <1>b, <2>1, <2>3, <2>6, <2>8 DEF Count
<1>2. ASSUME NEW n \in Key, VerifyUp(n)
      PROVE  Count'
  <2>1. /\ UNCHANGED input /\ rust = "running" /\ n >= next /\ next' = n + 1 /\ IsStored(n)
        /\ \A k \in next .. n - 1 : ~IsStored(k)
    BY <1>2 DEF VerifyUp
  <2>2. n \in Int /\ n \in StoredFrom
    BY <1>a, <2>1 DEF StoredFrom, Up, Key
  <2>3. \A k \in StoredFrom : k < n + 1 => k < next \/ k = n
    <3> SUFFICES ASSUME NEW k \in StoredFrom, k < n + 1, ~(k < next), k # n PROVE FALSE
      OBVIOUS
    <3>1. k \in Int /\ IsStored(k)
      BY DEF StoredFrom, Key
    <3>2. k \in next .. n - 1
      BY <1>a, <2>2, <3>1
    <3>. QED
      BY <2>1, <3>1, <3>2
  <2>4. CASE db[n] = Corrupt
    BY <1>2, <2>4 DEF VerifyUp, Count
  <2>5. CASE db[n] # Corrupt
    <3>1. /\ errors' = errors + (IF BlockNumber(n) # n THEN 1 ELSE 0) + CheckParent(n)
          /\ rust' = "running"
      BY <1>2, <2>1, <2>5 DEF VerifyUp
    <3>2. n \in Decoded
      BY <2>2, <2>5, DatabaseFacts
    <3> DEFINE W == WrongBelow(next)
               B == BrokenBelow(next)
               w == IF BlockNumber(n) # n THEN 1 ELSE 0
    <3>3. Cardinality(WrongBelow(n + 1)) = Cardinality(W) + w
      <4>1. n \notin W
        BY <1>a, <2>1, <2>2 DEF WrongBelow
      <4>2. \A k \in WrongKeys : k < n + 1 <=> k < next \/ k = n
        <5>1. WrongKeys \subseteq StoredFrom
          BY DEF WrongKeys, Decoded
        <5>. QED
          BY <1>a, <2>1, <2>2, <2>3, <5>1
      <4>3. CASE BlockNumber(n) # n
        <5>1. n \in WrongKeys
          BY <3>2, <4>3 DEF WrongKeys, BlockNumber
        <5>2. WrongBelow(n + 1) = W \cup {n}
          BY <4>2, <5>1 DEF WrongBelow
        <5>. QED
          BY <1>a, <4>1, <4>3, <5>2, FaultsAreFinite, FS_AddElement
      <4>4. CASE BlockNumber(n) = n
        <5>1. n \notin WrongKeys
          BY <2>2, <4>4 DEF WrongKeys, BlockNumber
        <5>2. WrongBelow(n + 1) = W
          BY <4>2, <5>1 DEF WrongBelow
        <5>. QED
          BY <1>a, <4>4, <5>2, FaultsAreFinite
      <4>. QED
        BY <4>3, <4>4
    <3>4. Cardinality(BrokenBelow(n + 1)) = Cardinality(B) + CheckParent(n)
      <4>1. n - 1 \notin B
        BY <1>a, <2>1, <2>2 DEF BrokenBelow
      <4>2. \A k \in BrokenLinks : k + 1 < n + 1 <=> k + 1 < next \/ k = n - 1
        <5>1. \A k \in BrokenLinks : k + 1 \in StoredFrom /\ k \in Int
          BY <1>a, DatabaseFacts
        <5>. QED
          BY <1>a, <2>1, <2>2, <2>3, <5>1
      <4>3. n - 1 \in BrokenLinks =>
               prev # NoHash /\ prevNumber + 1 = n /\ prev # ParentHash(n)
        <5> SUFFICES ASSUME n - 1 \in BrokenLinks
                     PROVE  prev # NoHash /\ prevNumber + 1 = n /\ prev # ParentHash(n)
          OBVIOUS
        <5>1. n - 1 \in StoredFrom /\ ParentHash(n - 1 + 1) # HashOf(n - 1)
          BY DatabaseFacts DEF BrokenLinks
        <5>2. n - 1 < next /\ n - 1 + 1 = n
          <6>1. n - 1 < n + 1 /\ n - 1 # n /\ n - 1 + 1 = n
            BY <2>2
          <6>. QED
            BY <2>3, <5>1, <6>1
        <5>3. prev # NoHash
          <6>1. prev = NoHash => n - 1 >= next
            BY <2>1, <5>1 DEF Up
          <6>. QED
            BY <1>a, <2>2, <5>2, <6>1
        <5>4. prevNumber \in Decoded /\ prevNumber < next /\ prev = HashOf(prevNumber) /\ n - 1 <= prevNumber
          BY <2>1, <5>1, <5>2, <5>3 DEF Up
        <5>5. prevNumber = n - 1
          <6>1. prevNumber \in Int
            BY <1>a, <5>4, DatabaseFacts
          <6>. QED
            BY <1>a, <2>1, <2>2, <5>4, <6>1
        <5>. QED
          BY <2>2, <5>1, <5>2, <5>3, <5>4, <5>5
      <4>4. prev # NoHash /\ prevNumber + 1 = n /\ prev # ParentHash(n) =>
               n - 1 \in BrokenLinks /\ prevNumber = n - 1
        <5> SUFFICES ASSUME prev # NoHash, prevNumber + 1 = n, prev # ParentHash(n)
                     PROVE  n - 1 \in BrokenLinks /\ prevNumber = n - 1
          OBVIOUS
        <5>1. prevNumber \in Decoded /\ prev = HashOf(prevNumber)
          BY <2>1 DEF Up
        <5>2. prevNumber \in Int
          BY <1>a, <5>1, DatabaseFacts
        <5>3. prevNumber = n - 1 /\ n - 1 + 1 = n
          BY <2>2, <5>2
        <5>. QED
          BY <3>2, <5>1, <5>3 DEF BrokenLinks
      <4>5. CASE n - 1 \in BrokenLinks \ bundles
        <5>1. CheckParent(n) = 1
          <6>1. prevNumber = n - 1
            BY <4>3, <4>4, <4>5
          <6>. QED
            BY <4>3, <4>5, <6>1 DEF CheckParent, CheckBlockHash
        <5>2. BrokenBelow(n + 1) = B \cup {n - 1}
          BY <4>2, <4>5 DEF BrokenBelow
        <5>. QED
          BY <1>a, <4>1, <5>1, <5>2, FaultsAreFinite, FS_AddElement
      <4>6. CASE n - 1 \notin BrokenLinks \ bundles
        <5>1. CheckParent(n) = 0
          BY <4>4, <4>6 DEF CheckParent, CheckBlockHash
        <5>2. BrokenBelow(n + 1) = B
          BY <4>2, <4>6 DEF BrokenBelow
        <5>. QED
          BY <1>a, <5>1, <5>2, FaultsAreFinite
      <4>. QED
        BY <4>5, <4>6
    <3>5. errors = Cardinality(W) + Cardinality(B) + GivenFault
      BY <2>1 DEF Count
    <3>6. /\ Cardinality(W) \in Nat /\ Cardinality(B) \in Nat /\ GivenFault \in Nat
          /\ w \in Nat /\ CheckParent(n) \in Nat
      BY <1>a, FaultsAreFinite DEF GivenFault, CheckParent, CheckBlockHash
    <3>7. errors' = Cardinality(WrongBelow(n + 1)) + Cardinality(BrokenBelow(n + 1)) + GivenFault
      <4> HIDE DEF W, B, w
      <4>1. errors' = errors + w + CheckParent(n)
        BY <3>1 DEF w
      <4>. QED
        BY <3>3, <3>4, <3>5, <3>6, <4>1
    <3>8. /\ (WrongBelow(next))' = WrongBelow(n + 1) /\ (BrokenBelow(next))' = BrokenBelow(n + 1)
          /\ GivenFault' = GivenFault
      BY <2>1, SameDatabase DEF WrongBelow, BrokenBelow, GivenFault
    <3>. QED
      BY <3>1, <3>7, <3>8 DEF Count
  <2>. QED
    BY <2>4, <2>5
<1>3. CASE EndUp
  <2>1. /\ UNCHANGED <<input, next, errors>> /\ rust = "running" /\ rust' \in {"ok", "errors"}
        /\ \A k \in next .. LastKey : ~IsStored(k)
    BY <1>3 DEF EndUp
  <2>2. \A k \in StoredFrom : k < next
    BY <1>a, <2>1, DatabaseFacts DEF IsStored
  <2>3. WrongBelow(next) = WrongKeys /\ BrokenBelow(next) = BrokenLinks \ bundles
    BY <2>2, DatabaseFacts DEF WrongBelow, BrokenBelow, WrongKeys
  <2>4. errors = Cardinality(WrongBelow(next)) + Cardinality(BrokenBelow(next)) + GivenFault
    BY <2>1 DEF Count
  <2>5. errors' = errors
    BY <2>1
  <2>6. /\ WrongKeys' = WrongKeys /\ BrokenLinks' = BrokenLinks /\ StoredFrom' = StoredFrom
        /\ UNCHANGED <<bundles, from, given>> /\ GivenFault' = GivenFault
    BY <1>b, <2>1, SameDatabase
  <2>7. (EveryFaultCounted)'
    BY <2>3, <2>4, <2>5, <2>6 DEF EveryFaultCounted, GivenFault
  <2>. QED
    BY <1>b, <2>1, <2>4, <2>5, <2>7 DEF Count
<1>4. CASE CancelUp
  BY <1>4 DEF CancelUp, Count
<1>5. CASE UNCHANGED <<input, rusty>>
  <2>1. UNCHANGED <<rust, next, errors>>
    BY <1>5 DEF rusty
  <2>2. EveryFaultCounted' <=> EveryFaultCounted
    BY <1>5, <2>1, SameDatabase DEF EveryFaultCounted
  <2>. QED
    BY <1>5, <1>b, <2>1, <2>2 DEF Count
<1>. QED
  BY <1>1, <1>2, <1>3, <1>4, <1>5 DEF VerifyNext, verifyVars, StartDown, EndDown, CancelDown, VerifyDown

-----------------------------------------------------------------------------
VerifyIInv == VerifyTypeOK /\ Up /\ Down /\ Count

LEMMA VerifyInvariance ==
    VerifySpec => []VerifyIInv
<1>1. VerifyInit => VerifyIInv
  <2> SUFFICES ASSUME VerifyInit PROVE VerifyIInv
    OBVIOUS
  <2> USE VerifyAssumption
  <2>1. VerifyTypeOK
    BY DEF VerifyInit, VerifyTypeOK, Key, Hash, Version
  <2>2. Up /\ Count
    BY DEF VerifyInit, Up, Count, Key
  <2>3. Down
    BY DEF VerifyInit, Down
  <2>. QED
    BY <2>1, <2>2, <2>3 DEF VerifyIInv
<1>2. VerifyIInv /\ [VerifyNext]_verifyVars => VerifyIInv'
  BY VerifyTypesStep, UpStep, DownStep, CountStep DEF VerifyIInv
<1>. QED
  BY <1>1, <1>2, PTL DEF VerifySpec

(* For databases of any size: the verify command of the blockservice       *)
(* counts each wrong key, each broken link that no failed bundle excuses   *)
(* and a wrong given hash exactly once (cmd/verify.rs), whatever gaps and  *)
(* other faults there are.                                                 *)
THEOREM VerifyCountsEveryFault ==
    VerifySpec => []EveryFaultCounted
<1>1. VerifyIInv => EveryFaultCounted
  BY DEF VerifyIInv, Count, EveryFaultCounted
<1>. QED
  BY <1>1, VerifyInvariance, PTL

(* For databases of any size: what the verify command of the Go tool       *)
(* accepts (go/verify/verify.go) is without an error for the blockservice, *)
(* and what it refuses is not, unless there is a gap or a wrong key.       *)
THEOREM VerifyCommandsAgree ==
    VerifySpec => []CommandsAgree
<1>1. VerifyIInv => CommandsAgree
  BY DEF VerifyIInv, Up, Down, CommandsAgree
<1>. QED
  BY <1>1, VerifyInvariance, PTL
=============================================================================
