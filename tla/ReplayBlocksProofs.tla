------------------------ MODULE ReplayBlocksProofs ------------------------
(***************************************************************************)
(* Proofs about what a replay keeps from block to block, for every length  *)
(* of the chain: the hashes (HashHistory, for every length of the ring)    *)
(* and the network rules (RulesUpdates).                                   *)
(***************************************************************************)
EXTENDS RulesUpdates, HashHistory, WellFoundedInduction, TLAPS

-----------------------------------------------------------------------------
(* Remainders. *)

(* A multiple of L between -L and L is zero. *)
LEMMA SmallMultiple ==
    ASSUME NEW L \in Nat \ {0}, NEW d \in Int, -L < L * d, L * d < L
    PROVE  d = 0
<1>1. CASE d >= 1
  <2>1. L * d >= L
    BY <1>1
  <2> QED
    BY <2>1
<1>2. CASE d <= -1
  <2>1. L * d <= -L
    BY <1>2
  <2> QED
    BY <2>1
<1> QED
  BY <1>1, <1>2

(* The quotient and the remainder of a division. *)
LEMMA Division ==
    ASSUME NEW a \in Int, NEW L \in Nat \ {0}
    PROVE  /\ a \div L \in Int
           /\ a % L \in 0 .. L - 1
           /\ a = L * (a \div L) + (a % L)
OBVIOUS

(* Two numbers less than L apart have different remainders: no two of the  *)
(* last L blocks share a slot of the ring.                                 *)
LEMMA DistinctSlots ==
    ASSUME NEW L \in Nat \ {0}, NEW a \in Int, NEW b \in Int,
           a < b, b < a + L
    PROVE  a % L # b % L
<1> SUFFICES ASSUME a % L = b % L
             PROVE  FALSE
  OBVIOUS
<1> DEFINE p == a \div L
           q == b \div L
           r == a % L
<1>1. p \in Int /\ q \in Int /\ r \in Int /\ a = L * p + r /\ b = L * q + r
  BY Division
<1> HIDE DEF p, q, r
<1>2. L * (q - p) = b - a /\ q - p \in Int
  BY <1>1
<1>3. q - p = 0
  BY <1>2, SmallMultiple
<1>4. L * (q - p) = 0
  BY <1>3
<1> QED
  BY <1>2, <1>4

(* Every slot of the ring belongs to one of the last L blocks. *)
LEMMA SlotCovered ==
    ASSUME NEW L \in Nat \ {0}, NEW b \in Int, NEW i \in 0 .. L - 1
    PROVE  \E k \in b - L .. b - 1 : k % L = i
<1> DEFINE x == b - 1 - i
           q == x \div L
           r == x % L
           k == i + L * q
<1>1. q \in Int /\ r \in 0 .. L - 1 /\ x = L * q + r
  <2>1. x \in Int
    OBVIOUS
  <2> HIDE DEF x
  <2> QED
    BY <2>1, Division
<1>2. k \in Int /\ k = b - 1 - r
  <2> HIDE DEF q, r
  <2> QED
    BY <1>1
<1>3. k \in b - L .. b - 1
  <2> HIDE DEF q, r, k
  <2> QED
    BY <1>1, <1>2
<1>4. k % L = i
  <2> DEFINE p == k \div L
             s == k % L
  <2>1. p \in Int /\ s \in 0 .. L - 1 /\ k = L * p + s
    BY <1>2, Division
  <2>2. L * (p - q) = i - s /\ p - q \in Int
    <3> HIDE DEF p, q, s
    <3> QED
      BY <1>1, <2>1
  <2>3. p - q = 0
    <3> HIDE DEF p, q, s
    <3> QED
      BY <2>1, <2>2, SmallMultiple
  <2>4. L * (p - q) = 0
    BY <2>3
  <2> QED
    <3> HIDE DEF p, q
    <3> QED
      BY <2>1, <2>2, <2>4
<1> QED
  BY <1>3, <1>4

-----------------------------------------------------------------------------
(* The hash history. *)

(* The hash of block k, as the block after it says it, is what a replay    *)
(* records: it was seeded, or the stored block is unaltered.               *)
AsTheChainSays(k) == k < first \/ db[k] = "good"

(* A history as of block n tells of each of the last blocks before it      *)
(* whether its hash is the one the chain says.                             *)
Tells(h, n) ==
    \A k \in 0 .. n - 1 :
        k + Len256 >= n => (h[k % Len256] = k <=> AsTheChainSays(k))

(* It has no hash of block n or later: what is in the slot of a missing    *)
(* block is the hash of another one.                                       *)
Older(h, n) == \A i \in 0 .. Len256 - 1 : h[i] \in Hash => h[i] < n

(* The slots are filled from below. *)
Filled(h, n) == \A i \in 0 .. Len256 - 1 : i < n => h[i] # Zero

RingTells ==
    state = "running" =>
        /\ first <= next_block
        /\ Tells(ring, next_block)
        /\ Older(ring, next_block)
        /\ StoredAtTheBeginning => Filled(ring, next_block)

(* The clone in a result is of the time before its block, and so is the    *)
(* parent hash to be checked.                                              *)
ResultTells(r) ==
    /\ r.block >= first /\ r.block < next_block
    /\ r.block > 0 => r.parent = r.history[(r.block - 1) % Len256]
    /\ Tells(r.history, r.block)
    /\ StoredAtTheBeginning => Filled(r.history, r.block)

ResultsTell == \A i \in 1 .. Len(results) : ResultTells(results[i])

ResultsInOrder ==
    \A i, j \in 1 .. Len(results) : i < j => results[i].block < results[j].block

(* A stored block is not passed over. *)
NoneLost ==
    state = "running" =>
        \A k \in first .. next_block - 1 : Stored(k) =>
            \/ \E a \in accepted : a.block = k
            \/ \E i \in 1 .. Len(results) : results[i].block = k

(* An altered block stops the replay at the block after it. *)
GoodBelow ==
    StoredAtTheBeginning =>
        \A a \in accepted : \A k \in first .. a.block - 1 : db[k] = "good"

NothingYet == state = "idle" => results = <<>> /\ accepted = {}

HistoryIInv ==
    /\ HistoryTypeOK /\ NothingYet
    /\ RingTells /\ ResultsTell /\ ResultsInOrder
    /\ NoneLost /\ GoodBelow
    /\ HistoryOfTheBlock /\ AcceptedFollowsAccepted

-----------------------------------------------------------------------------
LEMMA InitHistoryIInv == HistoryInit => HistoryIInv
<1> SUFFICES ASSUME HistoryInit
             PROVE  HistoryIInv
  OBVIOUS
<1>1. HistoryTypeOK
  BY HistoryAssumption DEF HistoryInit, HistoryTypeOK, BlockNumber, History
<1>2. results = <<>> /\ accepted = {} /\ state = "idle"
  BY DEF HistoryInit
<1>3. Len(results) = 0
  BY <1>2
<1> QED
  BY <1>1, <1>2, <1>3
  DEF HistoryIInv, NothingYet, RingTells, ResultsTell, ResultsInOrder,
      NoneLost, GoodBelow, HistoryOfTheBlock, AcceptedFollowsAccepted

LEMMA HashOfType ==
    ASSUME HistoryTypeOK, NEW n \in BlockNumber
    PROVE  HashOf(n) \in Hash /\ (HashOf(n) = n <=> db[n] = "good")
           /\ HashOf(n) <= n /\ HashOf(n) # Zero
<1>1. n \in Int /\ 0 <= n /\ n <= LastBlock /\ LastBlock \in Int
  BY HistoryAssumption DEF BlockNumber
<1>2. HashOf(n) = n \/ HashOf(n) = -n - 1
  BY DEF HashOf
<1>3. HashOf(n) \in Hash
  BY <1>1, <1>2 DEF Hash
<1>4. HashOf(n) = n <=> db[n] = "good"
  BY <1>1 DEF HashOf
<1>5. Zero \notin Hash
  BY HistoryAssumption DEF Hash
<1> QED
  BY <1>1, <1>2, <1>3, <1>4, <1>5

(* No two of the last blocks share a slot of the ring. *)
LEMMA RingSlots ==
    \A a, b \in Int : a < b /\ b < a + Len256 => a % Len256 # b % Len256
BY HistoryAssumption, DistinctSlots

(* What the seed puts in the ring. *)
LEMMA SeedTells ==
    ASSUME HistoryTypeOK, NEW b \in BlockNumber, SeedHistory(b)
    PROVE  /\ ring' \in History
           /\ Older(ring', b)
           /\ Seeded(b) =>
                 /\ \A k \in 0 .. b - 1 :
                       k + Len256 >= b => ring'[k % Len256] = k
                 /\ Filled(ring', b)
<1> DEFINE T(i) == {n \in SeedFrom(b) .. b :
                       b > 0 /\ Stored(n) /\ (n - 1) % Len256 = i}
<1>1. /\ Len256 \in Nat \ {0} /\ LastBlock \in Nat
      /\ b \in Nat /\ b <= LastBlock
  BY HistoryAssumption DEF BlockNumber
<1>2. ring' = [i \in 0 .. Len256 - 1 |->
                  IF T(i) = {} THEN Zero ELSE (CHOOSE n \in T(i) : TRUE) - 1]
  BY DEF SeedHistory
<1>3. SeedFrom(b) \in Int /\ SeedFrom(b) >= 1 /\ SeedFrom(b) >= b - Len256 + 1
      /\ (b > Len256 - 1 => SeedFrom(b) = b - (Len256 - 1))
      /\ (b <= Len256 - 1 => SeedFrom(b) = 1)
  BY <1>1 DEF SeedFrom
<1>4. ASSUME NEW i \in 0 .. Len256 - 1, T(i) # {}
      PROVE  /\ ring'[i] + 1 \in T(i) /\ ring'[i] \in Int
             /\ 0 <= ring'[i] /\ ring'[i] < b /\ ring'[i] + Len256 >= b
             /\ ring'[i] % Len256 = i
  <2>1. PICK n \in T(i) : ring'[i] = n - 1
    BY <1>2, <1>4
  <2>2. n \in Int /\ n >= SeedFrom(b) /\ n <= b /\ (n - 1) % Len256 = i
    BY <1>1, <1>3
  <2>3. ring'[i] + 1 = n
    BY <2>1, <2>2
  <2> QED
    BY <1>1, <1>3, <2>1, <2>2, <2>3
<1>5. ASSUME NEW i \in 0 .. Len256 - 1, T(i) = {}
      PROVE  ring'[i] = Zero
  BY <1>2, <1>5
<1> HIDE DEF T
<1>6. ring' \in History
  <2>1. ASSUME NEW i \in 0 .. Len256 - 1
        PROVE  ring'[i] \in Hash \cup {Zero}
    BY <1>1, <1>4, <1>5 DEF Hash
  <2>2. ring' = [i \in 0 .. Len256 - 1 |-> ring'[i]]
    BY <1>2
  <2> QED
    BY <2>1, <2>2 DEF History
<1>7. ASSUME Seeded(b), NEW k \in 0 .. b - 1, k + Len256 >= b
      PROVE  /\ k % Len256 \in 0 .. Len256 - 1 /\ T(k % Len256) # {}
             /\ ring'[k % Len256] = k
  <2>1. k \in Int /\ 0 <= k /\ k < b /\ b > 0
    BY <1>1
  <2>2. k % Len256 \in 0 .. Len256 - 1
    BY <1>1, <2>1, Division
  <2>3. k + 1 \in SeedFrom(b) .. b /\ (k + 1) - 1 = k
    BY <1>1, <1>3, <1>7, <2>1
  <2>4. Stored(k + 1)
    BY <1>7, <2>1, <2>3 DEF Seeded
  <2>5. k + 1 \in T(k % Len256)
    BY <2>1, <2>3, <2>4 DEF T
  <2> DEFINE i == k % Len256
             v == ring'[i]
  <2>6. /\ v \in Int /\ v < b /\ v + Len256 >= b /\ v % Len256 = i
    BY <1>4, <2>2, <2>5
  <2> HIDE DEF v
  <2>7. v % Len256 = k % Len256
    BY <2>6
  <2>8. ~(v < k)
    <3>1. v \in Int /\ k \in Int /\ k < v + Len256
      BY <1>1, <2>1, <2>6
    <3> QED
      BY <2>7, <3>1, RingSlots
  <2>9. ~(k < v)
    <3>1. v \in Int /\ k \in Int /\ v < k + Len256
      BY <1>1, <1>7, <2>1, <2>6
    <3> QED
      BY <2>7, <3>1, RingSlots
  <2>10. v = k
    BY <2>1, <2>6, <2>8, <2>9
  <2> QED
    BY <2>2, <2>5, <2>10 DEF v
<1>8. Older(ring', b)
  <2> SUFFICES ASSUME NEW i \in 0 .. Len256 - 1, ring'[i] \in Hash
               PROVE  ring'[i] < b
    BY DEF Older
  <2>1. Zero \notin Hash
    BY HistoryAssumption DEF Hash
  <2> QED
    BY <1>4, <1>5, <2>1
<1>9. ASSUME Seeded(b)
      PROVE  Filled(ring', b)
  <2> SUFFICES ASSUME NEW i \in 0 .. Len256 - 1, i < b
               PROVE  ring'[i] # Zero
    BY DEF Filled
  <2>1. \E k \in 0 .. b - 1 : k + Len256 >= b /\ k % Len256 = i
    <3>1. CASE b > Len256
      <4>1. PICK k \in b - Len256 .. b - 1 : k % Len256 = i
        <5>1. Len256 \in Nat \ {0} /\ b \in Int
          BY <1>1
        <5> QED
          BY <5>1, SlotCovered
      <4>2. k \in 0 .. b - 1 /\ k + Len256 >= b
        BY <1>1, <3>1
      <4> QED
        BY <4>1, <4>2
    <3>2. CASE b <= Len256
      <4>1. i \in 0 .. b - 1 /\ i + Len256 >= b
        BY <1>1, <3>2
      <4>2. i % Len256 = i
        BY <1>1
      <4> QED
        BY <4>1, <4>2
    <3> QED
      BY <1>1, <3>1, <3>2
  <2>2. T(i) # {}
    BY <1>7, <1>9, <2>1
  <2>3. ring'[i] \in Int /\ 0 <= ring'[i] /\ ring'[i] < b
    BY <1>4, <2>2
  <2>4. ring'[i] \in Hash
    BY <1>1, <2>3 DEF Hash
  <2> QED
    BY <2>4, HistoryAssumption DEF Hash
<1> QED
  BY <1>6, <1>7, <1>8, <1>9

LEMMA SeedKeepsHistoryIInv ==
    ASSUME HistoryIInv, NEW b \in BlockNumber, SeedHistory(b)
    PROVE  HistoryIInv'
<1>1. HistoryTypeOK /\ state = "idle" /\ results = <<>> /\ accepted = {}
  BY DEF HistoryIInv, NothingYet, SeedHistory
<1>2. results' = <<>> /\ accepted' = {} /\ db' = db /\ first' = b
      /\ next_block' = b /\ state' = IF Seeded(b) THEN "running" ELSE "failed"
  BY <1>1 DEF SeedHistory
<1>3. b \in Nat /\ b <= LastBlock
  BY HistoryAssumption DEF BlockNumber
<1>4. Len(results') = 0
  BY <1>2
<1>5. HistoryTypeOK'
  <2>1. ring' \in History
    BY <1>1, SeedTells
  <2>2. next_block' \in 0 .. LastBlock + 1 /\ Len(results') <= Ahead
    BY <1>2, <1>3, <1>4, HistoryAssumption
  <2>3. state' \in {"idle", "running", "failed"}
    BY <1>2
  <2> QED
    BY <1>1, <1>2, <2>1, <2>2, <2>3 DEF HistoryTypeOK
<1>6. RingTells'
  <2> SUFFICES ASSUME state' = "running"
               PROVE  /\ (first <= next_block)'
                      /\ Tells(ring, next_block)'
                      /\ Older(ring, next_block)'
                      /\ Filled(ring, next_block)'
    BY DEF RingTells
  <2>1. Seeded(b)
    BY <1>2
  <2>2. /\ \A k \in 0 .. b - 1 : k + Len256 >= b => ring'[k % Len256] = k
        /\ Older(ring', b) /\ Filled(ring', b)
    BY <1>1, <2>1, SeedTells
  <2>3. Tells(ring, next_block)'
    <3> SUFFICES ASSUME NEW k \in 0 .. b - 1, k + Len256 >= b
                 PROVE  ring'[k % Len256] = k /\ AsTheChainSays(k)'
      BY <1>2 DEF Tells
    <3>1. k < b
      BY <1>3
    <3> QED
      BY <1>2, <2>2, <3>1 DEF AsTheChainSays
  <2> QED
    BY <1>2, <1>3, <2>2, <2>3 DEF Older, Filled
<1>7. NoneLost'
  BY <1>2, <1>3 DEF NoneLost
<1> QED
  BY <1>2, <1>4, <1>5, <1>6, <1>7
  DEF HistoryIInv, NothingYet, ResultsTell, ResultsInOrder, GoodBelow,
      HistoryOfTheBlock, AcceptedFollowsAccepted

(* The iterator passes over missing blocks: the history tells of them too. *)
LEMMA PassOver ==
    ASSUME HistoryIInv, NEW n \in BlockNumber, ApplyBlock(n)
    PROVE  /\ Tells(ring, n)
           /\ Older(ring, n)
           /\ StoredAtTheBeginning => Filled(ring, n)
<1>1. /\ HistoryTypeOK /\ RingTells /\ state = "running"
      /\ n >= next_block /\ \A k \in next_block .. n - 1 : ~Stored(k)
  BY DEF HistoryIInv, ApplyBlock
<1>2. /\ Len256 \in Nat \ {0} /\ LastBlock \in Nat
      /\ n \in Nat /\ n <= LastBlock
      /\ first \in Nat /\ next_block \in Nat /\ first <= next_block
  BY <1>1, HistoryAssumption DEF BlockNumber, HistoryTypeOK, RingTells
<1>3. Tells(ring, next_block) /\ Older(ring, next_block)
      /\ (StoredAtTheBeginning => Filled(ring, next_block))
  BY <1>1 DEF RingTells
<1>4. ring \in History /\ Zero \notin Hash
  BY <1>1, HistoryAssumption DEF HistoryTypeOK, Hash
<1>5. Older(ring, n)
  <2> SUFFICES ASSUME NEW i \in 0 .. Len256 - 1, ring[i] \in Hash
               PROVE  ring[i] < n
    BY DEF Older
  <2>1. ring[i] < next_block /\ ring[i] \in Int
    BY <1>2, <1>3 DEF Older, Hash
  <2> QED
    BY <1>1, <1>2, <2>1
<1>6. Tells(ring, n)
  <2> SUFFICES ASSUME NEW k \in 0 .. n - 1, k + Len256 >= n
               PROVE  ring[k % Len256] = k <=> AsTheChainSays(k)
    BY DEF Tells
  <2>1. k \in Int /\ 0 <= k /\ k < n
    BY <1>2
  <2>2. CASE k < next_block
    <3>1. k \in 0 .. next_block - 1 /\ k + Len256 >= next_block
      BY <1>1, <1>2, <2>1, <2>2
    <3> QED
      BY <1>3, <3>1 DEF Tells
  <2>3. CASE k >= next_block
    <3>1. k \in next_block .. n - 1 /\ ~(k < first)
      BY <1>2, <2>1, <2>3
    <3>2. ~Stored(k)
      BY <1>1, <3>1
    <3>3. ~AsTheChainSays(k)
      BY <3>1, <3>2 DEF AsTheChainSays, Stored
    <3> DEFINE i == k % Len256
    <3>4. i \in 0 .. Len256 - 1
      BY <1>2, <2>1, Division
    <3> HIDE DEF i
    <3>5. ring[i] \in Hash => ring[i] < next_block
      BY <1>3, <3>4 DEF Older
    <3>6. k \in Hash
      BY <1>2, <2>1 DEF Hash
    <3>7. ring[i] # k
      BY <1>2, <2>1, <2>3, <3>5, <3>6
    <3> QED
      BY <3>3, <3>7 DEF i
  <2> QED
    BY <1>2, <2>1, <2>2, <2>3
<1>7. ASSUME StoredAtTheBeginning
      PROVE  Filled(ring, n)
  <2>1. CASE n = next_block
    BY <1>3, <1>7, <2>1
  <2>2. CASE n # next_block
    <3>1. next_block \in next_block .. n - 1 /\ next_block \in BlockNumber
      BY <1>1, <1>2, <2>2 DEF BlockNumber
    <3>2. ~Stored(next_block)
      BY <1>1, <3>1
    <3>3. next_block > Len256
      BY <1>2, <1>7, <3>1, <3>2 DEF StoredAtTheBeginning
    <3>4. ASSUME NEW i \in 0 .. Len256 - 1
          PROVE  ring[i] # Zero
      <4>1. i < next_block
        BY <1>2, <3>3
      <4> QED
        BY <1>3, <1>7, <4>1 DEF Filled
    <3> QED
      BY <3>4 DEF Filled
  <2> QED
    BY <2>1, <2>2
<1> QED
  BY <1>5, <1>6, <1>7

(* The ring after block n is recorded. *)
LEMMA RecordTells ==
    ASSUME HistoryIInv, NEW n \in BlockNumber, ApplyBlock(n)
    PROVE  ring' \in History /\ RingTells'
<1>1. /\ HistoryTypeOK /\ RingTells /\ state = "running"
      /\ n >= next_block
      /\ ring' = SetBlockHash(ring, n, HashOf(n))
      /\ next_block' = n + 1
      /\ db' = db /\ first' = first /\ state' = state
  BY DEF HistoryIInv, ApplyBlock
<1>2. /\ Len256 \in Nat \ {0} /\ LastBlock \in Nat
      /\ n \in Nat /\ n <= LastBlock
      /\ first \in Nat /\ first <= n
  BY <1>1, HistoryAssumption DEF BlockNumber, HistoryTypeOK, RingTells
<1> DEFINE s == n % Len256
<1>3. s \in 0 .. Len256 - 1
  BY <1>2, Division
<1>4. /\ ring \in History /\ Zero \notin Hash
  BY <1>1, HistoryAssumption DEF HistoryTypeOK, Hash
<1>5. /\ HashOf(n) \in Hash /\ (HashOf(n) = n <=> db[n] = "good")
      /\ HashOf(n) <= n /\ HashOf(n) # Zero
  BY <1>1, HashOfType
<1>6. /\ ring' = [ring EXCEPT ![s] = HashOf(n)]
      /\ ring'[s] = HashOf(n)
      /\ \A i \in 0 .. Len256 - 1 : i # s => ring'[i] = ring[i]
  BY <1>1, <1>3, <1>4 DEF SetBlockHash, History
<1>7. ring' \in History
  BY <1>4, <1>5, <1>6 DEF History
<1> HIDE DEF s
<1>8. Tells(ring', n + 1)
  <2> SUFFICES ASSUME NEW k \in 0 .. n, k + Len256 >= n + 1
               PROVE  ring'[k % Len256] = k <=> AsTheChainSays(k)
    BY <1>2 DEF Tells
  <2>1. k \in Int /\ 0 <= k /\ k <= n
    BY <1>2
  <2>2. CASE k = n
    <3>1. ring'[k % Len256] = HashOf(n)
      BY <1>6, <2>2 DEF s
    <3>2. ~(n < first)
      BY <1>2
    <3> QED
      BY <1>5, <2>2, <3>1, <3>2 DEF AsTheChainSays
  <2>3. CASE k # n
    <3>1. k \in 0 .. n - 1 /\ k + Len256 >= n /\ k < n /\ n < k + Len256
          /\ n \in Int
      BY <1>2, <2>1, <2>3
    <3>2. k % Len256 # s
      BY <2>1, <3>1, RingSlots DEF s
    <3>3. k % Len256 \in 0 .. Len256 - 1
      BY <1>2, <2>1, Division
    <3>4. ring'[k % Len256] = ring[k % Len256]
      BY <1>6, <3>2, <3>3
    <3>5. Tells(ring, n)
      BY PassOver
    <3> QED
      BY <3>1, <3>4, <3>5 DEF Tells
  <2> QED
    BY <2>2, <2>3
<1>9. Older(ring', n + 1)
  <2> SUFFICES ASSUME NEW i \in 0 .. Len256 - 1, ring'[i] \in Hash
               PROVE  ring'[i] < n + 1
    BY DEF Older
  <2>1. CASE i = s
    <3>1. ring'[i] \in Int
      BY <1>2 DEF Hash
    <3> QED
      BY <1>2, <1>5, <1>6, <2>1, <3>1
  <2>2. CASE i # s
    <3>1. ring'[i] = ring[i] /\ ring'[i] \in Int
      BY <1>2, <1>6, <2>2 DEF Hash
    <3>2. ring[i] < n
      BY <3>1, PassOver DEF Older
    <3> QED
      BY <1>2, <3>1, <3>2
  <2> QED
    BY <2>1, <2>2
<1>10. ASSUME StoredAtTheBeginning
       PROVE  Filled(ring', n + 1)
  <2> SUFFICES ASSUME NEW i \in 0 .. Len256 - 1, i < n + 1
               PROVE  ring'[i] # Zero
    BY DEF Filled
  <2>1. CASE i = s
    BY <1>5, <1>6, <2>1
  <2>2. CASE i # s
    <3>1. i # n
      <4> SUFFICES ASSUME i = n
                   PROVE  FALSE
        OBVIOUS
      <4>1. n % Len256 = n
        BY <1>2
      <4> QED
        BY <2>2, <4>1 DEF s
    <3>2. i < n
      BY <1>2, <3>1
    <3>3. ring[i] # Zero
      BY <1>10, <3>2, PassOver DEF Filled
    <3> QED
      BY <1>6, <2>2, <3>3
  <2> QED
    BY <2>1, <2>2
<1>11. StoredAtTheBeginning' <=> StoredAtTheBeginning
  BY <1>1 DEF StoredAtTheBeginning, Stored
<1>12. Tells(ring, next_block)' /\ Older(ring, next_block)'
  BY <1>1, <1>8, <1>9 DEF Tells, Older, AsTheChainSays
<1>13. StoredAtTheBeginning => Filled(ring, next_block)'
  BY <1>1, <1>10 DEF Filled
<1>14. (first <= next_block)'
  BY <1>1, <1>2
<1> QED
  BY <1>7, <1>11, <1>12, <1>13, <1>14 DEF RingTells

LEMMA ApplyKeepsHistoryIInv ==
    ASSUME HistoryIInv, NEW n \in BlockNumber, ApplyBlock(n)
    PROVE  HistoryIInv'
<1> DEFINE new == [block |-> n,
                   parent |-> IF n > 0 THEN GetBlockHash(ring, n - 1) ELSE Zero,
                   history |-> ring]
           m == Len(results)
<1>1. /\ HistoryTypeOK /\ RingTells /\ ResultsTell /\ ResultsInOrder
      /\ NoneLost /\ GoodBelow /\ HistoryOfTheBlock /\ AcceptedFollowsAccepted
      /\ state = "running"
  BY DEF HistoryIInv, ApplyBlock
<1>2. /\ n >= next_block /\ Stored(n) /\ m < Ahead
      /\ \A k \in next_block .. n - 1 : ~Stored(k)
      /\ results' = Append(results, new)
      /\ next_block' = n + 1
      /\ db' = db /\ first' = first /\ state' = state /\ accepted' = accepted
  BY DEF ApplyBlock
<1>3. /\ Len256 \in Nat \ {0} /\ LastBlock \in Nat /\ Ahead \in Nat
      /\ n \in Nat /\ n <= LastBlock
      /\ first \in Nat /\ first <= next_block /\ next_block \in Nat
  BY <1>1, HistoryAssumption DEF BlockNumber, HistoryTypeOK, RingTells
<1>4. results \in Seq(Result) /\ m \in Nat
  BY <1>1 DEF HistoryTypeOK
<1>5. new \in Result /\ new.block = n /\ new.history = ring
      /\ (n > 0 => new.parent = ring[(n - 1) % Len256])
  <2>1. ring \in History
    BY <1>1 DEF HistoryTypeOK
  <2>2. n > 0 => ring[(n - 1) % Len256] \in Hash \cup {Zero}
    <3> SUFFICES ASSUME n > 0
                 PROVE  ring[(n - 1) % Len256] \in Hash \cup {Zero}
      OBVIOUS
    <3>1. (n - 1) % Len256 \in 0 .. Len256 - 1
      BY <1>3, Division
    <3> QED
      BY <2>1, <3>1 DEF History
  <2> QED
    BY <2>1, <2>2 DEF Result, GetBlockHash
<1> HIDE DEF new
<1>6. /\ Len(results') = m + 1 /\ results' \in Seq(Result)
      /\ results'[m + 1] = new
      /\ \A i \in 1 .. m : results'[i] = results[i]
  BY <1>2, <1>4, <1>5
<1> HIDE DEF m
<1>7. HistoryTypeOK'
  <2>1. ring' \in History
    BY RecordTells
  <2>2. next_block' \in 0 .. LastBlock + 1 /\ Len(results') <= Ahead
    BY <1>2, <1>3, <1>4, <1>6
  <2> QED
    BY <1>1, <1>2, <1>6, <2>1, <2>2 DEF HistoryTypeOK
<1>8. StoredAtTheBeginning' <=> StoredAtTheBeginning
  BY <1>2 DEF StoredAtTheBeginning, Stored
<1>9. ResultsTell'
  <2> SUFFICES ASSUME NEW i \in 1 .. Len(results')
               PROVE  ResultTells(results[i])'
    BY DEF ResultsTell
  <2>1. CASE i = m + 1
    <3>1. results'[i] = new
      BY <1>6, <2>1
    <3>2. Tells(ring, n) /\ (StoredAtTheBeginning => Filled(ring, n))
      BY PassOver
    <3>3. Tells(ring, n) <=> \A k \in 0 .. n - 1 :
              k + Len256 >= n => (ring[k % Len256] = k <=> k < first \/ db[k] = "good")
      BY DEF Tells, AsTheChainSays
    <3>4. Tells(results[i].history, results[i].block)'
      BY <1>2, <1>5, <3>1, <3>2, <3>3 DEF Tells, AsTheChainSays
    <3>5. StoredAtTheBeginning' => Filled(results[i].history, results[i].block)'
      BY <1>5, <1>8, <3>1, <3>2 DEF Filled
    <3>6. (results[i].block >= first /\ results[i].block < next_block)'
      BY <1>2, <1>3, <1>5, <3>1
    <3> QED
      BY <1>5, <3>1, <3>4, <3>5, <3>6 DEF ResultTells
  <2>2. CASE i # m + 1
    <3>1. i \in 1 .. m /\ i \in 1 .. Len(results)
      BY <1>4, <1>6, <2>2 DEF m
    <3>2. results'[i] = results[i] /\ ResultTells(results[i])
      BY <1>1, <1>6, <3>1 DEF ResultsTell
    <3>3. results[i].block \in Nat
      <4>1. results[i] \in Result
        BY <1>4, <3>1
      <4> QED
        BY <1>3, <4>1 DEF Result, BlockNumber
    <3>4. results[i].block < n + 1
      BY <1>2, <1>3, <3>2, <3>3 DEF ResultTells
    <3>5. Tells(results[i].history, results[i].block)'
      BY <1>2, <3>2 DEF ResultTells, Tells, AsTheChainSays
    <3>6. StoredAtTheBeginning' => Filled(results[i].history, results[i].block)'
      BY <1>8, <3>2 DEF ResultTells, Filled
    <3> QED
      BY <1>2, <3>2, <3>4, <3>5, <3>6 DEF ResultTells
  <2> QED
    BY <2>1, <2>2
<1>10. ResultsInOrder'
  <2> SUFFICES ASSUME NEW i \in 1 .. Len(results'), NEW j \in 1 .. Len(results'),
                      i < j
               PROVE  results'[i].block < results'[j].block
    BY DEF ResultsInOrder
  <2>1. i \in 1 .. m /\ i \in 1 .. Len(results)
    BY <1>4, <1>6 DEF m
  <2>2. results'[i] = results[i] /\ ResultTells(results[i])
    BY <1>1, <1>6, <2>1 DEF ResultsTell
  <2>3. results[i].block \in Nat
    <3>1. results[i] \in Result
      BY <1>4, <2>1
    <3> QED
      BY <1>3, <3>1 DEF Result, BlockNumber
  <2>4. CASE j = m + 1
    <3>1. results'[j].block = n
      BY <1>5, <1>6, <2>4
    <3> QED
      BY <1>2, <1>3, <2>2, <2>3, <3>1 DEF ResultTells
  <2>5. CASE j # m + 1
    <3>1. j \in 1 .. m /\ j \in 1 .. Len(results)
      BY <1>4, <1>6, <2>5 DEF m
    <3> QED
      BY <1>1, <1>6, <2>1, <2>2, <3>1 DEF ResultsInOrder
  <2> QED
    BY <2>4, <2>5
<1>11. NoneLost'
  <2> SUFFICES ASSUME NEW k \in first .. n, Stored(k)
               PROVE  \/ \E a \in accepted : a.block = k
                      \/ \E i \in 1 .. Len(results') : results'[i].block = k
    <3>1. (next_block - 1)' = n
      BY <1>2, <1>3
    <3> QED
      BY <1>2, <3>1 DEF NoneLost, Stored
  <2>1. CASE k = n
    <3>1. m + 1 \in 1 .. Len(results')
      BY <1>4, <1>6
    <3> QED
      BY <1>5, <1>6, <2>1, <3>1
  <2>2. CASE k # n
    <3>1. k \in first .. next_block - 1
      <4>1. k \in Int /\ first <= k /\ k < n
        BY <1>3, <2>2
      <4>2. k \notin next_block .. n - 1
        BY <1>2
      <4> QED
        BY <1>3, <4>1, <4>2
    <3>2. CASE \E a \in accepted : a.block = k
      BY <3>2
    <3>3. CASE \E i \in 1 .. Len(results) : results[i].block = k
      <4>1. PICK i \in 1 .. Len(results) : results[i].block = k
        BY <3>3
      <4>2. i \in 1 .. Len(results') /\ results'[i] = results[i]
        BY <1>4, <1>6 DEF m
      <4> QED
        BY <4>1, <4>2
    <3> QED
      BY <1>1, <3>1, <3>2, <3>3 DEF NoneLost
  <2> QED
    BY <2>1, <2>2
<1>12. GoodBelow' /\ HistoryOfTheBlock' /\ AcceptedFollowsAccepted'
  BY <1>1, <1>2, <1>8 DEF GoodBelow, HistoryOfTheBlock, AcceptedFollowsAccepted,
     GetBlockHash
<1>13. NothingYet' /\ RingTells'
  BY <1>1, <1>2, RecordTells DEF NothingYet
<1> QED
  BY <1>7, <1>9, <1>10, <1>11, <1>12, <1>13 DEF HistoryIInv

(* What a check that is passed shows: the block before is unaltered and    *)
(* was accepted.                                                           *)
LEMMA PassedCheck ==
    ASSUME HistoryIInv, state = "running", results # <<>>,
           StoredAtTheBeginning, CheckParentHash(Head(results)),
           Head(results).block > first
    PROVE  /\ db[Head(results).block - 1] = "good"
           /\ \E a \in accepted : a.block = Head(results).block - 1
<1> DEFINE r == results[1]
           k == r.block - 1
<1>1. /\ HistoryTypeOK /\ ResultsTell /\ ResultsInOrder /\ NoneLost
  BY DEF HistoryIInv
<1>2. results \in Seq(Result) /\ Len(results) \in Nat /\ Len(results) >= 1
      /\ Head(results) = r
  BY <1>1 DEF HistoryTypeOK
<1>3. r \in Result /\ 1 \in 1 .. Len(results)
  BY <1>2
<1>4. ResultTells(r)
  BY <1>1, <1>3 DEF ResultsTell
<1>5. /\ Len256 \in Nat \ {0} /\ LastBlock \in Nat
      /\ first \in Nat /\ next_block \in Nat
      /\ r.block \in Nat /\ r.block <= LastBlock
  BY <1>1, <1>3, HistoryAssumption DEF HistoryTypeOK, BlockNumber, Result
<1>6. k \in Nat /\ k >= first /\ k \in 0 .. r.block - 1 /\ k + Len256 >= r.block
      /\ r.block > 0 /\ k \in first .. next_block - 1
  BY <1>2, <1>4, <1>5 DEF ResultTells
<1>7. r.parent = r.history[k % Len256]
  BY <1>4, <1>6 DEF ResultTells
<1>8. r.history[k % Len256] # Zero
  <2>1. \A i \in 0 .. Len256 - 1 : i < r.block => r.history[i] # Zero
    BY <1>4 DEF ResultTells, Filled
  <2>2. k \in Nat /\ r.block \in Nat /\ k < r.block
    BY <1>5, <1>6
  <2> HIDE DEF k
  <2> DEFINE i == k % Len256
  <2>3. i \in 0 .. Len256 - 1
    <3>1. k \in Int
      BY <2>2
    <3> QED
      BY <1>5, <3>1, Division
  <2>4. CASE k < Len256
    <3>1. i = k
      BY <1>5, <2>2, <2>4
    <3> QED
      BY <2>1, <2>2, <2>3, <3>1
  <2>5. CASE k >= Len256
    <3> HIDE DEF i
    <3>1. i < r.block
      BY <1>5, <2>2, <2>3, <2>5
    <3>2. r.history[i] # Zero
      BY <2>1, <2>3, <3>1
    <3> QED
      BY <3>2 DEF i
  <2> QED
    BY <1>5, <2>2, <2>4, <2>5
<1>9. r.history[k % Len256] = k
  BY <1>2, <1>7, <1>8 DEF CheckParentHash
<1>10. db[k] = "good"
  <2>1. AsTheChainSays(k)
    BY <1>4, <1>6, <1>9 DEF ResultTells, Tells
  <2> QED
    BY <1>5, <1>6, <2>1 DEF AsTheChainSays
<1>11. ASSUME NEW i \in 1 .. Len(results)
       PROVE  results[i].block # k
  <2>1. results[i] \in Result
    BY <1>2
  <2>2. results[i].block \in Nat
    BY <1>5, <2>1 DEF Result, BlockNumber
  <2>3. CASE i = 1
    BY <1>5, <2>3
  <2>4. CASE i # 1
    <3>1. 1 < i
      BY <1>2, <2>4
    <3>2. r.block < results[i].block
      BY <1>1, <1>3, <3>1 DEF ResultsInOrder
    <3> QED
      BY <1>5, <2>2, <3>2
  <2> QED
    BY <2>3, <2>4
<1>12. \E a \in accepted : a.block = k
  <2>1. Stored(k)
    BY <1>10 DEF Stored
  <2> QED
    BY <1>1, <1>6, <1>11, <2>1 DEF NoneLost
<1> QED
  BY <1>2, <1>10, <1>12

LEMMA CheckKeepsHistoryIInv ==
    ASSUME HistoryIInv, Check
    PROVE  HistoryIInv'
<1> DEFINE r == Head(results)
           new == [block |-> r.block, history |-> r.history]
           m == Len(results)
<1>1. /\ HistoryTypeOK /\ RingTells /\ ResultsTell /\ ResultsInOrder
      /\ NoneLost /\ GoodBelow /\ HistoryOfTheBlock /\ AcceptedFollowsAccepted
  BY DEF HistoryIInv
<1>2. /\ state = "running" /\ results # <<>> /\ results' = Tail(results)
      /\ db' = db /\ first' = first /\ next_block' = next_block /\ ring' = ring
  BY DEF Check
<1>3. \/ CheckParentHash(r) /\ accepted' = accepted \cup {new} /\ state' = state
      \/ ~CheckParentHash(r) /\ accepted' = accepted /\ state' = "failed"
  BY DEF Check, SubmittedHistory
<1>4. /\ results \in Seq(Result) /\ m \in Nat /\ m >= 1
      /\ r = results[1] /\ r \in Result
  BY <1>1, <1>2 DEF HistoryTypeOK
<1>5. /\ results' \in Seq(Result) /\ Len(results') = m - 1
      /\ \A i \in 1 .. m - 1 : results'[i] = results[i + 1]
  BY <1>2, <1>4
<1>6. ResultTells(r)
  <2>1. 1 \in 1 .. Len(results)
    BY <1>4
  <2> QED
    BY <1>1, <1>4, <2>1 DEF ResultsTell
<1>7. /\ Len256 \in Nat \ {0} /\ LastBlock \in Nat /\ Ahead \in Nat
      /\ first \in Nat /\ next_block \in Nat
      /\ r.block \in Nat /\ r.block <= LastBlock /\ r.block \in BlockNumber
      /\ r.history \in History
  BY <1>1, <1>4, HistoryAssumption DEF HistoryTypeOK, BlockNumber, Result
<1> HIDE DEF r, m
<1>8. new \in [block : BlockNumber, history : History]
      /\ new.block = r.block /\ new.history = r.history
  BY <1>7
<1> HIDE DEF new
<1>9. HistoryTypeOK'
  <2>1. accepted' \subseteq [block : BlockNumber, history : History]
    BY <1>1, <1>3, <1>8 DEF HistoryTypeOK
  <2>2. state' \in {"idle", "running", "failed"}
    BY <1>2, <1>3
  <2>3. Len(results') <= Ahead
    BY <1>1, <1>4, <1>5, <1>7 DEF HistoryTypeOK, m
  <2> QED
    BY <1>1, <1>2, <1>5, <2>1, <2>2, <2>3 DEF HistoryTypeOK
<1>10. StoredAtTheBeginning' <=> StoredAtTheBeginning
  BY <1>2 DEF StoredAtTheBeginning, Stored
<1>11. RingTells'
  BY <1>1, <1>2, <1>3, <1>10 DEF RingTells, Tells, Older, Filled, AsTheChainSays
<1>12. ASSUME NEW i \in 1 .. Len(results')
       PROVE  i + 1 \in 1 .. Len(results) /\ results'[i] = results[i + 1]
  BY <1>4, <1>5 DEF m
<1>13. ResultsTell'
  <2> SUFFICES ASSUME NEW i \in 1 .. Len(results')
               PROVE  ResultTells(results[i])'
    BY DEF ResultsTell
  <2>1. results'[i] = results[i + 1] /\ ResultTells(results[i + 1])
    BY <1>1, <1>12 DEF ResultsTell
  <2>2. Tells(results[i].history, results[i].block)'
    BY <1>2, <2>1 DEF ResultTells, Tells, AsTheChainSays
  <2>3. StoredAtTheBeginning' => Filled(results[i].history, results[i].block)'
    BY <1>10, <2>1 DEF ResultTells, Filled
  <2> QED
    BY <1>2, <2>1, <2>2, <2>3 DEF ResultTells
<1>14. ResultsInOrder'
  <2> SUFFICES ASSUME NEW i \in 1 .. Len(results'), NEW j \in 1 .. Len(results'),
                      i < j
               PROVE  results'[i].block < results'[j].block
    BY DEF ResultsInOrder
  <2>1. i + 1 < j + 1
    BY <1>4, <1>5
  <2> QED
    BY <1>1, <1>12, <2>1 DEF ResultsInOrder
<1>15. NoneLost'
  <2> SUFFICES ASSUME state' = "running",
                      NEW k \in first .. next_block - 1, Stored(k)
               PROVE  \/ \E a \in accepted' : a.block = k
                      \/ \E i \in 1 .. Len(results') : results'[i].block = k
    BY <1>2 DEF NoneLost, Stored
  <2>1. accepted' = accepted \cup {new}
    BY <1>3
  <2>2. CASE \E a \in accepted : a.block = k
    BY <2>1, <2>2
  <2>3. CASE \E i \in 1 .. Len(results) : results[i].block = k
    <3>1. PICK i \in 1 .. Len(results) : results[i].block = k
      BY <2>3
    <3>2. CASE i = 1
      BY <1>4, <1>8, <2>1, <3>1, <3>2
    <3>3. CASE i # 1
      <4>1. i - 1 \in 1 .. Len(results') /\ (i - 1) + 1 = i
        BY <1>4, <1>5, <3>3 DEF m
      <4>2. results'[i - 1] = results[i]
        BY <1>12, <4>1
      <4> QED
        BY <3>1, <4>1, <4>2
    <3> QED
      BY <3>2, <3>3
  <2> QED
    BY <1>1, <1>2, <2>2, <2>3 DEF NoneLost
<1>16. CASE ~CheckParentHash(r)
  <2>1. accepted' = accepted /\ state' = "failed"
    BY <1>3, <1>16
  <2>2. GoodBelow' /\ HistoryOfTheBlock' /\ AcceptedFollowsAccepted'
    BY <1>1, <1>2, <1>10, <2>1
    DEF GoodBelow, HistoryOfTheBlock, AcceptedFollowsAccepted, GetBlockHash
  <2> QED
    BY <1>9, <1>11, <1>13, <1>14, <1>15, <2>1, <2>2 DEF HistoryIInv, NothingYet
<1>17. CASE CheckParentHash(r)
  <2>1. accepted' = accepted \cup {new} /\ state' = "running"
    BY <1>2, <1>3, <1>17
  <2>2. ASSUME StoredAtTheBeginning, r.block > first
        PROVE  /\ db[r.block - 1] = "good"
               /\ \E a \in accepted : a.block = r.block - 1
    BY <1>2, <1>17, <2>2, PassedCheck DEF r
  <2>3. ASSUME StoredAtTheBeginning, NEW k \in first .. r.block - 1
        PROVE  db[k] = "good"
    <3>1. r.block > first /\ k \in Int
      BY <1>7
    <3>2. CASE k = r.block - 1
      BY <2>2, <2>3, <3>1, <3>2
    <3>3. CASE k # r.block - 1
      <4>1. PICK a \in accepted : a.block = r.block - 1
        BY <2>2, <2>3, <3>1
      <4>2. k \in first .. a.block - 1
        BY <1>7, <3>1, <3>3, <4>1
      <4> QED
        BY <1>1, <2>3, <4>2 DEF GoodBelow
    <3> QED
      BY <3>2, <3>3
  <2>4. GoodBelow'
    BY <1>1, <1>2, <1>8, <1>10, <2>1, <2>3 DEF GoodBelow
  <2>5. HistoryOfTheBlock'
    <3> SUFFICES ASSUME StoredAtTheBeginning, NEW a \in accepted',
                        NEW k \in BlockNumber, k < a.block, k + Len256 >= a.block
                 PROVE  a.history[k % Len256] = k
      BY <1>10 DEF HistoryOfTheBlock, GetBlockHash
    <3>1. CASE a \in accepted
      BY <1>1, <3>1 DEF HistoryOfTheBlock, GetBlockHash
    <3>2. CASE a = new
      <4>1. k \in Int /\ k \in 0 .. r.block - 1 /\ k + Len256 >= r.block
        BY <1>7, <1>8, <3>2 DEF BlockNumber
      <4>2. AsTheChainSays(k)
        <5>1. CASE k < first
          BY <5>1 DEF AsTheChainSays
        <5>2. CASE ~(k < first)
          <6>1. k \in first .. r.block - 1
            BY <1>7, <4>1, <5>2
          <6> QED
            BY <2>3, <6>1 DEF AsTheChainSays
        <5> QED
          BY <5>1, <5>2
      <4>3. r.history[k % Len256] = k
        BY <1>6, <4>1, <4>2 DEF ResultTells, Tells
      <4> QED
        BY <1>8, <3>2, <4>3
    <3> QED
      BY <2>1, <3>1, <3>2
  <2>6. AcceptedFollowsAccepted'
    <3> SUFFICES ASSUME StoredAtTheBeginning, NEW a \in accepted',
                        a.block > first
                 PROVE  /\ db[a.block - 1] = "good"
                        /\ \E b \in accepted' : b.block = a.block - 1
      BY <1>2, <1>10 DEF AcceptedFollowsAccepted
    <3>1. CASE a \in accepted
      BY <1>1, <2>1, <3>1 DEF AcceptedFollowsAccepted
    <3>2. CASE a = new
      BY <1>8, <2>1, <2>2, <3>2
    <3> QED
      BY <2>1, <3>1, <3>2
  <2> QED
    BY <1>9, <1>11, <1>13, <1>14, <1>15, <2>1, <2>4, <2>5, <2>6
    DEF HistoryIInv, NothingYet
<1> QED
  BY <1>16, <1>17

LEMMA HistoryUnchanged ==
    ASSUME HistoryIInv, UNCHANGED historyVars
    PROVE  HistoryIInv'
BY DEF HistoryIInv, historyVars, HistoryTypeOK, NothingYet, RingTells,
   ResultsTell, ResultTells, Tells, Older, Filled, AsTheChainSays,
   ResultsInOrder, NoneLost, GoodBelow, HistoryOfTheBlock, GetBlockHash,
   AcceptedFollowsAccepted, StoredAtTheBeginning, Stored

LEMMA HistoryIInvAlways == HistorySpec => []HistoryIInv
<1>1. ASSUME HistoryIInv, [HistoryNext]_historyVars
      PROVE  HistoryIInv'
  <2>1. ASSUME NEW b \in BlockNumber, SeedHistory(b)
        PROVE  HistoryIInv'
    BY <1>1, <2>1, SeedKeepsHistoryIInv
  <2>2. ASSUME NEW n \in BlockNumber, ApplyBlock(n)
        PROVE  HistoryIInv'
    BY <1>1, <2>2, ApplyKeepsHistoryIInv
  <2>3. CASE Check
    BY <1>1, <2>3, CheckKeepsHistoryIInv
  <2>4. CASE Over
    BY <1>1, <2>4, HistoryUnchanged DEF Over
  <2>5. CASE UNCHANGED historyVars
    BY <1>1, <2>5, HistoryUnchanged
  <2> QED
    BY <1>1, <2>1, <2>2, <2>3, <2>4, <2>5 DEF HistoryNext
<1> QED
  BY <1>1, InitHistoryIInv, PTL DEF HistorySpec

(* For every length of the ring, every set of stored or altered blocks and *)
(* every first block: the archive verifier gets with each block the hashes *)
(* of the blocks before it, whatever the stage that applies blocks has     *)
(* recorded since (the clone that ApplyBlock takes, and the seed).         *)
THEOREM VerifierGetsHistoryOfBlock == HistorySpec => [](HistoryTypeOK /\ HistoryOfTheBlock)
<1>1. HistoryIInv => HistoryTypeOK /\ HistoryOfTheBlock
  BY DEF HistoryIInv
<1> QED
  BY <1>1, HistoryIInvAlways, PTL

(* For every length of the ring, checkParentHash lets no block pass after  *)
(* one that is missing or altered: the accepted blocks are a run of        *)
(* unaltered ones from the first block on, the last one excepted.          *)
THEOREM NoBlockPassesAfterAlteredOne == HistorySpec => []AcceptedFollowsAccepted
<1>1. HistoryIInv => AcceptedFollowsAccepted
  BY DEF HistoryIInv
<1> QED
  BY <1>1, HistoryIInvAlways, PTL

-----------------------------------------------------------------------------
(* The rules: lists of updates. *)

(* Some member of a set of natural numbers is the smallest. *)
LEMMA SmallestNumber ==
    ASSUME NEW T \in SUBSET Nat, T # {}
    PROVE  \E x \in T : \A y \in T : x <= y
<1>1. PICK x \in T : \A y \in T : ~(<<y, x>> \in OpToRel(<, Nat))
  BY NatLessThanWellFounded, WFMin
<1>2. \A y \in T : ~(y < x)
  BY <1>1 DEF OpToRel
<1> QED
  BY <1>2

(* Some member of a bounded one is the largest. *)
LEMMA LargestNumber ==
    ASSUME NEW m \in Nat, NEW T \in SUBSET (0 .. m), T # {}
    PROVE  \E x \in T : \A y \in T : y <= x
<1> DEFINE D == {d \in 0 .. m : m - d \in T}
<1>1. \A y \in T : m - y \in D
  OBVIOUS
<1>2. D \in SUBSET Nat /\ D # {}
  <2>1. PICK y \in T : TRUE
    OBVIOUS
  <2>2. m - y \in D
    BY <1>1
  <2>3. D \in SUBSET Nat
    OBVIOUS
  <2> QED
    BY <2>2, <2>3
<1>3. PICK d \in D : \A e \in D : d <= e
  BY <1>2, SmallestNumber
<1>4. \A y \in T : y <= m - d
  BY <1>1, <1>3
<1> QED
  BY <1>3, <1>4

(* Max of a bounded set is a member, and none is larger. *)
LEMMA MaxOfSet ==
    ASSUME NEW m \in Nat, NEW T \in SUBSET (0 .. m), T # {}
    PROVE  Max(T) \in T /\ \A y \in T : y <= Max(T)
<1>1. \E x \in T : \A y \in T : x >= y
  BY LargestNumber
<1> QED
  BY <1>1 DEF Max

(* ... and it is the only such one. *)
LEMMA MaxIs ==
    ASSUME NEW m \in Nat, NEW T \in SUBSET (0 .. m), NEW x \in T,
           \A y \in T : y <= x
    PROVE  Max(T) = x
<1> DEFINE z == Max(T)
<1>1. z \in T /\ x <= z
  BY MaxOfSet
<1> HIDE DEF z
<1>2. z <= x /\ z \in 0 .. m /\ x \in 0 .. m
  BY <1>1
<1>3. z = x
  BY <1>1, <1>2
<1> QED
  BY <1>3 DEF z

(* GetRulesAtBlock, for any set of updates. *)
RulesAt(H, b) ==
    (CHOOSE u \in H :
        /\ u.block <= b
        /\ \A v \in H : v.block <= b => v.block <= u.block).rules

(* One update for a block, and one for the genesis. *)
Unique(H) == H \subseteq Update /\ \A u, v \in H : u.block = v.block => u = v
HasGenesis(H) == \E u \in H : u.block = 0

(* The last update not after block b exists. *)
LEMMA LastUpdate ==
    ASSUME NEW H, Unique(H), HasGenesis(H), NEW b \in Nat
    PROVE  \E u \in H : /\ u.block <= b
                        /\ \A v \in H : v.block <= b => v.block <= u.block
                        /\ RulesAt(H, b) = u.rules
<1> DEFINE T == {k \in 0 .. b : \E u \in H : u.block = k}
<1>1. \A u \in H : u.block \in Nat
  BY RulesAssumption DEF Unique, Update
<1>2. T # {} /\ T \in SUBSET (0 .. b)
  BY <1>1 DEF HasGenesis
<1>3. PICK k \in T : \A y \in T : y <= k
  BY <1>2, LargestNumber
<1>4. PICK u \in H : u.block = k
  BY <1>3
<1>5. u.block <= b
  BY <1>4
<1>6. ASSUME NEW v \in H, v.block <= b
      PROVE  v.block <= u.block
  <2>1. v.block \in T
    BY <1>1, <1>6
  <2> QED
    BY <1>3, <1>4, <2>1
<1> DEFINE w == CHOOSE x \in H :
                  /\ x.block <= b
                  /\ \A v \in H : v.block <= b => v.block <= x.block
<1>7. w \in H /\ w.block <= b /\ \A v \in H : v.block <= b => v.block <= w.block
  BY <1>5, <1>6
<1>8. RulesAt(H, b) = w.rules
  BY DEF RulesAt
<1> QED
  BY <1>7, <1>8

(* ... and it alone decides. *)
LEMMA RulesAtIs ==
    ASSUME NEW H, Unique(H), HasGenesis(H), NEW b \in Nat,
           NEW u \in H, u.block <= b,
           \A v \in H : v.block <= b => v.block <= u.block
    PROVE  RulesAt(H, b) = u.rules
<1>1. PICK w \in H : /\ w.block <= b
                     /\ \A v \in H : v.block <= b => v.block <= w.block
                     /\ RulesAt(H, b) = w.rules
  BY LastUpdate
<1>2. u.block \in Nat /\ w.block \in Nat
  BY RulesAssumption DEF Unique, Update
<1>3. u.block = w.block
  BY <1>1, <1>2
<1> QED
  BY <1>1, <1>3 DEF Unique

LEMMA RulesAtType ==
    ASSUME NEW H, Unique(H), HasGenesis(H), NEW b \in Nat
    PROVE  RulesAt(H, b) \in Rules
BY LastUpdate DEF Unique, Update

(* An update after block b does not touch the rules of block b. *)
LEMMA LaterUpdate ==
    ASSUME NEW H, Unique(H), HasGenesis(H), NEW b \in Nat,
           NEW new, Unique(H \cup {new}), new.block > b
    PROVE  RulesAt(H \cup {new}, b) = RulesAt(H, b)
<1>1. PICK w \in H : /\ w.block <= b
                     /\ \A v \in H : v.block <= b => v.block <= w.block
                     /\ RulesAt(H, b) = w.rules
  BY LastUpdate
<1>2. HasGenesis(H \cup {new}) /\ w \in H \cup {new}
  BY DEF HasGenesis
<1>3. new.block \in Nat
  BY RulesAssumption DEF Unique, Update
<1>4. \A v \in H \cup {new} : v.block <= b => v.block <= w.block
  BY <1>1, <1>3
<1>5. RulesAt(H \cup {new}, b) = w.rules
  BY <1>1, <1>2, <1>4, RulesAtIs
<1> QED
  BY <1>1, <1>5

(* Without an update at block b + 1 its rules are those of block b. *)
LEMMA NoUpdate ==
    ASSUME NEW H, Unique(H), HasGenesis(H), NEW b \in Nat,
           \A v \in H : v.block # b + 1
    PROVE  RulesAt(H, b + 1) = RulesAt(H, b)
<1>1. PICK w \in H : /\ w.block <= b
                     /\ \A v \in H : v.block <= b => v.block <= w.block
                     /\ RulesAt(H, b) = w.rules
  BY LastUpdate
<1>2. \A v \in H : v.block \in Nat
  BY RulesAssumption DEF Unique, Update
<1>3. w.block <= b + 1 /\ \A v \in H : v.block <= b + 1 => v.block <= w.block
  BY <1>1, <1>2
<1>4. RulesAt(H, b + 1) = w.rules
  BY <1>3, RulesAtIs
<1> QED
  BY <1>1, <1>4

(* The rules at the block of an update are those of the update. *)
LEMMA OwnRules ==
    ASSUME NEW H, Unique(H), HasGenesis(H), NEW u \in H
    PROVE  RulesAt(H, u.block) = u.rules
<1>1. u.block \in Nat
  BY RulesAssumption DEF Unique, Update
<1>2. \A v \in H : v.block <= u.block => v.block <= u.block
  OBVIOUS
<1>3. u.block <= u.block
  BY <1>1
<1> QED
  BY <1>1, <1>2, <1>3, RulesAtIs

-----------------------------------------------------------------------------
(* What the metadata store of a replay has to do with the block database,  *)
(* whatever the rules are.                                                 *)
StoresMatch ==
    /\ Unique(stored)
    /\ up \/ failed => HasGenesis(heights)
    /\ up => stored \subseteq heights
    /\ up /\ write /\ GetRulesAtBlock(0) = Genesis =>
          heights = WithGenesis(stored, Genesis)

Position ==
    /\ committed => up /\ next \in 1 .. MaxBlock
    /\ failed => ~up
    /\ \A b \in Block : used[b] # NoRules => b < next

Shape == TypeOK /\ StoresMatch /\ Position /\ ArchiveFindsSameRules

LEMMA GetRules == \A b : GetRulesAtBlock(b) = RulesAt(heights, b)
BY DEF GetRulesAtBlock, RulesAt

LEMMA UniqueHeights == TypeOK => Unique(heights)
BY DEF TypeOK, Unique

LEMMA NoRulesIsNone == NoRules \notin Rules
BY RulesAssumption DEF Rules

LEMMA UpdateRulesType ==
    ASSUME NEW rules \in Rules, NEW patch \in Patch
    PROVE  UpdateRules(rules, patch) \in Rules
<1>1. PICK F \in SUBSET Field : patch \in [F -> 0 .. 1]
  BY DEF Patch
<1> QED
  BY <1>1 DEF UpdateRules, Rules

LEMMA WithGenesisIs ==
    ASSUME NEW H, Unique(H), NEW g \in Rules
    PROVE  Unique(WithGenesis(H, g)) /\ HasGenesis(WithGenesis(H, g))
           /\ H \subseteq WithGenesis(H, g)
<1> DEFINE e == [block |-> 0, rules |-> g]
<1>1. e \in Update /\ e.block = 0
  BY RulesAssumption DEF Update
<1>2. CASE \E u \in H : u.block = 0
  BY <1>2 DEF WithGenesis, HasGenesis
<1>3. CASE ~\E u \in H : u.block = 0
  <2>1. WithGenesis(H, g) = H \cup {e}
    BY <1>3 DEF WithGenesis
  <2> HIDE DEF e
  <2> QED
    BY <1>1, <1>3, <2>1 DEF Unique, HasGenesis
<1> QED
  BY <1>2, <1>3

LEMMA GenesisTypes == Genesis \in Rules /\ OtherGenesis \in Rules
BY DEF Genesis, OtherGenesis, Rules

LEMMA InitShape == Init => Shape
<1> SUFFICES ASSUME Init
             PROVE  Shape
  OBVIOUS
<1>1. TypeOK
  <2>1. 0 \in Block /\ 0 \in 0 .. MaxBlock + 1
    BY RulesAssumption DEF Block
  <2>2. [b \in Block |-> NoRules] \in [Block -> Rules \cup {NoRules}]
    OBVIOUS
  <2> QED
    BY <2>1, <2>2 DEF Init, TypeOK
<1>2. StoresMatch
  BY DEF Init, StoresMatch, Unique
<1>3. Position
  BY DEF Init, Position
<1>4. ArchiveFindsSameRules
  BY DEF Init, ArchiveFindsSameRules
<1> QED
  BY <1>1, <1>2, <1>3, <1>4 DEF Shape

LEMMA StartKeepsShape ==
    ASSUME Shape, NEW b \in Block, NEW w \in BOOLEAN,
           NEW g \in {Genesis, OtherGenesis}, Start(b, w, g)
    PROVE  Shape'
<1>1. TypeOK /\ Unique(stored) /\ g \in Rules /\ b \in Nat /\ b <= MaxBlock
  BY GenesisTypes, RulesAssumption DEF Shape, StoresMatch, Block
<1>2. /\ heights' = WithGenesis(stored, g) /\ stored' = stored /\ up' = TRUE
      /\ write' = w /\ start' = b /\ next' = b /\ committed' = FALSE
      /\ nextRules' = NoRules /\ used' = [c \in Block |-> NoRules]
      /\ failed' = FALSE /\ chain' = chain /\ recorded' = recorded
      /\ tainted' = tainted
      /\ \A u \in stored : u.block = 0 => u.rules = g
  BY DEF Start
<1>3. Unique(heights') /\ HasGenesis(heights') /\ stored \subseteq heights'
  BY <1>1, <1>2, WithGenesisIs
<1>4. TypeOK'
  <2>1. b \in 0 .. MaxBlock + 1
    BY <1>1, RulesAssumption
  <2>2. [c \in Block |-> NoRules] \in [Block -> Rules \cup {NoRules}]
    OBVIOUS
  <2>3. heights' \subseteq Update
        /\ \A u, v \in heights' : u.block = v.block => u = v
    BY <1>3 DEF Unique
  <2> QED
    BY <1>1, <1>2, <2>1, <2>2, <2>3 DEF TypeOK
<1>5. StoresMatch'
  <2>1. ASSUME GetRulesAtBlock(0)' = Genesis
        PROVE  heights' = WithGenesis(stored, Genesis)
    <3>1. CASE \E u \in stored : u.block = 0
      BY <1>2, <3>1 DEF WithGenesis
    <3>2. CASE ~\E u \in stored : u.block = 0
      <4> DEFINE e == [block |-> 0, rules |-> g]
      <4>1. e \in heights'
        BY <1>2, <3>2 DEF WithGenesis
      <4>2. e.block = 0 /\ e.rules = g
        OBVIOUS
      <4> HIDE DEF e
      <4>3. RulesAt(heights', 0) = g
        BY <1>3, <4>1, <4>2, OwnRules
      <4>4. g = Genesis
        BY <2>1, <4>3 DEF GetRulesAtBlock, RulesAt
      <4> QED
        BY <1>2, <4>4
    <3> QED
      BY <3>1, <3>2
  <2> QED
    BY <1>1, <1>2, <1>3, <2>1 DEF StoresMatch
<1>6. Position' /\ ArchiveFindsSameRules'
  BY <1>2 DEF Position, ArchiveFindsSameRules
<1> QED
  BY <1>4, <1>5, <1>6 DEF Shape

LEMMA SkipKeepsShape ==
    ASSUME Shape, SkipGenesisBlock
    PROVE  Shape'
<1>1. TypeOK'
  BY RulesAssumption DEF Shape, TypeOK, SkipGenesisBlock
<1>2. StoresMatch' /\ ArchiveFindsSameRules'
  BY DEF Shape, StoresMatch, ArchiveFindsSameRules, SkipGenesisBlock,
     GetRulesAtBlock
<1>3. Position'
  <2>1. ~committed
    BY DEF Shape, Position, SkipGenesisBlock
  <2>2. \A b \in Block : used[b] # NoRules => b < 1
    BY DEF Shape, Position, SkipGenesisBlock, Block
  <2> QED
    BY <2>1, <2>2 DEF Shape, Position, SkipGenesisBlock
<1> QED
  BY <1>1, <1>2, <1>3 DEF Shape

LEMMA NothingKeepsShape ==
    ASSUME Shape, NothingToCommit
    PROVE  Shape'
<1>1. TypeOK'
  BY RulesAssumption DEF Shape, TypeOK, NothingToCommit, Committing, Record, Block
<1>2. StoresMatch' /\ ArchiveFindsSameRules'
  BY DEF Shape, StoresMatch, ArchiveFindsSameRules, NothingToCommit,
     GetRulesAtBlock
<1>3. Position'
  BY DEF Shape, Position, NothingToCommit, Committing
<1> QED
  BY <1>1, <1>2, <1>3 DEF Shape

LEMMA KnownKeepsShape ==
    ASSUME Shape, CommitKnown
    PROVE  Shape'
<1>1. up /\ ~committed /\ next \in 1 .. MaxBlock
  BY DEF CommitKnown, Committing
<1>2. /\ chain' = chain /\ stored' = stored /\ write' = write /\ start' = start
      /\ next' = next /\ heights' = heights /\ used' = used /\ tainted' = tainted
      /\ nextRules' = NoRules
  BY DEF CommitKnown
<1>3. PICK u \in heights :
         /\ committed' = (u.rules = nextRules)
         /\ failed' = (u.rules # nextRules)
         /\ up' = (u.rules = nextRules)
         /\ recorded' = recorded \/ recorded' = next
  BY DEF CommitKnown, Record
<1>4. TypeOK'
  <2>1. recorded' \in Block
    BY <1>1, <1>3, RulesAssumption DEF Shape, TypeOK, Block
  <2> QED
    BY <1>2, <1>3, <2>1 DEF Shape, TypeOK
<1>5. StoresMatch'
  BY <1>1, <1>2, <1>3 DEF Shape, StoresMatch, GetRulesAtBlock
<1>6. Position'
  BY <1>1, <1>2, <1>3 DEF Shape, Position
<1>7. ArchiveFindsSameRules'
  BY <1>1, <1>2 DEF Shape, ArchiveFindsSameRules, GetRulesAtBlock
<1> QED
  BY <1>4, <1>5, <1>6, <1>7 DEF Shape

(* The update of CommitNew. *)
LEMMA NewUpdate ==
    ASSUME Shape, CommitNew
    PROVE  LET new == [block |-> next + 1, rules |-> nextRules]
           IN  /\ heights' = heights \cup {new}
               /\ new.block = next + 1 /\ new.rules = nextRules
               /\ Unique(heights) /\ HasGenesis(heights)
               /\ Unique(heights') /\ HasGenesis(heights')
               /\ next \in 1 .. MaxBlock /\ nextRules \in Rules
               /\ \A u \in heights : u.block # next + 1
               /\ \A b \in 0 .. next : RulesAt(heights', b) = RulesAt(heights, b)
               /\ RulesAt(heights', next + 1) = nextRules
<1> DEFINE new == [block |-> next + 1, rules |-> nextRules]
<1>1. /\ up /\ next \in 1 .. MaxBlock /\ nextRules # NoRules
      /\ \A u \in heights : u.block # next + 1
      /\ heights' = heights \cup {new}
  BY DEF CommitNew, Committing, Pending, Known, EffectiveFrom
<1>2. nextRules \in Rules
  BY <1>1 DEF Shape, TypeOK
<1>3. new \in Update /\ new.block = next + 1 /\ new.rules = nextRules
  BY <1>1, <1>2, RulesAssumption DEF Update
<1>4. Unique(heights) /\ HasGenesis(heights)
  BY <1>1, UniqueHeights DEF Shape, StoresMatch
<1> HIDE DEF new
<1>5. Unique(heights') /\ HasGenesis(heights')
  BY <1>1, <1>3, <1>4 DEF Unique, HasGenesis
<1>6. ASSUME NEW b \in 0 .. next
      PROVE  RulesAt(heights', b) = RulesAt(heights, b)
  <2>1. b \in Nat /\ new.block > b
    BY <1>1, <1>3, RulesAssumption
  <2> QED
    BY <1>1, <1>4, <1>5, <2>1, LaterUpdate
<1>7. RulesAt(heights', next + 1) = nextRules
  <2>1. new \in heights'
    BY <1>1
  <2> QED
    BY <1>3, <1>5, <2>1, OwnRules
<1> QED
  BY <1>1, <1>2, <1>3, <1>4, <1>5, <1>6, <1>7 DEF new

LEMMA NewKeepsShape ==
    ASSUME Shape, CommitNew
    PROVE  Shape'
<1> DEFINE new == [block |-> next + 1, rules |-> nextRules]
<1>1. /\ heights' = heights \cup {new}
      /\ Unique(heights) /\ HasGenesis(heights)
      /\ Unique(heights') /\ HasGenesis(heights')
      /\ next \in 1 .. MaxBlock
      /\ \A b \in 0 .. next : RulesAt(heights', b) = RulesAt(heights, b)
  BY NewUpdate
<1>2. /\ up /\ ~committed /\ up' = up /\ write' = write /\ start' = start
      /\ next' = next /\ used' = used /\ failed' = failed /\ chain' = chain
      /\ nextRules' = NoRules /\ committed' = TRUE
      /\ tainted' = (tainted \/ (write /\ ~Trusted))
      /\ (recorded' = recorded \/ recorded' = next)
      /\ stored' = IF write THEN heights \cup {new} ELSE stored
  BY DEF CommitNew, Committing, Record, WriteAll, EffectiveFrom
<1> HIDE DEF new
<1>3. next \in Nat /\ next <= MaxBlock
  BY <1>1, RulesAssumption
<1>4. Unique(stored')
  BY <1>1, <1>2 DEF Shape, StoresMatch
<1>5. TypeOK'
  <2>1. recorded' \in Block
    BY <1>2, <1>3 DEF Shape, TypeOK, Block
  <2>2. tainted' \in BOOLEAN
    BY <1>2 DEF Shape, TypeOK
  <2>3. stored' \subseteq Update /\ heights' \subseteq Update
        /\ \A u, v \in heights' : u.block = v.block => u = v
    BY <1>1, <1>4 DEF Unique
  <2> QED
    BY <1>2, <2>1, <2>2, <2>3 DEF Shape, TypeOK
<1>6. StoresMatch'
  <2>1. stored' \subseteq heights'
    BY <1>1, <1>2 DEF Shape, StoresMatch
  <2>2. write' => heights' = WithGenesis(stored', Genesis)
    BY <1>1, <1>2 DEF WithGenesis, HasGenesis
  <2> QED
    BY <1>1, <1>2, <1>4, <2>1, <2>2 DEF StoresMatch
<1>7. Position'
  BY <1>1, <1>2 DEF Shape, Position
<1>8. ArchiveFindsSameRules'
  <2> SUFFICES ASSUME NEW b \in Block, used[b] # NoRules
               PROVE  RulesAt(heights', b) = used[b]
    BY <1>2 DEF ArchiveFindsSameRules, GetRulesAtBlock, RulesAt
  <2>1. b \in 0 .. next
    BY <1>3 DEF Shape, Position, Block
  <2>2. RulesAt(heights, b) = used[b]
    BY <1>2 DEF Shape, ArchiveFindsSameRules, GetRulesAtBlock, RulesAt
  <2> QED
    BY <1>1, <2>1, <2>2
<1> QED
  BY <1>5, <1>6, <1>7, <1>8 DEF Shape

LEMMA ExecuteKeepsShape ==
    ASSUME Shape, Execute
    PROVE  Shape'
<1>1. up /\ committed /\ next \in 1 .. MaxBlock /\ ~failed
  BY DEF Shape, Position, Execute
<1>2. next \in Nat /\ next \in Block /\ next <= MaxBlock
  BY <1>1, RulesAssumption DEF Block
<1>3. /\ used' = [used EXCEPT ![next] = GetRulesAtBlock(next)]
      /\ nextRules' = PatchRules(next, chain[next].patch)
      /\ next' = next + 1 /\ committed' = FALSE
      /\ chain' = chain /\ stored' = stored /\ up' = up /\ write' = write
      /\ start' = start /\ heights' = heights /\ failed' = failed
      /\ recorded' = recorded /\ tainted' = tainted
  BY DEF Execute
<1>4. Unique(heights) /\ HasGenesis(heights)
  BY <1>1, UniqueHeights DEF Shape, StoresMatch
<1>5. GetRulesAtBlock(next) \in Rules
  BY <1>2, <1>4, GetRules, RulesAtType
<1>6. TypeOK'
  <2>1. chain[next].patch \in Patch
    BY <1>1 DEF Shape, TypeOK
  <2>2. nextRules' \in Rules \cup {NoRules}
    <3> DEFINE last == IF nextRules # NoRules THEN nextRules
                                              ELSE GetRulesAtBlock(next)
    <3>1. last \in Rules
      BY <1>5 DEF Shape, TypeOK
    <3>2. UpdateRules(last, chain[next].patch) \in Rules
      BY <2>1, <3>1, UpdateRulesType
    <3> QED
      BY <1>3, <3>2 DEF PatchRules, Shape, TypeOK
  <2>3. used' \in [Block -> Rules \cup {NoRules}]
    BY <1>3, <1>5 DEF Shape, TypeOK
  <2>4. next' \in 0 .. MaxBlock + 1
    BY <1>2, <1>3, RulesAssumption
  <2> QED
    BY <1>3, <2>2, <2>3, <2>4 DEF Shape, TypeOK
<1>7. StoresMatch'
  BY <1>3 DEF Shape, StoresMatch, GetRulesAtBlock
<1>8. Position'
  <2> SUFFICES ASSUME NEW b \in Block, used'[b] # NoRules
               PROVE  b < next + 1
    BY <1>1, <1>3 DEF Position
  <2>1. b \in Nat
    BY DEF Block
  <2>2. CASE b = next
    BY <1>2, <2>2
  <2>3. CASE b # next
    <3>1. used[b] # NoRules
      BY <1>3, <2>3 DEF Shape, TypeOK
    <3> QED
      BY <1>2, <2>1, <3>1 DEF Shape, Position
  <2> QED
    BY <2>2, <2>3
<1>9. ArchiveFindsSameRules'
  <2> SUFFICES ASSUME NEW b \in Block, used'[b] # NoRules
               PROVE  GetRulesAtBlock(b) = used'[b]
    BY <1>3 DEF ArchiveFindsSameRules, GetRulesAtBlock
  <2>1. CASE b = next
    BY <1>2, <1>3, <2>1 DEF Shape, TypeOK
  <2>2. CASE b # next
    <3>1. used'[b] = used[b]
      BY <1>3, <2>2 DEF Shape, TypeOK
    <3> QED
      BY <1>1, <3>1 DEF Shape, ArchiveFindsSameRules
  <2> QED
    BY <2>1, <2>2
<1> QED
  BY <1>6, <1>7, <1>8, <1>9 DEF Shape

LEMMA StopKeepsShape ==
    ASSUME Shape, Stop
    PROVE  Shape'
<1>1. up /\ ~failed
  BY DEF Shape, Position, Stop
<1>2. TypeOK'
  <2>1. 0 \in Block /\ 0 \in 0 .. MaxBlock + 1
    BY RulesAssumption DEF Block
  <2>2. [b \in Block |-> NoRules] \in [Block -> Rules \cup {NoRules}]
    OBVIOUS
  <2> QED
    BY <2>1, <2>2 DEF Shape, TypeOK, Stop
<1>3. StoresMatch'
  BY <1>1 DEF Shape, StoresMatch, Stop
<1>4. Position' /\ ArchiveFindsSameRules'
  BY <1>1 DEF Position, ArchiveFindsSameRules, Stop
<1> QED
  BY <1>2, <1>3, <1>4 DEF Shape

LEMMA ShapeStep ==
    ASSUME Shape, [Next]_vars
    PROVE  Shape'
<1>1. CASE UNCHANGED vars
  BY <1>1 DEF vars, proc, Shape, TypeOK, StoresMatch, Position,
     ArchiveFindsSameRules, GetRulesAtBlock
<1>2. ASSUME NEW b \in Block, NEW w \in BOOLEAN,
             NEW g \in {Genesis, OtherGenesis}, Start(b, w, g)
      PROVE  Shape'
  BY <1>2, StartKeepsShape
<1> QED
  BY <1>1, <1>2, SkipKeepsShape, NothingKeepsShape, KnownKeepsShape,
     NewKeepsShape, ExecuteKeepsShape, StopKeepsShape DEF Next

LEMMA ShapeAlways == Spec => []Shape
BY InitShape, ShapeStep, PTL DEF Spec

(* For every chain of blocks, patches by the blocks that seal epochs       *)
(* included: what later blocks commit (CommitRules) never changes the      *)
(* rules that GetRulesAtBlock returns for a block executed before, so the  *)
(* archive verifier executes it with the same rules.                       *)
THEOREM ArchiveAlwaysFindsSameRules == Spec => [](TypeOK /\ ArchiveFindsSameRules)
<1>1. Shape => TypeOK /\ ArchiveFindsSameRules
  BY DEF Shape
<1> QED
  BY <1>1, ShapeAlways, PTL

-----------------------------------------------------------------------------
(* What the chain says: patches and seals. *)

PatchedBefore(f, b) == {p \in 1 .. MaxBlock : p < b /\ f \in DOMAIN chain[p].patch}

(* The rules with all patches before block b, committed or not. *)
AllPatches(b) ==
    [f \in Field |->
        IF PatchedBefore(f, b) = {}
        THEN Genesis[f]
        ELSE chain[Max(PatchedBefore(f, b))].patch[f]]

(* A patch since the last seal changes the rules in force. *)
Changes(p, n) ==
    \E f \in DOMAIN chain[p].patch : chain[p].patch[f] # Expected(n)[f]

Changed(n) ==
    \E p \in 1 .. MaxBlock : p >= LastSeal(n) /\ p < n /\ Changes(p, n)

(* Blocks that seal an epoch do not patch the rules. *)
QuietSeals ==
    \A b \in 1 .. MaxBlock : chain[b].seal => DOMAIN chain[b].patch = {}

ChainType == chain \in [1 .. MaxBlock -> [seal : BOOLEAN, patch : Patch]]

LEMMA ExpectedIs == \A b : Expected(b) = AllPatches(LastSeal(b))
BY DEF Expected, AllPatches, PatchedBefore

Seals(b) == {0} \cup {s \in 1 .. MaxBlock : s < b /\ chain[s].seal}

LEMMA LastSealIs ==
    ASSUME NEW b \in Nat
    PROVE  /\ LastSeal(b) \in Seals(b)
           /\ LastSeal(b) \in 0 .. MaxBlock
           /\ LastSeal(b) <= b
           /\ \A s \in Seals(b) : s <= LastSeal(b)
<1>1. Seals(b) \in SUBSET (0 .. MaxBlock) /\ Seals(b) # {}
  BY RulesAssumption DEF Seals
<1>2. LastSeal(b) = Max(Seals(b))
  BY DEF LastSeal, Seals
<1>3. Max(Seals(b)) \in Seals(b) /\ \A s \in Seals(b) : s <= Max(Seals(b))
  BY <1>1, RulesAssumption, MaxOfSet
<1>4. \A s \in Seals(b) : s <= b
  BY RulesAssumption DEF Seals
<1> QED
  BY <1>1, <1>2, <1>3, <1>4

LEMMA LastSealFirst == LastSeal(0) = 0 /\ LastSeal(1) = 0
<1>1. Seals(0) = {0} /\ Seals(1) = {0}
  BY RulesAssumption DEF Seals
<1> QED
  BY <1>1, LastSealIs

LEMMA LastSealNext ==
    ASSUME ChainType, NEW n \in 1 .. MaxBlock
    PROVE  LastSeal(n + 1) = IF chain[n].seal THEN n ELSE LastSeal(n)
<1>1. n \in Nat /\ n + 1 \in Nat /\ n <= MaxBlock /\ MaxBlock \in Nat /\ n >= 1
  BY RulesAssumption
<1> DEFINE x == LastSeal(n + 1)
           y == LastSeal(n)
<1>2. x \in Seals(n + 1) /\ x \in 0 .. MaxBlock /\ \A s \in Seals(n + 1) : s <= x
  BY <1>1, LastSealIs
<1>3. y \in Seals(n) /\ y \in 0 .. MaxBlock /\ \A s \in Seals(n) : s <= y
  BY <1>1, LastSealIs
<1> HIDE DEF x, y
<1>4. CASE chain[n].seal
  <2>1. n \in Seals(n + 1)
    BY <1>1, <1>4 DEF Seals
  <2>2. \A s \in Seals(n + 1) : s <= n
    BY <1>1 DEF Seals
  <2>3. x = n
    BY <1>1, <1>2, <2>1, <2>2
  <2> QED
    BY <1>4, <2>3 DEF x
<1>5. CASE ~chain[n].seal
  <2>1. Seals(n + 1) = Seals(n)
    BY <1>1, <1>5 DEF Seals
  <2>2. x = y
    BY <1>2, <1>3, <2>1
  <2> QED
    BY <1>5, <2>2 DEF x, y
<1> QED
  BY <1>4, <1>5

LEMMA PatchValues ==
    ASSUME ChainType, NEW p \in 1 .. MaxBlock
    PROVE  /\ chain[p].patch \in Patch
           /\ DOMAIN chain[p].patch \subseteq Field
           /\ \A f \in DOMAIN chain[p].patch : chain[p].patch[f] \in 0 .. 1
<1>1. chain[p].patch \in Patch
  BY DEF ChainType
<1>2. PICK F \in SUBSET Field : chain[p].patch \in [F -> 0 .. 1]
  BY <1>1 DEF Patch
<1> QED
  BY <1>1, <1>2

LEMMA MaxPatchedBefore ==
    ASSUME NEW f, NEW b \in Nat, PatchedBefore(f, b) # {}
    PROVE  /\ Max(PatchedBefore(f, b)) \in PatchedBefore(f, b)
           /\ \A p \in PatchedBefore(f, b) : p <= Max(PatchedBefore(f, b))
<1>1. PatchedBefore(f, b) \in SUBSET (0 .. MaxBlock)
  BY RulesAssumption DEF PatchedBefore
<1> QED
  BY <1>1, RulesAssumption, MaxOfSet

LEMMA AllPatchesType ==
    ASSUME ChainType, NEW b \in Nat
    PROVE  AllPatches(b) \in Rules
<1> SUFFICES ASSUME NEW f \in Field
             PROVE  AllPatches(b)[f] \in 0 .. 1
  BY DEF AllPatches, Rules
<1>1. CASE PatchedBefore(f, b) = {}
  BY <1>1 DEF AllPatches, Genesis
<1>2. CASE PatchedBefore(f, b) # {}
  <2> DEFINE p == Max(PatchedBefore(f, b))
  <2>1. p \in PatchedBefore(f, b)
    BY <1>2, MaxPatchedBefore
  <2>2. AllPatches(b)[f] = chain[p].patch[f]
    BY <1>2 DEF AllPatches
  <2> HIDE DEF p
  <2> QED
    BY <2>1, <2>2, PatchValues DEF PatchedBefore
<1> QED
  BY <1>1, <1>2

LEMMA NoPatches == AllPatches(0) = Genesis /\ AllPatches(1) = Genesis
<1>1. \A f : PatchedBefore(f, 0) = {} /\ PatchedBefore(f, 1) = {}
  BY RulesAssumption DEF PatchedBefore
<1> QED
  BY <1>1 DEF AllPatches, Genesis

(* One more patch. *)
LEMMA AllPatchesNext ==
    ASSUME ChainType, NEW n \in 1 .. MaxBlock
    PROVE  AllPatches(n + 1) = UpdateRules(AllPatches(n), chain[n].patch)
<1>1. n \in Nat /\ n + 1 \in Nat /\ n <= MaxBlock /\ MaxBlock \in Nat /\ n >= 1
  BY RulesAssumption
<1> SUFFICES ASSUME NEW f \in Field
             PROVE  AllPatches(n + 1)[f] =
                       IF f \in DOMAIN chain[n].patch
                       THEN chain[n].patch[f] ELSE AllPatches(n)[f]
  BY DEF AllPatches, UpdateRules
<1>2. CASE f \in DOMAIN chain[n].patch
  <2>1. n \in PatchedBefore(f, n + 1)
    BY <1>1, <1>2 DEF PatchedBefore
  <2>2. \A p \in PatchedBefore(f, n + 1) : p <= n
    BY <1>1 DEF PatchedBefore
  <2>3. PatchedBefore(f, n + 1) \in SUBSET (0 .. MaxBlock)
    BY <1>1 DEF PatchedBefore
  <2>4. Max(PatchedBefore(f, n + 1)) = n
    BY <1>1, <2>1, <2>2, <2>3, MaxIs
  <2> QED
    BY <1>2, <2>1, <2>4 DEF AllPatches
<1>3. CASE f \notin DOMAIN chain[n].patch
  <2>1. PatchedBefore(f, n + 1) = PatchedBefore(f, n)
    BY <1>1, <1>3 DEF PatchedBefore
  <2> QED
    BY <1>3, <2>1 DEF AllPatches
<1> QED
  BY <1>2, <1>3

(* Where no patch waits, the rules in force have all patches. *)
LEMMA NothingPendingMeans ==
    ASSUME NEW b \in Nat, NothingPending(b)
    PROVE  Expected(b) = AllPatches(b) /\ ~Changed(b)
<1> DEFINE s == LastSeal(b)
<1>1. s \in Nat /\ s <= b
  BY LastSealIs, RulesAssumption
<1>2. \A p \in 1 .. MaxBlock : p < b /\ p >= s => DOMAIN chain[p].patch = {}
  BY DEF NothingPending
<1>3. Expected(b) = AllPatches(s)
  BY ExpectedIs
<1>4. ~Changed(b)
  BY <1>2 DEF Changed, Changes
<1> HIDE DEF s
<1>5. ASSUME NEW f
      PROVE  PatchedBefore(f, b) = PatchedBefore(f, s)
  BY <1>1, <1>2, RulesAssumption DEF PatchedBefore
<1>6. AllPatches(b) = AllPatches(s)
  BY <1>5 DEF AllPatches
<1> QED
  BY <1>3, <1>4, <1>6

(* The rules after a block that seals an epoch, and after another one. *)
LEMMA ExpectedNext ==
    ASSUME ChainType, NEW n \in 1 .. MaxBlock
    PROVE  Expected(n + 1) =
              IF chain[n].seal THEN AllPatches(n) ELSE Expected(n)
BY ExpectedIs, LastSealNext

LEMMA ChangedNext ==
    ASSUME ChainType, NEW n \in 1 .. MaxBlock, ~chain[n].seal
    PROVE  Changed(n + 1) <=> Changed(n) \/ Changes(n, n)
<1>1. n \in Nat /\ n <= MaxBlock /\ MaxBlock \in Nat /\ n >= 1
  BY RulesAssumption
<1>2. LastSeal(n + 1) = LastSeal(n) /\ Expected(n + 1) = Expected(n)
  BY LastSealNext, ExpectedNext
<1>3. \A p : Changes(p, n + 1) <=> Changes(p, n)
  BY <1>2 DEF Changes
<1> DEFINE s == LastSeal(n)
<1>4. s \in Nat /\ s <= n
  BY <1>1, LastSealIs
<1>5. Changed(n + 1) <=> \E p \in 1 .. MaxBlock : p >= s /\ p < n + 1 /\ Changes(p, n)
  BY <1>2, <1>3 DEF Changed
<1>6. Changed(n) <=> \E p \in 1 .. MaxBlock : p >= s /\ p < n /\ Changes(p, n)
  BY DEF Changed
<1> HIDE DEF s
<1>7. \A p \in 1 .. MaxBlock : p < n + 1 <=> p < n \/ p = n
  BY <1>1
<1>8. n >= s
  BY <1>1, <1>4
<1> QED
  BY <1>5, <1>6, <1>7, <1>8

LEMMA UnchangedAfterSeal ==
    ASSUME ChainType, QuietSeals, NEW n \in 1 .. MaxBlock, chain[n].seal
    PROVE  ~Changed(n + 1)
<1> SUFFICES ASSUME NEW p \in 1 .. MaxBlock, p >= LastSeal(n + 1), p < n + 1,
                    Changes(p, n + 1)
             PROVE  FALSE
  BY DEF Changed
<1>1. LastSeal(n + 1) = n
  BY LastSealNext
<1>2. p = n
  BY <1>1, RulesAssumption
<1> QED
  BY <1>2 DEF Changes, QuietSeals

LEMMA UnchangedAtFirst == ~Changed(0) /\ ~Changed(1)
BY RulesAssumption DEF Changed

(* A patch that changes nothing. *)
LEMMA PatchChanges ==
    ASSUME ChainType, NEW n \in 1 .. MaxBlock
    PROVE  UpdateRules(Expected(n), chain[n].patch) # Expected(n) <=> Changes(n, n)
<1>1. Expected(n) = [f \in Field |-> Expected(n)[f]]
  BY DEF Expected
<1> DEFINE e == Expected(n)
           q == chain[n].patch
<1>2. DOMAIN q \subseteq Field
  BY PatchValues
<1>3. Changes(n, n) <=> \E f \in DOMAIN q : q[f] # e[f]
  BY DEF Changes
<1> HIDE DEF e, q
<1>4. e = [f \in Field |-> e[f]]
  BY <1>1 DEF e
<1>5. UpdateRules(e, q) # e <=> \E f \in DOMAIN q : q[f] # e[f]
  BY <1>2, <1>4 DEF UpdateRules
<1> QED
  BY <1>3, <1>5 DEF e, q

-----------------------------------------------------------------------------
(* The rules of the chain, in the block database and in a replay. *)

(* The block the last commit reached: the next one, or the one after it.   *)
Through == IF committed THEN next + 1 ELSE next

Sealing == committed /\ chain[next].seal

Proper == up /\ ~tainted /\ GetRulesAtBlock(0) = Genesis

(* As long as no replay has tainted it, the block database has the rules   *)
(* of all blocks up to the one after the last recorded one, and none       *)
(* beyond; and a commit for every epoch whose patches change the rules.    *)
StoredRight ==
    ~tainted =>
        /\ \A b \in 0 .. recorded + 1 :
              RulesAt(WithGenesis(stored, Genesis), b) = Expected(b)
        /\ \A u \in stored : u.block <= recorded + 1
        /\ \A n \in 1 .. recorded : chain[n].seal /\ Changed(n) =>
              \E u \in stored : u.block = n + 1

(* So has the metadata store of a replay, as far as it has come. *)
HeightsRight ==
    Proper =>
        /\ \A b \in 0 .. MaxBlock + 1 :
              b <= recorded + 1 \/ (Grounded(start) /\ b <= Through) =>
                  GetRulesAtBlock(b) = Expected(b)
        /\ \A u \in heights : u.block <= recorded + 1 \/ u.block <= Through

(* Pending patches: there are none unless the epoch changes the rules, and *)
(* a grounded replay has them all.                                         *)
NextRight ==
    Proper =>
        /\ (next <= recorded + 1 \/ Grounded(start)) /\ nextRules # NoRules =>
              Changed(next) /\ ~Sealing
        /\ Grounded(start) /\ nextRules # NoRules =>
              nextRules = AllPatches(next)
        /\ Grounded(start) /\ nextRules = NoRules /\ ~Sealing =>
              Expected(next) = AllPatches(next) /\ ~Changed(next)
        /\ Grounded(start) /\ write => recorded + 1 >= Through

FailedRight ==
    failed => tainted \/ ~Grounded(start) \/ GetRulesAtBlock(0) # Genesis

RulesRight == StoredRight /\ HeightsRight /\ NextRight /\ FailedRight

RulesIInv == Shape /\ QuietSeals /\ RulesRight

LEMMA RulesIInvImplies == RulesIInv => RulesOfTheChain
<1> SUFFICES ASSUME RulesIInv
             PROVE  RulesOfTheChain
  OBVIOUS
<1>1. FailedRight /\ HeightsRight /\ next \in Nat
  BY RulesAssumption DEF RulesIInv, RulesRight, Shape, TypeOK
<1>2. next <= Through /\ Through \in Nat
  BY <1>1 DEF Through
<1>3. ASSUME Proper, NEW b \in 1 .. MaxBlock + 1,
             b <= recorded + 1 \/ (Grounded(start) /\ b <= next)
      PROVE  GetRulesAtBlock(b) = Expected(b)
  <2>1. b \in 0 .. MaxBlock + 1 /\ b \in Nat
    BY RulesAssumption
  <2>2. b <= next => b <= Through
    BY <1>1, <1>2, <2>1
  <2> QED
    BY <1>1, <1>3, <2>1, <2>2 DEF HeightsRight
<1> QED
  BY <1>1, <1>3 DEF RulesOfTheChain, FailedRight, Proper

(* What depends on the chain only. *)
LEMMA ChainFixed ==
    ASSUME chain' = chain
    PROVE  /\ \A b : Expected(b)' = Expected(b)
           /\ \A b : AllPatches(b)' = AllPatches(b)
           /\ \A b : Changed(b)' <=> Changed(b)
           /\ \A b : NothingPending(b)' <=> NothingPending(b)
<1>1. \A b : LastSeal(b)' = LastSeal(b)
  BY DEF LastSeal
<1>2. \A b : Expected(b)' = Expected(b)
  BY <1>1 DEF Expected
<1>3. \A b : AllPatches(b)' = AllPatches(b)
  BY DEF AllPatches, PatchedBefore
<1>4. \A b : Changed(b)' <=> Changed(b)
  BY <1>1, <1>2 DEF Changed, Changes
<1>5. \A b : NothingPending(b)' <=> NothingPending(b)
  BY <1>1 DEF NothingPending
<1> QED
  BY <1>2, <1>3, <1>4, <1>5

(* The block database does not change, nor what is recorded. *)
LEMMA StoredRightKept ==
    ASSUME StoredRight, chain' = chain, stored' = stored,
           recorded' = recorded, tainted' = tainted
    PROVE  StoredRight'
<1>1. \A b : Expected(b)' = Expected(b)
  BY ChainFixed
<1>2. \A b : Changed(b)' <=> Changed(b)
  BY ChainFixed
<1>3. \A b : RulesAt(WithGenesis(stored, Genesis), b)' =
             RulesAt(WithGenesis(stored, Genesis), b)
  BY DEF RulesAt, WithGenesis, Genesis
<1> QED
  BY <1>1, <1>2, <1>3 DEF StoredRight

LEMMA InitRulesIInv ==
    ASSUME ~SealPatches, Init
    PROVE  RulesIInv
<1>1. Shape
  BY InitShape
<1>2. QuietSeals
  BY DEF Init, QuietSeals
<1>3. HeightsRight /\ NextRight /\ FailedRight
  BY DEF Init, HeightsRight, NextRight, FailedRight, Proper
<1>4. StoredRight
  <2>1. stored = {} /\ recorded = 0
    BY DEF Init
  <2> DEFINE H == WithGenesis(stored, Genesis)
             e == [block |-> 0, rules |-> Genesis]
  <2>2. H = {e} /\ Unique(H) /\ HasGenesis(H)
    <3>1. H = {e}
      BY <2>1 DEF WithGenesis
    <3>2. Unique(stored)
      BY <2>1 DEF Unique
    <3> QED
      BY <3>1, <3>2, WithGenesisIs, GenesisTypes
  <2>3. e.block = 0 /\ e.rules = Genesis
    OBVIOUS
  <2> HIDE DEF H, e
  <2>4. ASSUME NEW b \in 0 .. 1
        PROVE  RulesAt(H, b) = Expected(b)
    <3>1. \A v \in H : v.block <= b => v.block <= e.block
      BY <2>2, <2>3
    <3>2. RulesAt(H, b) = Genesis
      BY <2>2, <2>3, <3>1, RulesAtIs
    <3>3. b = 0 \/ b = 1
      OBVIOUS
    <3>4. Expected(b) = AllPatches(0)
      BY <3>3, ExpectedIs, LastSealFirst
    <3> QED
      BY <3>2, <3>4, NoPatches
  <2> QED
    BY <2>1, <2>4 DEF StoredRight, H
<1> QED
  BY <1>1, <1>2, <1>3, <1>4 DEF RulesIInv, RulesRight

LEMMA StartKeepsRules ==
    ASSUME RulesIInv, NEW b \in Block, NEW w \in BOOLEAN,
           NEW g \in {Genesis, OtherGenesis}, Start(b, w, g)
    PROVE  RulesRight'
<1>1. /\ Shape /\ StoredRight /\ Unique(stored) /\ g \in Rules
      /\ b \in Nat /\ b <= MaxBlock
  BY GenesisTypes, RulesAssumption
     DEF RulesIInv, RulesRight, Shape, StoresMatch, Block
<1>2. /\ heights' = WithGenesis(stored, g) /\ stored' = stored /\ up' = TRUE
      /\ write' = w /\ start' = b /\ next' = b /\ committed' = FALSE
      /\ nextRules' = NoRules
      /\ failed' = FALSE /\ chain' = chain /\ recorded' = recorded
      /\ tainted' = tainted
  BY DEF Start
<1>3. recorded \in Nat /\ recorded <= MaxBlock
  BY <1>1, RulesAssumption DEF Shape, TypeOK, Block
<1>4. StoredRight' /\ FailedRight'
  BY <1>1, <1>2, StoredRightKept DEF FailedRight
<1>5. ASSUME Grounded(start)'
      PROVE  b = 0 \/ (recorded >= b - 1 /\ NothingPending(b))
  BY <1>2, <1>5, ChainFixed DEF Grounded
<1>6. HeightsRight'
  <2> SUFFICES ASSUME Proper'
               PROVE  HeightsRight'
    BY DEF HeightsRight
  <2> DEFINE H == WithGenesis(stored, Genesis)
             e == [block |-> 0, rules |-> g]
  <2>1. heights' = H
    <3>1. CASE \E u \in stored : u.block = 0
      BY <1>2, <3>1 DEF WithGenesis
    <3>2. CASE ~\E u \in stored : u.block = 0
      <4>1. e \in heights'
        BY <1>2, <3>2 DEF WithGenesis
      <4>2. Unique(heights') /\ HasGenesis(heights')
        BY <1>1, <1>2, WithGenesisIs
      <4>3. e.block = 0 /\ e.rules = g
        OBVIOUS
      <4> HIDE DEF e
      <4>4. RulesAt(heights', 0) = g
        BY <4>1, <4>2, <4>3, OwnRules
      <4>5. g = Genesis
        BY <4>4 DEF GetRulesAtBlock, RulesAt, Proper
      <4> QED
        BY <1>2, <4>5
    <3> QED
      BY <3>1, <3>2
  <2>2. ~tainted
    BY <1>2 DEF Proper
  <2>3. ASSUME NEW u \in H
        PROVE  u.block <= recorded + 1
    <3>1. u \in stored \/ u.block = 0
      BY DEF WithGenesis
    <3>2. CASE u \in stored
      BY <1>1, <2>2, <3>2 DEF StoredRight
    <3>3. CASE u.block = 0
      BY <1>3, <3>3
    <3> QED
      BY <3>1, <3>2, <3>3
  <2>4. \A c \in 0 .. recorded + 1 : RulesAt(H, c) = Expected(c)
    BY <1>1, <2>2 DEF StoredRight
  <2> HIDE DEF H, e
  <2>5. ASSUME NEW c \in 0 .. MaxBlock + 1,
               c <= recorded + 1 \/ (Grounded(start)' /\ c <= b)
        PROVE  GetRulesAtBlock(c)' = Expected(c)'
    <3>1. c \in Nat
      BY RulesAssumption
    <3>2. c \in 0 .. recorded + 1
      BY <1>1, <1>3, <1>5, <2>5, <3>1
    <3>3. GetRulesAtBlock(c)' = RulesAt(H, c)
      BY <2>1 DEF GetRulesAtBlock, RulesAt
    <3> QED
      BY <1>2, <2>4, <3>2, <3>3, ChainFixed
  <2>6. Through' = b
    BY <1>2 DEF Through
  <2> QED
    BY <1>2, <2>1, <2>3, <2>5, <2>6 DEF HeightsRight
<1>7. NextRight'
  <2>1. Through' = b
    BY <1>2 DEF Through
  <2>2. ASSUME Grounded(start)'
        PROVE  /\ Expected(b) = AllPatches(b) /\ ~Changed(b)
               /\ recorded + 1 >= b
    <3>1. CASE b = 0
      <4>1. Expected(0) = AllPatches(0)
        BY ExpectedIs, LastSealFirst
      <4> QED
        BY <1>3, <3>1, <4>1, UnchangedAtFirst
    <3>2. CASE recorded >= b - 1 /\ NothingPending(b)
      BY <1>1, <1>3, <3>2, NothingPendingMeans
    <3> QED
      BY <1>5, <2>2, <3>1, <3>2
  <2> QED
    BY <1>2, <2>1, <2>2, ChainFixed DEF NextRight
<1> QED
  BY <1>4, <1>6, <1>7 DEF RulesRight

LEMMA SkipKeepsRules ==
    ASSUME RulesIInv, SkipGenesisBlock
    PROVE  RulesRight'
<1>1. /\ TypeOK /\ Position
      /\ StoredRight /\ HeightsRight /\ NextRight /\ FailedRight
  BY DEF RulesIInv, RulesRight, Shape
<1>2. /\ up /\ next = 0 /\ next' = 1
      /\ chain' = chain /\ stored' = stored /\ up' = up /\ write' = write
      /\ start' = start /\ committed' = committed /\ heights' = heights
      /\ nextRules' = nextRules /\ failed' = failed /\ recorded' = recorded
      /\ tainted' = tainted
  BY DEF SkipGenesisBlock
<1>3. ~committed /\ recorded \in Nat
  BY <1>1, <1>2, RulesAssumption DEF Position, TypeOK, Block
<1>4. StoredRight'
  BY <1>1, <1>2, StoredRightKept
<1>5. Grounded(start)' <=> Grounded(start)
  BY <1>2, ChainFixed DEF Grounded
<1>6. Proper' <=> Proper
  BY <1>2 DEF Proper, GetRulesAtBlock
<1>7. Through' = 1 /\ Through = 0
  BY <1>2, <1>3 DEF Through
<1>8. HeightsRight'
  <2> SUFFICES ASSUME Proper
               PROVE  HeightsRight'
    BY <1>6 DEF HeightsRight
  <2>1. ASSUME NEW b \in 0 .. MaxBlock + 1,
               b <= recorded + 1 \/ (Grounded(start) /\ b <= 1)
        PROVE  GetRulesAtBlock(b)' = Expected(b)'
    <3>1. b \in Nat
      BY RulesAssumption
    <3>2. b <= recorded + 1
      BY <1>3, <2>1, <3>1
    <3>3. GetRulesAtBlock(b)' = GetRulesAtBlock(b)
      BY <1>2 DEF GetRulesAtBlock
    <3> QED
      BY <1>1, <1>2, <3>2, <3>3, ChainFixed DEF HeightsRight
  <2>2. ASSUME NEW u \in heights
        PROVE  u.block <= recorded + 1
    <3>1. u.block \in Nat
      BY <1>1, RulesAssumption DEF TypeOK, Update
    <3> QED
      BY <1>1, <1>3, <1>7, <3>1 DEF HeightsRight
  <2> QED
    BY <1>2, <1>5, <1>7, <2>1, <2>2 DEF HeightsRight
<1>9. NextRight'
  <2> SUFFICES ASSUME Proper
               PROVE  NextRight'
    BY <1>6 DEF NextRight
  <2>1. nextRules = NoRules
    <3>1. next <= recorded + 1
      BY <1>2, <1>3
    <3> QED
      BY <1>1, <1>2, <3>1, UnchangedAtFirst DEF NextRight
  <2>2. Expected(1) = AllPatches(1) /\ ~Changed(1)
    BY ExpectedIs, LastSealFirst, NoPatches, UnchangedAtFirst
  <2>3. recorded + 1 >= 1
    BY <1>3
  <2> QED
    BY <1>2, <1>7, <2>1, <2>2, <2>3, ChainFixed DEF NextRight
<1>10. FailedRight'
  BY <1>1, <1>2 DEF FailedRight, Position
<1> QED
  BY <1>4, <1>8, <1>9, <1>10 DEF RulesRight

(* What Record does to a replay: the blocks before its first one stay      *)
(* known, or unknown.                                                      *)
LEMMA RecordKeepsGrounded ==
    ASSUME TypeOK, NEW n \in 1 .. MaxBlock, Record(n), chain' = chain,
           start' = start
    PROVE  /\ recorded' \in Nat /\ recorded' >= recorded
           /\ Grounded(start)' <=> Grounded(start)
           /\ recorded' = recorded
              \/ (recorded' = n /\ Trusted /\ write /\ ~tainted /\ n > recorded)
           /\ Trusted /\ write /\ ~tainted => recorded' >= n
<1>1. /\ recorded \in Nat /\ n \in Nat /\ start \in Nat
  BY RulesAssumption DEF TypeOK, Block
<1>2. recorded' = IF Trusted /\ write /\ ~tainted /\ n > recorded
                  THEN n ELSE recorded
  BY DEF Record
<1>3. CASE recorded' = recorded
  <2>1. Grounded(start)' <=> Grounded(start)
    BY <1>3, ChainFixed DEF Grounded
  <2> QED
    BY <1>1, <1>2, <1>3, <2>1
<1>4. CASE Trusted /\ write /\ ~tainted /\ n > recorded
  <2>1. recorded' = n /\ Grounded(start)
    BY <1>2, <1>4 DEF Trusted
  <2>2. Grounded(start)'
    <3>1. CASE start = 0
      BY <3>1 DEF Grounded
    <3>2. CASE start # 0
      <4>1. recorded >= start - 1 /\ NothingPending(start)
        BY <2>1, <3>2 DEF Grounded
      <4>2. recorded' >= start - 1
        BY <1>1, <1>4, <2>1, <4>1
      <4>3. NothingPending(start)'
        BY <4>1, ChainFixed
      <4> QED
        BY <4>2, <4>3 DEF Grounded
    <3> QED
      BY <3>1, <3>2
  <2> QED
    BY <1>1, <1>4, <2>1, <2>2
<1> QED
  BY <1>2, <1>3, <1>4

(* A replay that writes has in its store what is in the block database. *)
LEMMA TrustedWrites ==
    ASSUME Shape, up, ~tainted, Trusted
    PROVE  Proper /\ Grounded(start)
           /\ (write => heights = WithGenesis(stored, Genesis))
BY DEF Shape, StoresMatch, Proper, Trusted

LEMMA NothingKeepsRules ==
    ASSUME RulesIInv, NothingToCommit
    PROVE  RulesRight'
<1>1. /\ Shape /\ TypeOK /\ Position /\ ChainType
      /\ StoredRight /\ HeightsRight /\ NextRight /\ FailedRight
  BY DEF RulesIInv, RulesRight, Shape, TypeOK, ChainType
<1>2. /\ up /\ next \in 1 .. MaxBlock /\ ~committed
      /\ committed' = TRUE /\ Record(next)
      /\ (chain[next].seal => nextRules = NoRules)
      /\ chain' = chain /\ stored' = stored /\ up' = up /\ write' = write
      /\ start' = start /\ next' = next /\ heights' = heights
      /\ nextRules' = nextRules /\ failed' = failed /\ tainted' = tainted
  BY DEF NothingToCommit, Committing, Pending
<1>3. next \in Nat /\ recorded \in Nat /\ MaxBlock \in Nat /\ next <= MaxBlock
  BY <1>1, <1>2, RulesAssumption DEF TypeOK, Block
<1>4. /\ recorded' \in Nat /\ recorded' >= recorded
      /\ Grounded(start)' <=> Grounded(start)
      /\ recorded' = recorded
         \/ (recorded' = next /\ Trusted /\ write /\ ~tainted /\ next > recorded)
      /\ Trusted /\ write /\ ~tainted => recorded' >= next
  BY <1>1, <1>2, RecordKeepsGrounded
<1>5. Proper' <=> Proper
  BY <1>2 DEF Proper, GetRulesAtBlock
<1>6. Through = next /\ Through' = next + 1
  BY <1>2 DEF Through
<1>7. Unique(heights) /\ HasGenesis(heights)
  BY <1>1, <1>2, UniqueHeights DEF Shape, StoresMatch
<1>8. ASSUME Proper, Grounded(start)
      PROVE  GetRulesAtBlock(next + 1) = Expected(next + 1)
  <2>1. next + 1 \in 0 .. MaxBlock + 1 /\ next \in 0 .. MaxBlock + 1
    BY <1>3
  <2>2. CASE next + 1 <= recorded + 1
    BY <1>1, <1>8, <2>1, <2>2 DEF HeightsRight
  <2>3. CASE ~(next + 1 <= recorded + 1)
    <3>1. ASSUME NEW u \in heights
          PROVE  u.block # next + 1
      <4>1. u.block <= recorded + 1 \/ u.block <= next
        BY <1>1, <1>6, <1>8 DEF HeightsRight
      <4> QED
        BY <1>3, <2>3, <4>1
    <3>2. RulesAt(heights, next + 1) = RulesAt(heights, next)
      BY <1>3, <1>7, <3>1, NoUpdate
    <3>3. GetRulesAtBlock(next) = Expected(next)
      <4>1. next <= Through
        BY <1>3, <1>6
      <4> QED
        BY <1>1, <1>8, <2>1, <4>1 DEF HeightsRight
    <3>4. Expected(next + 1) = Expected(next)
      <4>1. CASE chain[next].seal
        <5>1. Expected(next) = AllPatches(next)
          BY <1>1, <1>2, <1>8, <4>1 DEF NextRight, Sealing
        <5> QED
          BY <1>1, <1>2, <4>1, <5>1, ExpectedNext
      <4>2. CASE ~chain[next].seal
        BY <1>1, <1>2, <4>2, ExpectedNext
      <4> QED
        BY <4>1, <4>2
    <3> QED
      BY <3>2, <3>3, <3>4, GetRules
  <2> QED
    BY <2>2, <2>3
<1>9. ASSUME Proper, NEW b \in 0 .. MaxBlock + 1,
             b <= recorded' + 1 \/ (Grounded(start) /\ b <= next + 1)
      PROVE  GetRulesAtBlock(b) = Expected(b)
  <2>1. b \in Nat
    BY <1>3
  <2>2. b <= recorded + 1 \/ (Grounded(start) /\ b <= next + 1)
    BY <1>3, <1>4, <1>9, <2>1 DEF Trusted
  <2>3. CASE b <= recorded + 1 \/ (Grounded(start) /\ b <= next)
    BY <1>1, <1>6, <1>9, <2>3 DEF HeightsRight
  <2>4. CASE Grounded(start) /\ b = next + 1
    BY <1>8, <1>9, <2>4
  <2> QED
    BY <1>3, <2>1, <2>2, <2>3, <2>4
<1>10. HeightsRight'
  <2> SUFFICES ASSUME Proper
               PROVE  HeightsRight'
    BY <1>5 DEF HeightsRight
  <2>1. \A b : GetRulesAtBlock(b)' = GetRulesAtBlock(b)
    BY <1>2 DEF GetRulesAtBlock
  <2>2. ASSUME NEW u \in heights
        PROVE  u.block <= recorded' + 1 \/ u.block <= next + 1
    <3>1. u.block \in Nat
      BY <1>7, <1>3 DEF Unique, Update
    <3>2. u.block <= recorded + 1 \/ u.block <= next
      BY <1>1, <1>6 DEF HeightsRight
    <3> QED
      BY <1>3, <1>4, <3>1, <3>2
  <2> QED
    BY <1>2, <1>4, <1>6, <1>9, <2>1, <2>2, ChainFixed DEF HeightsRight
<1>11. StoredRight'
  <2>1. CASE recorded' = recorded
    BY <1>1, <1>2, <2>1, StoredRightKept
  <2>2. CASE recorded' = next /\ Trusted /\ write /\ ~tainted /\ next > recorded
    <3>1. Proper /\ Grounded(start) /\ heights = WithGenesis(stored, Genesis)
      BY <1>1, <1>2, <2>2, TrustedWrites
    <3>2. ASSUME NEW b \in 0 .. recorded' + 1
          PROVE  RulesAt(WithGenesis(stored, Genesis), b)' = Expected(b)'
      <4>1. b \in 0 .. MaxBlock + 1 /\ b <= recorded' + 1
        BY <1>3, <1>4, <2>2
      <4>2. RulesAt(heights, b) = Expected(b)
        BY <1>9, <3>1, <4>1, GetRules
      <4>3. RulesAt(WithGenesis(stored, Genesis), b)' = RulesAt(heights, b)
        BY <1>2, <3>1 DEF RulesAt, WithGenesis, Genesis
      <4> QED
        BY <1>2, <4>2, <4>3, ChainFixed
    <3>3. ASSUME NEW u \in stored
          PROVE  u.block <= recorded' + 1
      <4>1. u.block \in Nat
        BY <1>1, <1>3 DEF TypeOK, Update
      <4>2. u.block <= recorded + 1
        BY <1>1, <2>2 DEF StoredRight
      <4> QED
        BY <1>3, <1>4, <4>1, <4>2
    <3>4. ASSUME NEW n \in 1 .. recorded', chain[n].seal, Changed(n)
          PROVE  \E u \in stored : u.block = n + 1
      <4>1. CASE n <= recorded
        <5>1. n \in 1 .. recorded
          BY <1>3, <1>4, <4>1
        <5> QED
          BY <1>1, <2>2, <3>4, <5>1 DEF StoredRight
      <4>2. CASE n > recorded
        <5>1. recorded + 1 >= next
          BY <1>1, <1>6, <2>2, <3>1 DEF NextRight
        <5>2. n = next
          BY <1>3, <2>2, <4>2, <5>1
        <5>3. ~Changed(next)
          BY <1>1, <1>2, <3>1, <3>4, <5>2 DEF NextRight, Sealing
        <5> QED
          BY <3>4, <5>2, <5>3
      <4> QED
        BY <1>3, <1>4, <4>1, <4>2
    <3> QED
      BY <1>2, <3>2, <3>3, <3>4, ChainFixed DEF StoredRight
  <2> QED
    BY <1>4, <2>1, <2>2
<1>12. NextRight'
  <2> SUFFICES ASSUME Proper
               PROVE  NextRight'
    BY <1>5 DEF NextRight
  <2>1. Sealing' <=> chain[next].seal
    BY <1>2 DEF Sealing
  <2>2. (next <= recorded' + 1 \/ Grounded(start)') =>
            (next <= recorded + 1 \/ Grounded(start))
    BY <1>4 DEF Trusted
  <2>3. Grounded(start)' /\ write => recorded' + 1 >= next + 1
    <3>1. Grounded(start)' /\ write => recorded' >= next
      BY <1>4 DEF Trusted, Proper
    <3>2. \A x, y \in Nat : x >= y => x + 1 >= y + 1
      OBVIOUS
    <3>3. recorded' \in Nat /\ next \in Nat
      BY <1>3, <1>4
    <3> QED
      BY <3>1, <3>2, <3>3
  <2>4. nextRules # NoRules => ~Sealing'
    BY <1>2, <2>1
  <2>5. ~Sealing
    BY <1>2 DEF Sealing
  <2> QED
    BY <1>1, <1>2, <1>4, <1>6, <2>2, <2>3, <2>4, <2>5, ChainFixed DEF NextRight
<1>13. FailedRight'
  BY <1>1, <1>2 DEF FailedRight, Position
<1> QED
  BY <1>10, <1>11, <1>12, <1>13 DEF RulesRight

LEMMA KnownKeepsRules ==
    ASSUME RulesIInv, CommitKnown
    PROVE  RulesRight'
<1>1. /\ Shape /\ TypeOK /\ Position /\ ChainType
      /\ StoredRight /\ HeightsRight /\ NextRight /\ FailedRight
  BY DEF RulesIInv, RulesRight, Shape, TypeOK, ChainType
<1>2. /\ up /\ next \in 1 .. MaxBlock /\ ~committed
      /\ chain[next].seal /\ nextRules # NoRules /\ nextRules' = NoRules
      /\ chain' = chain /\ stored' = stored /\ write' = write
      /\ start' = start /\ next' = next /\ heights' = heights
      /\ tainted' = tainted
  BY DEF CommitKnown, Committing, Pending
<1>3. PICK u \in heights :
         /\ u.block = next + 1
         /\ committed' = (u.rules = nextRules)
         /\ failed' = (u.rules # nextRules)
         /\ up' = (u.rules = nextRules)
         /\ recorded' = recorded
            \/ (recorded' = next /\ Trusted /\ write /\ ~tainted /\ next > recorded)
  BY DEF CommitKnown, EffectiveFrom, Record
<1>4. next \in Nat /\ recorded \in Nat /\ MaxBlock \in Nat /\ next <= MaxBlock
  BY <1>1, <1>2, RulesAssumption DEF TypeOK, Block
<1>5. Unique(heights) /\ HasGenesis(heights)
  BY <1>1, <1>2, UniqueHeights DEF Shape, StoresMatch
<1>6. Proper => next <= recorded
  <2> SUFFICES ASSUME Proper
               PROVE  next <= recorded
    OBVIOUS
  <2>1. u.block <= recorded + 1 \/ u.block <= next
    BY <1>1, <1>2 DEF HeightsRight, Through
  <2> QED
    BY <1>3, <1>4, <2>1
<1>7. recorded' = recorded
  <2> SUFFICES ASSUME Trusted, ~tainted, next > recorded
               PROVE  FALSE
    BY <1>3
  <2>1. Proper
    BY <1>1, <1>2, TrustedWrites
  <2> QED
    BY <1>4, <1>6, <2>1
<1>8. Grounded(start)' <=> Grounded(start)
  BY <1>2, <1>7, ChainFixed DEF Grounded
<1>9. Proper' => Proper
  BY <1>2 DEF Proper, GetRulesAtBlock
<1>10. StoredRight'
  BY <1>1, <1>2, <1>7, StoredRightKept
<1>11. up' => Through = next /\ Through' = next + 1 /\ Sealing'
  BY <1>2, <1>3 DEF Through, Sealing
<1>12. HeightsRight'
  <2> SUFFICES ASSUME Proper', Proper, up'
               PROVE  HeightsRight'
    BY <1>9 DEF HeightsRight, Proper
  <2>1. \A b : GetRulesAtBlock(b)' = GetRulesAtBlock(b)
    BY <1>2 DEF GetRulesAtBlock
  <2>2. ASSUME NEW b \in 0 .. MaxBlock + 1,
               b <= recorded + 1 \/ (Grounded(start) /\ b <= next + 1)
        PROVE  GetRulesAtBlock(b) = Expected(b)
    <3>1. b <= recorded + 1
      BY <1>4, <1>6, <2>2
    <3> QED
      BY <1>1, <3>1 DEF HeightsRight
  <2>3. ASSUME NEW v \in heights
        PROVE  v.block <= recorded + 1 \/ v.block <= next + 1
    <3>1. v.block \in Nat
      BY <1>4, <1>5 DEF Unique, Update
    <3>2. v.block <= recorded + 1 \/ v.block <= next
      BY <1>1, <1>11 DEF HeightsRight
    <3> QED
      BY <1>4, <3>1, <3>2
  <2> QED
    BY <1>2, <1>7, <1>8, <1>11, <2>1, <2>2, <2>3, ChainFixed DEF HeightsRight
<1>13. NextRight'
  <2> SUFFICES ASSUME Proper', Proper, up'
               PROVE  NextRight'
    BY <1>9 DEF NextRight, Proper
  <2>1. recorded + 1 >= next + 1
    BY <1>4, <1>6
  <2> QED
    BY <1>2, <1>7, <1>11, <2>1 DEF NextRight
<1>14. FailedRight'
  <2> SUFFICES ASSUME failed', ~tainted, Grounded(start),
                      GetRulesAtBlock(0) = Genesis
               PROVE  FALSE
    BY <1>2, <1>8 DEF FailedRight, GetRulesAtBlock
  <2>1. Proper
    BY <1>2 DEF Proper
  <2>2. nextRules = AllPatches(next)
    BY <1>1, <1>2, <2>1 DEF NextRight
  <2>3. Expected(next + 1) = AllPatches(next)
    BY <1>1, <1>2, ExpectedNext
  <2>4. GetRulesAtBlock(next + 1) = Expected(next + 1)
    <3>1. next + 1 \in 0 .. MaxBlock + 1 /\ next + 1 <= recorded + 1
      BY <1>4, <1>6, <2>1
    <3> QED
      BY <1>1, <2>1, <3>1 DEF HeightsRight
  <2>5. RulesAt(heights, next + 1) = u.rules
    BY <1>3, <1>5, OwnRules
  <2> QED
    BY <1>3, <2>2, <2>3, <2>4, <2>5, GetRules
<1> QED
  BY <1>10, <1>12, <1>13, <1>14 DEF RulesRight

LEMMA NewKeepsRules ==
    ASSUME RulesIInv, CommitNew
    PROVE  RulesRight'
<1> DEFINE new == [block |-> next + 1, rules |-> nextRules]
<1>1. /\ Shape /\ TypeOK /\ Position /\ ChainType
      /\ StoredRight /\ HeightsRight /\ NextRight /\ FailedRight
  BY DEF RulesIInv, RulesRight, Shape, TypeOK, ChainType
<1>2. /\ heights' = heights \cup {new} /\ new.block = next + 1
      /\ Unique(heights) /\ HasGenesis(heights)
      /\ Unique(heights') /\ HasGenesis(heights')
      /\ next \in 1 .. MaxBlock
      /\ \A u \in heights : u.block # next + 1
      /\ \A b \in 0 .. next : RulesAt(heights', b) = RulesAt(heights, b)
      /\ RulesAt(heights', next + 1) = nextRules
  BY <1>1, NewUpdate
<1>3. /\ up /\ ~committed /\ chain[next].seal /\ nextRules # NoRules
      /\ up' = up /\ write' = write /\ start' = start
      /\ next' = next /\ failed' = failed /\ chain' = chain
      /\ nextRules' = NoRules /\ committed' = TRUE
      /\ tainted' = (tainted \/ (write /\ ~Trusted))
      /\ Record(next)
      /\ stored' = IF write THEN heights \cup {new} ELSE stored
  BY DEF CommitNew, Committing, Pending, WriteAll, EffectiveFrom
<1> HIDE DEF new
<1>4. next \in Nat /\ recorded \in Nat /\ MaxBlock \in Nat /\ next <= MaxBlock
  BY <1>1, <1>2, RulesAssumption DEF TypeOK, Block
<1>5. /\ recorded' \in Nat /\ recorded' >= recorded
      /\ Grounded(start)' <=> Grounded(start)
      /\ recorded' = recorded
         \/ (recorded' = next /\ Trusted /\ write /\ ~tainted /\ next > recorded)
      /\ Trusted /\ write /\ ~tainted => recorded' >= next
  BY <1>1, <1>2, <1>3, RecordKeepsGrounded
<1>6. Proper' => Proper
  <2>1. RulesAt(heights', 0) = RulesAt(heights, 0)
    BY <1>2, <1>4
  <2>2. GetRulesAtBlock(0)' = GetRulesAtBlock(0)
    BY <2>1 DEF GetRulesAtBlock, RulesAt
  <2> QED
    BY <1>3, <2>2 DEF Proper
<1>7. Through = next /\ Through' = next + 1 /\ Sealing'
  BY <1>3 DEF Through, Sealing
<1>8. Proper => next > recorded
  <2> SUFFICES ASSUME Proper, next <= recorded
               PROVE  FALSE
    BY <1>4
  <2>1. next <= recorded + 1 /\ next \in 1 .. recorded
    BY <1>2, <1>4
  <2>2. Changed(next)
    BY <1>1, <1>3, <2>1 DEF NextRight
  <2>3. \E u \in stored : u.block = next + 1
    BY <1>1, <1>3, <2>1, <2>2 DEF StoredRight, Proper
  <2> QED
    BY <1>1, <1>2, <1>3, <2>3 DEF Shape, StoresMatch
<1>9. ASSUME Proper, NEW b \in 0 .. MaxBlock + 1,
             b <= recorded' + 1 \/ (Grounded(start) /\ b <= next + 1)
      PROVE  RulesAt(heights', b) = Expected(b)
  <2>1. b \in Nat /\ next > recorded
    BY <1>4, <1>8, <1>9
  <2>2. b <= recorded + 1 \/ (Grounded(start) /\ b <= next + 1)
    BY <1>4, <1>5, <1>9, <2>1 DEF Trusted
  <2>3. CASE b <= next
    <3>1. b \in 0 .. next
      BY <1>4, <2>1, <2>3
    <3>2. b <= recorded + 1 \/ (Grounded(start) /\ b <= Through)
      BY <1>7, <2>2, <2>3
    <3>3. GetRulesAtBlock(b) = Expected(b)
      BY <1>1, <1>9, <3>2 DEF HeightsRight
    <3> QED
      BY <1>2, <3>1, <3>3, GetRules
  <2>4. CASE ~(b <= next)
    <3>1. Grounded(start) /\ b = next + 1
      BY <1>4, <2>1, <2>2, <2>4
    <3>2. nextRules = AllPatches(next)
      BY <1>1, <1>3, <1>9, <3>1 DEF NextRight
    <3> QED
      BY <1>1, <1>2, <1>3, <3>1, <3>2, ExpectedNext
  <2> QED
    BY <2>3, <2>4
<1>10. ASSUME Proper, NEW u \in heights'
       PROVE  u.block <= recorded' + 1 \/ u.block <= next + 1
  <2>1. CASE u \in heights
    <3>1. u.block \in Nat
      BY <1>2, <1>4, <2>1 DEF Unique, Update
    <3>2. u.block <= recorded + 1 \/ u.block <= next
      BY <1>1, <1>7, <1>10, <2>1 DEF HeightsRight
    <3> QED
      BY <1>4, <1>5, <3>1, <3>2
  <2>2. CASE u = new
    BY <1>2, <1>4, <2>2
  <2> QED
    BY <1>2, <2>1, <2>2
<1>11. HeightsRight'
  <2> SUFFICES ASSUME Proper
               PROVE  HeightsRight'
    BY <1>6 DEF HeightsRight
  <2>1. \A b : GetRulesAtBlock(b)' = RulesAt(heights', b)
    BY DEF GetRulesAtBlock, RulesAt
  <2> QED
    BY <1>3, <1>5, <1>7, <1>9, <1>10, <2>1, ChainFixed DEF HeightsRight
<1>12. StoredRight'
  <2> SUFFICES ASSUME ~tainted'
               PROVE  StoredRight'
    BY DEF StoredRight
  <2>1. CASE ~write
    <3>1. recorded' = recorded /\ stored' = stored /\ tainted' = tainted
      BY <1>1, <1>3, <1>5, <2>1 DEF TypeOK
    <3> QED
      BY <1>1, <1>3, <3>1, StoredRightKept
  <2>2. CASE write
    <3>1. Trusted /\ ~tainted
      BY <1>3, <2>2
    <3>2. Proper /\ Grounded(start)
      BY <1>1, <1>3, <3>1, TrustedWrites
    <3>3. next > recorded /\ recorded' = next
      <4>1. next > recorded
        BY <1>8, <3>2
      <4>2. recorded' >= next
        BY <1>5, <2>2, <3>1
      <4> QED
        BY <1>4, <1>5, <4>1, <4>2
    <3>4. stored' = heights' /\ WithGenesis(stored, Genesis)' = heights'
      BY <1>2, <1>3, <2>2 DEF WithGenesis, HasGenesis
    <3>5. ASSUME NEW b \in 0 .. recorded' + 1
          PROVE  RulesAt(WithGenesis(stored, Genesis), b)' = Expected(b)'
      <4>1. b \in 0 .. MaxBlock + 1 /\ b <= recorded' + 1
        BY <1>4, <3>3
      <4>2. RulesAt(heights', b) = Expected(b)
        BY <1>9, <3>2, <4>1
      <4>3. RulesAt(WithGenesis(stored, Genesis), b)' = RulesAt(heights', b)
        BY <3>4 DEF RulesAt
      <4> QED
        BY <1>3, <4>2, <4>3, ChainFixed
    <3>6. ASSUME NEW u \in stored'
          PROVE  u.block <= recorded' + 1
      BY <1>10, <3>2, <3>3, <3>4, <3>6
    <3>7. ASSUME NEW n \in 1 .. recorded', chain[n].seal, Changed(n)
          PROVE  \E u \in stored' : u.block = n + 1
      <4>1. CASE n <= recorded
        <5>1. n \in 1 .. recorded
          BY <1>4, <3>3, <4>1
        <5>2. \E u \in stored : u.block = n + 1
          BY <1>1, <3>1, <3>7, <5>1 DEF StoredRight
        <5> QED
          BY <1>1, <1>2, <1>3, <3>4, <5>2 DEF Shape, StoresMatch
      <4>2. CASE n > recorded
        <5>1. recorded + 1 >= next
          BY <1>1, <1>7, <2>2, <3>2 DEF NextRight
        <5>2. n = next
          BY <1>4, <3>3, <4>2, <5>1
        <5> QED
          BY <1>2, <3>4, <5>2
      <4> QED
        BY <1>4, <3>3, <4>1, <4>2
    <3> QED
      BY <1>3, <3>5, <3>6, <3>7, ChainFixed DEF StoredRight
  <2> QED
    BY <2>1, <2>2
<1>13. NextRight'
  <2> SUFFICES ASSUME Proper
               PROVE  NextRight'
    BY <1>6 DEF NextRight
  <2>1. Grounded(start)' /\ write => recorded' + 1 >= next + 1
    <3>1. Grounded(start)' /\ write => recorded' >= next
      BY <1>5 DEF Trusted, Proper
    <3>2. \A x, y \in Nat : x >= y => x + 1 >= y + 1
      OBVIOUS
    <3>3. recorded' \in Nat /\ next \in Nat
      BY <1>4, <1>5
    <3> QED
      BY <3>1, <3>2, <3>3
  <2> QED
    BY <1>3, <1>7, <2>1 DEF NextRight
<1>14. FailedRight'
  BY <1>1, <1>3 DEF FailedRight, Position
<1> QED
  BY <1>11, <1>12, <1>13, <1>14 DEF RulesRight

LEMMA ExecuteKeepsRules ==
    ASSUME RulesIInv, Execute
    PROVE  RulesRight'
<1>1. /\ Shape /\ TypeOK /\ Position /\ ChainType /\ QuietSeals
      /\ StoredRight /\ HeightsRight /\ NextRight /\ FailedRight
  BY DEF RulesIInv, RulesRight, Shape, TypeOK, ChainType
<1>2. up /\ committed /\ next \in 1 .. MaxBlock /\ ~failed
  BY <1>1 DEF Position, Execute
<1>3. /\ nextRules' = PatchRules(next, chain[next].patch)
      /\ next' = next + 1 /\ committed' = FALSE
      /\ chain' = chain /\ stored' = stored /\ up' = up /\ write' = write
      /\ start' = start /\ heights' = heights /\ failed' = failed
      /\ recorded' = recorded /\ tainted' = tainted
  BY DEF Execute
<1>4. next \in Nat /\ recorded \in Nat /\ MaxBlock \in Nat /\ next <= MaxBlock
  BY <1>1, <1>2, RulesAssumption DEF TypeOK, Block
<1>5. StoredRight' /\ FailedRight'
  BY <1>1, <1>2, <1>3, StoredRightKept DEF FailedRight
<1>6. Grounded(start)' <=> Grounded(start)
  BY <1>3, ChainFixed DEF Grounded
<1>7. Proper' <=> Proper
  BY <1>3 DEF Proper, GetRulesAtBlock
<1>8. Through' = next + 1 /\ Through = next + 1 /\ ~Sealing'
  BY <1>2, <1>3 DEF Through, Sealing
<1>9. HeightsRight'
  <2>1. \A b : GetRulesAtBlock(b)' = GetRulesAtBlock(b)
    BY <1>3 DEF GetRulesAtBlock
  <2> QED
    BY <1>1, <1>3, <1>6, <1>7, <1>8, <2>1, ChainFixed DEF HeightsRight
<1>10. NextRight'
  <2> SUFFICES ASSUME Proper
               PROVE  NextRight'
    BY <1>7 DEF NextRight
  <2> DEFINE n == next
             q == chain[n].patch
             last == IF nextRules # NoRules THEN nextRules ELSE GetRulesAtBlock(n)
             updated == UpdateRules(last, q)
  <2>1. nextRules' = IF updated # last THEN updated ELSE nextRules
    BY <1>3 DEF PatchRules
  <2>2. (n + 1 <= recorded + 1 \/ Grounded(start)) =>
           /\ n <= recorded + 1 \/ Grounded(start)
           /\ GetRulesAtBlock(n) = Expected(n)
    <3> SUFFICES ASSUME n + 1 <= recorded + 1 \/ Grounded(start)
                 PROVE  /\ n <= recorded + 1 \/ Grounded(start)
                        /\ GetRulesAtBlock(n) = Expected(n)
      OBVIOUS
    <3>1. n \in 0 .. MaxBlock + 1 /\ n <= Through
          /\ (n <= recorded + 1 \/ Grounded(start))
      BY <1>4, <1>8
    <3> QED
      BY <1>1, <3>1 DEF HeightsRight
  <2>3. Sealing <=> chain[n].seal
    BY <1>2 DEF Sealing
  <2>4. ASSUME n + 1 <= recorded + 1 \/ Grounded(start), nextRules' # NoRules
        PROVE  Changed(n + 1)
    <3>1. CASE nextRules # NoRules
      <4>1. Changed(n) /\ ~chain[n].seal
        BY <1>1, <2>2, <2>3, <2>4, <3>1 DEF NextRight
      <4> QED
        BY <1>1, <1>2, <4>1, ChangedNext
    <3>2. CASE nextRules = NoRules
      <4>1. last = Expected(n)
        BY <2>2, <2>4, <3>2
      <4>2. updated # last
        BY <2>1, <2>4, <3>2
      <4>3. Changes(n, n)
        BY <1>1, <1>2, <4>1, <4>2, PatchChanges
      <4>4. ~chain[n].seal
        BY <1>1, <1>2, <4>3 DEF QuietSeals, Changes
      <4> QED
        BY <1>1, <1>2, <4>3, <4>4, ChangedNext
    <3> QED
      BY <3>1, <3>2
  <2>5. ASSUME Grounded(start)
        PROVE  /\ nextRules' # NoRules => nextRules' = AllPatches(n + 1)
               /\ nextRules' = NoRules =>
                     Expected(n + 1) = AllPatches(n + 1) /\ ~Changed(n + 1)
    <3>1. AllPatches(n + 1) = UpdateRules(AllPatches(n), q)
      BY <1>1, <1>2, AllPatchesNext
    <3>2. CASE chain[n].seal
      <4>1. nextRules = NoRules
        BY <1>1, <2>3, <2>5, <3>2 DEF NextRight
      <4>2. ~Changes(n, n)
        BY <1>1, <1>2, <3>2 DEF QuietSeals, Changes
      <4>3. last = Expected(n)
        BY <2>2, <2>5, <4>1
      <4>4. updated = last
        BY <1>1, <1>2, <4>2, <4>3, PatchChanges
      <4>5. nextRules' = NoRules
        BY <2>1, <4>1, <4>4
      <4>6. Expected(n + 1) = AllPatches(n)
        BY <1>1, <1>2, <3>2, ExpectedNext
      <4>7. AllPatches(n + 1) = AllPatches(n)
        <5>1. DOMAIN q = {}
          BY <1>1, <1>2, <3>2 DEF QuietSeals
        <5> QED
          BY <3>1, <5>1 DEF UpdateRules, AllPatches
      <4>8. ~Changed(n + 1)
        BY <1>1, <1>2, <3>2, UnchangedAfterSeal
      <4> QED
        BY <4>5, <4>6, <4>7, <4>8
    <3>3. CASE ~chain[n].seal /\ nextRules # NoRules
      <4>1. nextRules = AllPatches(n) /\ last = nextRules
        BY <1>1, <2>5, <3>3 DEF NextRight
      <4>2. updated = AllPatches(n + 1)
        BY <3>1, <4>1
      <4>3. nextRules' = AllPatches(n + 1)
        BY <2>1, <4>1, <4>2
      <4>4. AllPatches(n + 1) # NoRules
        <5>1. n + 1 \in Nat
          BY <1>4
        <5> QED
          BY <1>1, <5>1, AllPatchesType, NoRulesIsNone
      <4> QED
        BY <4>3, <4>4
    <3>4. CASE ~chain[n].seal /\ nextRules = NoRules
      <4>1. Expected(n) = AllPatches(n) /\ ~Changed(n)
        BY <1>1, <2>3, <2>5, <3>4 DEF NextRight
      <4>2. last = AllPatches(n) /\ last = Expected(n)
        BY <2>2, <2>5, <3>4, <4>1
      <4>3. updated = AllPatches(n + 1)
        BY <3>1, <4>2
      <4>4. CASE updated # last
        <5>1. nextRules' = AllPatches(n + 1)
          BY <2>1, <4>3, <4>4
        <5>2. AllPatches(n + 1) # NoRules
          <6>1. n + 1 \in Nat
            BY <1>4
          <6> QED
            BY <1>1, <6>1, AllPatchesType, NoRulesIsNone
        <5> QED
          BY <5>1, <5>2
      <4>5. CASE updated = last
        <5>1. nextRules' = NoRules
          BY <2>1, <3>4, <4>5
        <5>2. ~Changes(n, n)
          BY <1>1, <1>2, <4>2, <4>5, PatchChanges
        <5>3. ~Changed(n + 1)
          BY <1>1, <1>2, <3>4, <4>1, <5>2, ChangedNext
        <5>4. Expected(n + 1) = Expected(n)
          BY <1>1, <1>2, <3>4, ExpectedNext
        <5> QED
          BY <4>2, <4>3, <4>5, <5>1, <5>3, <5>4
      <4> QED
        BY <4>4, <4>5
    <3> QED
      BY <3>2, <3>3, <3>4
  <2>6. Grounded(start) /\ write => recorded + 1 >= n + 1
    BY <1>1, <1>8 DEF NextRight
  <2> QED
    BY <1>3, <1>6, <1>8, <2>4, <2>5, <2>6, ChainFixed DEF NextRight
<1> QED
  BY <1>5, <1>9, <1>10 DEF RulesRight

LEMMA StopKeepsRules ==
    ASSUME RulesIInv, Stop
    PROVE  RulesRight'
<1>1. StoredRight'
  BY StoredRightKept DEF RulesIInv, RulesRight, Stop
<1>2. HeightsRight' /\ NextRight'
  BY DEF Stop, HeightsRight, NextRight, Proper
<1>3. FailedRight'
  BY DEF RulesIInv, Shape, Position, Stop, FailedRight
<1> QED
  BY <1>1, <1>2, <1>3 DEF RulesRight

LEMMA RulesUnchanged ==
    ASSUME RulesIInv, UNCHANGED vars
    PROVE  RulesRight'
<1>1. /\ chain' = chain /\ stored' = stored /\ up' = up /\ write' = write
      /\ start' = start /\ next' = next /\ committed' = committed
      /\ heights' = heights /\ nextRules' = nextRules /\ failed' = failed
      /\ recorded' = recorded /\ tainted' = tainted
  BY DEF vars, proc
<1>2. StoredRight'
  BY <1>1, StoredRightKept DEF RulesIInv, RulesRight
<1>3. Grounded(start)' <=> Grounded(start)
  BY <1>1, ChainFixed DEF Grounded
<1>4. \A b : GetRulesAtBlock(b)' = GetRulesAtBlock(b)
  BY <1>1 DEF GetRulesAtBlock
<1>5. Through' = Through /\ (Sealing' <=> Sealing) /\ (Proper' <=> Proper)
  BY <1>1, <1>4 DEF Through, Sealing, Proper
<1>6. HeightsRight' /\ NextRight' /\ FailedRight'
  BY <1>1, <1>3, <1>4, <1>5, ChainFixed
  DEF RulesIInv, RulesRight, HeightsRight, NextRight, FailedRight
<1> QED
  BY <1>2, <1>6 DEF RulesRight

LEMMA RulesStep ==
    ASSUME RulesIInv, [Next]_vars
    PROVE  RulesIInv'
<1>1. Shape'
  BY ShapeStep DEF RulesIInv
<1>2. QuietSeals'
  <2>1. chain' = chain
    BY DEF Next, vars, Start, SkipGenesisBlock, NothingToCommit, CommitKnown,
       CommitNew, Execute, Stop
  <2> QED
    BY <2>1 DEF RulesIInv, QuietSeals
<1>3. ASSUME NEW b \in Block, NEW w \in BOOLEAN,
             NEW g \in {Genesis, OtherGenesis}, Start(b, w, g)
      PROVE  RulesRight'
  BY <1>3, StartKeepsRules
<1>4. RulesRight'
  BY <1>3, RulesUnchanged, SkipKeepsRules, NothingKeepsRules, KnownKeepsRules,
     NewKeepsRules, ExecuteKeepsRules, StopKeepsRules DEF Next
<1> QED
  BY <1>1, <1>2, <1>4 DEF RulesIInv

(* For every chain in which the blocks that seal epochs do not patch the   *)
(* rules, and every sequence of replays on one block database, complete,   *)
(* cut off or from the middle: every block is executed with the rules the  *)
(* chain gives it, and no replay between epochs is refused (CommitRules,   *)
(* PatchRules, GetRulesAtBlock and NewBlockDBMetadataStore together).      *)
THEOREM RulesAlwaysOfTheChain ==
    ASSUME ~SealPatches
    PROVE  Spec => []RulesOfTheChain
<1>1. Init => RulesIInv
  BY InitRulesIInv
<1>2. RulesIInv /\ [Next]_vars => RulesIInv'
  BY RulesStep
<1> QED
  BY <1>1, <1>2, RulesIInvImplies, PTL DEF Spec
=============================================================================
