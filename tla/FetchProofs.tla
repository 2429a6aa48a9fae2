----------------------------- MODULE FetchProofs -----------------------------
(***************************************************************************)
(* Proof that a fetch that succeeds has fetched everything it was asked    *)
(* for, and that it leaves no holes behind it when it does not, for any    *)
(* number of blocks, any channel size and any behaviour of the server; and *)
(* that what it copies is read as the block that was stored, whatever the  *)
(* block holds.                                                            *)
(***************************************************************************)
EXTENDS Fetch, StoredBlocks, WellFoundedInduction, TLAPS

(* What the inductive invariant adds to FilledFromBelow.  The plan: its    *)
(* ranges do not overlap and, with what is stored already, they cover the  *)
(* range asked for and no more. *)
PlanCoversRequest ==
    /\ \A r, q \in todo : r # q => Blocks(r) \cap Blocks(q) = {}
    /\ pc \in {"request", "stream", "return"} =>
          /\ to \in Number
          /\ from .. to \subseteq StoredIn(db) \cup Covered(todo)
          /\ Covered(todo) \subseteq from .. to
    /\ pc = "request" => \A r \in todo : Blocks(r) \cap StoredIn(db) = {}

(* The stream: its range is the one in hand, the lowest of those left, and *)
(* what is on its way does not exceed it. *)
StreamWithinRange ==
    /\ pc = "stream" =>
          /\ range \in todo
          /\ \A q \in todo : range[1] <= q[1]
          /\ range[1] <= range[2]
          /\ range[1] <= expected /\ expected <= range[2] + 1
          /\ \A i \in 1 .. Len(chan) : chan[i] # ReadError => chan[i][1] <= range[2]
    /\ pc # "stream" => task = "none" /\ chan = <<>>
    /\ \A r \in todo : r[1] <= r[2]

(* The command succeeds only when nothing is left to fetch. *)
SucceedsWhenDone ==
    /\ outcome # "none" => pc = "return"
    /\ pc = "return" => todo = {}

IInv ==
    TypeOK /\ FilledFromBelow /\ PlanCoversRequest /\ StreamWithinRange /\ SucceedsWhenDone

-----------------------------------------------------------------------------
(* Runs of consecutive numbers. *)

(* Among the block numbers the plan or the search for the last block looks at, *)
(* one is the smallest and one the largest. *)
LEMMA SmallestNumber ==
    ASSUME NEW T \in SUBSET Nat, T # {}
    PROVE  \E x \in T : \A y \in T : x <= y
<1>1. PICK x \in T : \A y \in T : ~ (<<y, x>> \in OpToRel(<, Nat))
  BY NatLessThanWellFounded, WFMin
<1>2. \A y \in T : ~ (y < x)
  BY <1>1 DEF OpToRel
<1>. QED
  BY <1>2

LEMMA LargestNumber ==
    ASSUME NEW m \in Nat, NEW T \in SUBSET (0 .. m), T # {}
    PROVE  \E x \in T : \A y \in T : y <= x
<1> DEFINE D == {d \in 0 .. m : (m - d) \in T}
<1>1. \A y \in T : (m - y) \in D
  OBVIOUS
<1>2. D \in SUBSET Nat /\ D # {}
  <2>1. PICK y \in T : TRUE
    OBVIOUS
  <2>2. (m - y) \in D
    BY <1>1
  <2>3. D \in SUBSET Nat
    OBVIOUS
  <2>. QED
    BY <2>2, <2>3
<1>3. PICK d \in D : \A e \in D : d <= e
  BY <1>2, SmallestNumber
<1>4. \A y \in T : y <= m - d
  BY <1>1, <1>3
<1>. QED
  BY <1>3, <1>4

(* The ranges that describe a set of block numbers cover exactly this set. *)
LEMMA CoveredCanonical ==
    ASSUME NEW m \in Nat, NEW U \in SUBSET (0 .. m)
    PROVE  Covered(Canonical(U)) = U
<1>1. Covered(Canonical(U)) \subseteq U
  BY DEF Covered, Canonical, IsRun, Blocks
<1>2. ASSUME NEW n \in U
      PROVE  n \in Covered(Canonical(U))
  <2> DEFINE S == {s \in 0 .. n : s .. n \subseteq U}
             E == {e \in 0 .. m : n <= e /\ n .. e \subseteq U}
  <2>1. n \in S /\ n \in E /\ S \in SUBSET Nat
    OBVIOUS
  <2>2. PICK s \in S : \A x \in S : s <= x
    BY <2>1, SmallestNumber
  <2>3. PICK e \in E : \A x \in E : x <= e
    BY <2>1, LargestNumber
  <2>4. s .. e \subseteq U /\ s <= n /\ n <= e /\ s \in U /\ e \in U
    <3>1. \A k \in s .. e : k \in s .. n \/ k \in n .. e
      BY <2>2, <2>3
    <3>. QED
      BY <2>2, <2>3, <3>1
  <2>5. (s - 1) \notin U
    <3> SUFFICES ASSUME (s - 1) \in U PROVE FALSE
      OBVIOUS
    <3>1. \A k \in (s - 1) .. n : k = s - 1 \/ k \in s .. n
      BY <2>2
    <3>2. (s - 1) \in S
      BY <2>2, <3>1
    <3>. QED
      BY <2>2, <3>2
  <2>6. (e + 1) \notin U
    <3> SUFFICES ASSUME (e + 1) \in U PROVE FALSE
      OBVIOUS
    <3>1. \A k \in n .. (e + 1) : k = e + 1 \/ k \in n .. e
      BY <2>3
    <3>2. (e + 1) \in E
      BY <2>3, <3>1
    <3>. QED
      BY <2>3, <3>2
  <2>7. <<s, e>> \in Canonical(U) /\ n \in Blocks(<<s, e>>)
    BY <2>2, <2>3, <2>4, <2>5, <2>6 DEF Canonical, IsRun, Blocks
  <2>. QED
    BY <2>7 DEF Covered
<1>. QED
  BY <1>1, <1>2

(* Two ranges that describe a set of block numbers have no number in common. *)
LEMMA CanonicalDisjoint ==
    ASSUME NEW U \in SUBSET Nat, NEW r \in Canonical(U), NEW q \in Canonical(U), r # q
    PROVE  Blocks(r) \cap Blocks(q) = {}
<1> SUFFICES ASSUME NEW n \in Blocks(r), n \in Blocks(q) PROVE FALSE
  OBVIOUS
<1>1. /\ r \in Nat \X Nat /\ q \in Nat \X Nat
      /\ r[1] .. r[2] \subseteq U /\ q[1] .. q[2] \subseteq U
      /\ r[1] - 1 \notin U /\ q[1] - 1 \notin U /\ r[2] + 1 \notin U /\ q[2] + 1 \notin U
  BY DEF Canonical, IsRun
<1>2. n \in Int /\ r[1] <= n /\ n <= r[2] /\ q[1] <= n /\ n <= q[2]
  BY <1>1 DEF Blocks
<1>3. r[1] = q[1]
  <2>1. CASE r[1] < q[1]
    <3>1. q[1] - 1 \in r[1] .. r[2]
      BY <1>1, <1>2, <2>1
    <3>. QED
      BY <1>1, <3>1
  <2>2. CASE q[1] < r[1]
    <3>1. r[1] - 1 \in q[1] .. q[2]
      BY <1>1, <1>2, <2>2
    <3>. QED
      BY <1>1, <3>1
  <2>. QED
    BY <1>1, <2>1, <2>2
<1>4. r[2] = q[2]
  <2>1. CASE r[2] < q[2]
    <3>1. r[2] + 1 \in q[1] .. q[2]
      BY <1>1, <1>2, <2>1
    <3>. QED
      BY <1>1, <3>1
  <2>2. CASE q[2] < r[2]
    <3>1. q[2] + 1 \in r[1] .. r[2]
      BY <1>1, <1>2, <2>2
    <3>. QED
      BY <1>1, <3>1
  <2>. QED
    BY <1>1, <2>1, <2>2
<1>. QED
  BY <1>1, <1>3, <1>4

(* subtract_ranges leaves what is asked for and not stored, as ranges that *)
(* do not overlap. *)
LEMMA PlanFacts ==
    ASSUME NEW f \in Number, NEW t \in Number, NEW local \in SUBSET Number
    PROVE  LET missing == RangesToFetch(f, t, local)
           IN  /\ missing \subseteq Number \X Number
               /\ Covered(missing) = (f .. t) \ local
               /\ \A r \in missing : r[1] <= r[2] /\ Blocks(r) \cap local = {}
               /\ \A r, q \in missing : r # q => Blocks(r) \cap Blocks(q) = {}
<1> DEFINE U == (f .. t) \ local
<1>1. MaxBlock \in Nat /\ Number = 0 .. MaxBlock
  BY FetchAssumption DEF Number
<1>2. U \in SUBSET Number
  BY <1>1
<1>3. Covered(Canonical(local)) = local
  BY <1>1, CoveredCanonical
<1>4. RangesToFetch(f, t, local) = Canonical(U)
  BY <1>3 DEF RangesToFetch, SubtractRanges, Blocks
<1>5. Covered(Canonical(U)) = U
  BY <1>1, <1>2, CoveredCanonical
<1>6. Canonical(U) \subseteq Number \X Number
  BY <1>2 DEF Canonical
<1>7. ASSUME NEW r \in Canonical(U)
      PROVE  r[1] <= r[2] /\ Blocks(r) \cap local = {}
  BY <1>7 DEF Canonical, IsRun, Blocks
<1>8. \A r, q \in Canonical(U) : r # q => Blocks(r) \cap Blocks(q) = {}
  BY <1>1, <1>2, CanonicalDisjoint
<1>. QED
  BY <1>4, <1>5, <1>6, <1>7, <1>8

(* The last block of the server, which the fetch goes up to by default. *)
LEMMA LastBlockExists ==
    ASSUME NEW blocks \in Contents, StoredIn(blocks) # {}
    PROVE  (CHOOSE n \in StoredIn(blocks) : \A m \in StoredIn(blocks) : m <= n) \in Number
<1>1. StoredIn(blocks) \in SUBSET (0 .. MaxBlock)
  BY DEF StoredIn, Number
<1>2. \E n \in StoredIn(blocks) : \A m \in StoredIn(blocks) : m <= n
  BY <1>1, LargestNumber, FetchAssumption
<1>. QED
  BY <1>1, <1>2 DEF Number

(* expected_block - 1 wraps at zero to a number no block has, so comparing *)
(* it with the end of the range tells whether everything has arrived.      *)
LEMMA LastReceivedIsLast ==
    ASSUME TypeOK, LastReceived = range[2]
    PROVE  expected = range[2] + 1
<1>1. /\ expected \in Int /\ range[2] \in Int
      /\ 0 <= expected /\ expected <= MaxBlock + 1 /\ range[2] <= MaxBlock
      /\ MaxBlock \in Nat /\ U64Max \in Nat /\ MaxBlock < U64Max
  BY FetchAssumption DEF TypeOK, Number
<1>2. CASE expected = 0
  <2>1. (0 - 1) % (U64Max + 1) = U64Max
    BY <1>1
  <2>. QED
    BY <1>1, <1>2, <2>1 DEF LastReceived
<1>3. CASE expected > 0
  <2>1. (expected - 1) % (U64Max + 1) = expected - 1
    BY <1>1, <1>3
  <2>. QED
    BY <1>1, <1>3, <2>1 DEF LastReceived
<1>. QED
  BY <1>1, <1>2, <1>3

-----------------------------------------------------------------------------
(* A step of the server keeps the invariant if it keeps the types and puts *)
(* nothing beyond the range into the channel.                              *)
LEMMA ServerStepKeepsIInv ==
    ASSUME IInv, UNCHANGED client, TypeOK',
           \A i \in 1 .. Len(chan') :
              \/ chan'[i] = ReadError
              \/ chan'[i][1] <= range[2]
              \/ \E j \in 1 .. Len(chan) : chan'[i] = chan[j],
           pc # "stream" => task' = "none" /\ chan' = <<>>
    PROVE  IInv'
<1>1. FilledFromBelow'
  BY DEF IInv, FilledFromBelow, client
<1>2. PlanCoversRequest'
  BY DEF IInv, PlanCoversRequest, client
<1>3. StreamWithinRange'
  BY DEF IInv, StreamWithinRange, client
<1>4. SucceedsWhenDone'
  BY DEF IInv, SucceedsWhenDone, client
<1>. QED
  BY <1>1, <1>2, <1>3, <1>4 DEF IInv

(* The command may end at any time: it leaves its blocks and nothing else. *)
LEMMA ExitKeepsIInv ==
    ASSUME IInv, Exit
    PROVE  IInv'
<1>1. TypeOK'
  BY FetchAssumption DEF IInv, TypeOK, Exit, DropStream, NoRange, Number, Contents, Empty
<1>2. FilledFromBelow' /\ PlanCoversRequest' /\ StreamWithinRange' /\ SucceedsWhenDone'
  BY DEF Exit, DropStream, FilledFromBelow, PlanCoversRequest, StreamWithinRange, SucceedsWhenDone
<1>. QED
  BY <1>1, <1>2 DEF IInv

LEMMA ServerKeepsIInv ==
    ASSUME IInv,
           \/ \E p \in Payload : RemoteGrows(p)
           \/ ServerStops
           \/ \E lo, hi \in Number : ServerStarts(lo, hi)
           \/ ServerTask
    PROVE  IInv'
<1> USE DEF IInv
<1>0. TypeOK /\ StreamWithinRange
  OBVIOUS
<1>e. Empty \in Contents
  BY DEF Empty, Contents
<1>1. ASSUME NEW p \in Payload, RemoteGrows(p)
      PROVE  IInv'
  <2>1. TypeOK'
    BY <1>0, <1>1 DEF RemoteGrows, client, stream, TypeOK, Contents
  <2>. QED
    BY <1>0, <1>1, <2>1, ServerStepKeepsIInv DEF RemoteGrows, stream, StreamWithinRange
<1>2. CASE ServerStops
  <2>1. /\ chan' \in Seq((Number \X Payload) \cup {ReadError})
        /\ Len(chan') <= Len(chan)
        /\ \A i \in 1 .. Len(chan') : chan'[i] = chan[i]
    <3>1. CASE chan' = chan
      BY <1>0, <3>1 DEF TypeOK
    <3>2. ASSUME NEW k \in 0 .. Len(chan), chan' = SubSeq(chan, 1, k)
          PROVE  /\ chan' \in Seq((Number \X Payload) \cup {ReadError})
                 /\ Len(chan') <= Len(chan)
                 /\ \A i \in 1 .. Len(chan') : chan'[i] = chan[i]
      BY <1>0, <3>2 DEF TypeOK
    <3>. QED
      BY <1>2, <3>1, <3>2 DEF ServerStops
  <2>2. TypeOK'
    <3>1. task' \in {"none", "spawned", "sending", "closed", "broken"}
      BY <1>0, <1>2 DEF ServerStops, TypeOK
    <3>2. Len(chan') <= ChannelSize
      BY <1>0, <2>1, FetchAssumption DEF TypeOK
    <3>. QED
      BY <1>0, <1>2, <1>e, <2>1, <3>1, <3>2 DEF ServerStops, client, TypeOK
  <2>3. pc # "stream" => task' = "none" /\ chan' = <<>>
    BY <1>0, <1>2 DEF ServerStops, StreamWithinRange
  <2>4. \A i \in 1 .. Len(chan') : \E j \in 1 .. Len(chan) : chan'[i] = chan[j]
    BY <1>0, <2>1 DEF TypeOK
  <2>. QED
    BY <1>2, <2>2, <2>3, <2>4, ServerStepKeepsIInv DEF ServerStops
<1>3. ASSUME NEW lo \in Number, NEW hi \in Number, ServerStarts(lo, hi)
      PROVE  IInv'
  <2>1. TypeOK'
    BY <1>0, <1>3 DEF ServerStarts, client, stream, TypeOK, Contents
  <2>. QED
    BY <1>0, <1>3, <2>1, ServerStepKeepsIInv DEF ServerStarts, stream, StreamWithinRange
<1>4. CASE OpenIterator
  <2>1. TypeOK'
    BY <1>0, <1>4 DEF OpenIterator, client, TypeOK, Contents
  <2>. QED
    BY <1>0, <1>4, <2>1, ServerStepKeepsIInv DEF OpenIterator, StreamWithinRange
<1>5. ASSUME NEW n \in Number, SendBlock(n)
      PROVE  IInv'
  <2>1. view[n] \in Payload
    BY <1>0, <1>5 DEF SendBlock, IsNext, StoredIn, TypeOK, Contents
  <2>2. /\ chan' \in Seq((Number \X Payload) \cup {ReadError})
        /\ Len(chan') = Len(chan) + 1
        /\ \A i \in 1 .. Len(chan) : chan'[i] = chan[i]
        /\ chan'[Len(chan) + 1] = <<n, view[n]>>
    BY <1>0, <1>5, <2>1 DEF SendBlock, TypeOK
  <2>3. TypeOK'
    BY <1>0, <1>5, <2>2, FetchAssumption DEF SendBlock, client, TypeOK, Contents
  <2>4. pc = "stream"
    BY <1>0, <1>5 DEF SendBlock, StreamWithinRange
  <2>5. \A i \in 1 .. Len(chan') :
          \/ chan'[i][1] <= range[2]
          \/ \E j \in 1 .. Len(chan) : chan'[i] = chan[j]
    BY <1>0, <1>5, <2>2 DEF SendBlock, TypeOK
  <2>. QED
    BY <1>5, <2>3, <2>4, <2>5, ServerStepKeepsIInv DEF SendBlock
<1>6. CASE EndStream
  <2>1. TypeOK'
    BY <1>0, <1>6, <1>e DEF EndStream, client, TypeOK
  <2>. QED
    BY <1>0, <1>6, <2>1, ServerStepKeepsIInv DEF EndStream, StreamWithinRange
<1>7. CASE ReadFails
  <2>1. /\ chan' \in Seq((Number \X Payload) \cup {ReadError})
        /\ Len(chan') = Len(chan) + 1
        /\ \A i \in 1 .. Len(chan) : chan'[i] = chan[i]
        /\ chan'[Len(chan) + 1] = ReadError
    BY <1>0, <1>7 DEF ReadFails, TypeOK
  <2>2. TypeOK'
    BY <1>0, <1>7, <1>e, <2>1, FetchAssumption DEF ReadFails, client, TypeOK
  <2>3. pc = "stream"
    BY <1>0, <1>7 DEF ReadFails, StreamWithinRange
  <2>4. \A i \in 1 .. Len(chan') :
          \/ chan'[i] = ReadError
          \/ \E j \in 1 .. Len(chan) : chan'[i] = chan[j]
    BY <1>0, <2>1 DEF TypeOK
  <2>. QED
    BY <1>7, <2>2, <2>3, <2>4, ServerStepKeepsIInv DEF ReadFails
<1>. QED
  BY <1>1, <1>2, <1>3, <1>4, <1>5, <1>6, <1>7 DEF ServerTask

(* fetch_block_range after the answer to `list`: what is planned and what is *)
(* stored cover the request.                                               *)
LEMMA ListKeepsIInv ==
    ASSUME IInv, List
    PROVE  IInv'
<1> DEFINE upTo == IF to = Last
                   THEN CHOOSE n \in StoredIn(remote) :
                            \A m \in StoredIn(remote) : m <= n
                   ELSE to
           missing == RangesToFetch(from, upTo, StoredIn(db))
<1>0. TypeOK /\ StreamWithinRange /\ pc = "list" /\ task = "none" /\ chan = <<>>
  BY DEF IInv, List, StreamWithinRange
<1>1. upTo \in Number
  BY <1>0, LastBlockExists DEF List, TypeOK
<1>2. /\ to' = upTo /\ todo' = missing
      /\ UNCHANGED <<db, from, range, expected, remote, up, stream>>
      /\ IF missing = {} THEN pc' = "return" /\ outcome' = "nothing"
                         ELSE pc' = "request" /\ outcome' = "none"
  BY DEF List
<1> HIDE DEF upTo
<1>3. from \in Number /\ StoredIn(db) \in SUBSET Number
  BY <1>0 DEF TypeOK, StoredIn
<1>4. /\ missing \subseteq Number \X Number
      /\ Covered(missing) = (from .. upTo) \ StoredIn(db)
      /\ \A r \in missing : r[1] <= r[2] /\ Blocks(r) \cap StoredIn(db) = {}
      /\ \A r, q \in missing : r # q => Blocks(r) \cap Blocks(q) = {}
  BY <1>1, <1>3, PlanFacts
<1> HIDE DEF missing
<1>5. TypeOK'
  BY <1>0, <1>1, <1>2, <1>4 DEF TypeOK, stream
<1>6. FilledFromBelow'
  BY <1>2, <1>4 DEF FilledFromBelow
<1>7. PlanCoversRequest'
  <2>1. /\ from .. upTo \subseteq StoredIn(db) \cup Covered(missing)
        /\ Covered(missing) \subseteq from .. upTo
    BY <1>4
  <2>. QED
    BY <1>1, <1>2, <1>4, <2>1 DEF PlanCoversRequest
<1>8. StreamWithinRange'
  BY <1>0, <1>2, <1>4 DEF StreamWithinRange, stream
<1>9. SucceedsWhenDone'
  BY <1>2 DEF SucceedsWhenDone
<1>. QED
  BY <1>5, <1>6, <1>7, <1>8, <1>9 DEF IInv

(* client.get_block_range: the first range left becomes the one in hand. *)
LEMMA GetBlockRangeKeepsIInv ==
    ASSUME IInv, NEW r \in todo, GetBlockRange(r)
    PROVE  IInv'
<1>0. TypeOK /\ PlanCoversRequest /\ StreamWithinRange /\ pc = "request"
  BY DEF IInv, GetBlockRange
<1>1. r \in Number \X Number /\ r[1] <= r[2] /\ Blocks(r) \cap StoredIn(db) = {}
  BY <1>0 DEF TypeOK, PlanCoversRequest, StreamWithinRange
<1>2. /\ pc' = "stream" /\ range' = r /\ expected' = r[1] /\ task' = "spawned"
      /\ view' = Empty /\ chan' = <<>>
      /\ \A q \in todo : r[1] <= q[1]
      /\ UNCHANGED <<db, from, to, todo, outcome, remote, up>>
  BY DEF GetBlockRange
<1>3. Empty \in Contents
  BY DEF Empty, Contents
<1>4. TypeOK'
  BY <1>0, <1>1, <1>2, <1>3, FetchAssumption DEF TypeOK, Number
<1>5. FilledFromBelow'
  <2>1. \A n \in Blocks(r) : n \in StoredIn(db) <=> n < r[1]
    BY <1>1, FetchAssumption DEF Blocks, Number
  <2>2. \A q \in todo : Blocks(q) \cap StoredIn(db) = {}
    BY <1>0 DEF PlanCoversRequest
  <2>. QED
    BY <1>2, <2>1, <2>2 DEF FilledFromBelow
<1>6. PlanCoversRequest'
  BY <1>0, <1>2 DEF PlanCoversRequest
<1>7. StreamWithinRange'
  BY <1>0, <1>1, <1>2, FetchAssumption DEF StreamWithinRange, Number
<1>8. SucceedsWhenDone'
  BY <1>0, <1>2 DEF SucceedsWhenDone, IInv
<1>. QED
  BY <1>4, <1>5, <1>6, <1>7, <1>8 DEF IInv

(* A block is stored when its number is the one expected: the range fills  *)
(* by one block, and no other range is touched.                            *)
LEMMA ReceiveBlockKeepsIInv ==
    ASSUME IInv, ReceiveBlock
    PROVE  IInv'
<1>0. TypeOK /\ FilledFromBelow /\ PlanCoversRequest /\ StreamWithinRange /\ pc = "stream"
  BY DEF IInv, ReceiveBlock
<1>1. /\ chan # <<>> /\ Head(chan) # ReadError /\ Head(chan)[1] = expected
      /\ db' = [db EXCEPT ![expected] = Head(chan)[2]]
      /\ expected' = expected + 1 /\ chan' = Tail(chan)
      /\ UNCHANGED <<pc, from, to, todo, range, outcome, remote, up, task, view>>
  BY DEF ReceiveBlock
<1>2. /\ Head(chan) = chan[1] /\ Len(chan) >= 1
      /\ Head(chan) \in Number \X Payload
      /\ chan' \in Seq((Number \X Payload) \cup {ReadError})
      /\ Len(chan') = Len(chan) - 1
      /\ \A i \in 1 .. Len(chan') : chan'[i] = chan[i + 1]
  BY <1>0, <1>1 DEF TypeOK
<1>3. /\ range \in todo /\ range[1] <= expected /\ expected <= range[2]
      /\ expected \in Number /\ range \in Number \X Number
  BY <1>0, <1>1, <1>2 DEF StreamWithinRange, TypeOK
<1>4. Head(chan)[2] # NoBlock
  BY <1>2, FetchAssumption
<1>5. db' \in Contents /\ StoredIn(db') = StoredIn(db) \cup {expected}
  BY <1>0, <1>1, <1>2, <1>3, <1>4 DEF TypeOK, Contents, StoredIn
<1>6. TypeOK'
  BY <1>0, <1>1, <1>2, <1>3, <1>5, FetchAssumption DEF TypeOK, Number
<1>7. expected \in Blocks(range)
  BY <1>3, FetchAssumption DEF Blocks, Number
<1>8. FilledFromBelow'
  <2>1. \A n \in Blocks(range) : n \in StoredIn(db') <=> n < expected + 1
    <3> SUFFICES ASSUME NEW n \in Blocks(range)
                 PROVE  n \in StoredIn(db') <=> n < expected + 1
      OBVIOUS
    <3>1. n \in StoredIn(db) <=> n < expected
      BY <1>0 DEF FilledFromBelow
    <3>2. n \in Int /\ expected \in Int
      BY <1>3, FetchAssumption DEF Blocks, Number
    <3>. QED
      BY <1>5, <3>1, <3>2
  <2>2. \A r \in todo \ {range} : Blocks(r) \cap StoredIn(db') = {}
    <3> SUFFICES ASSUME NEW r \in todo \ {range}
                 PROVE  Blocks(r) \cap StoredIn(db') = {}
      OBVIOUS
    <3>1. Blocks(r) \cap StoredIn(db) = {}
      BY <1>0 DEF FilledFromBelow
    <3>2. Blocks(r) \cap Blocks(range) = {}
      BY <1>0, <1>3 DEF PlanCoversRequest
    <3>. QED
      BY <1>5, <1>7, <3>1, <3>2
  <2>. QED
    BY <1>1, <2>1, <2>2 DEF FilledFromBelow
<1>9. PlanCoversRequest'
  BY <1>0, <1>1, <1>5 DEF PlanCoversRequest
<1>10. StreamWithinRange'
  BY <1>0, <1>1, <1>2, <1>3, FetchAssumption DEF StreamWithinRange, Number, TypeOK
<1>11. SucceedsWhenDone'
  BY <1>0, <1>1 DEF SucceedsWhenDone, IInv
<1>. QED
  BY <1>6, <1>8, <1>9, <1>10, <1>11 DEF IInv

(* The range in hand is dropped from the plan once it is stored as a whole. *)
LEMMA EndRangeKeepsIInv ==
    ASSUME IInv, EndRange
    PROVE  IInv'
<1>0. TypeOK /\ FilledFromBelow /\ PlanCoversRequest /\ StreamWithinRange /\ pc = "stream"
  BY DEF IInv, EndRange
<1>1. /\ todo' = todo \ {range}
      /\ IF todo' = {} THEN pc' = "return" /\ outcome' = "ok"
                       ELSE pc' = "request" /\ outcome' = "none"
      /\ task' = "none" /\ view' = Empty /\ chan' = <<>>
      /\ UNCHANGED <<db, from, to, range, expected, remote, up>>
  BY DEF EndRange, DropStream
<1>2. expected = range[2] + 1
  BY <1>0, LastReceivedIsLast DEF EndRange
<1>3. Blocks(range) \subseteq StoredIn(db)
  <2>1. \A n \in Blocks(range) : n < expected
    BY <1>0, <1>2, FetchAssumption DEF Blocks, TypeOK, Number
  <2>. QED
    BY <1>0, <2>1 DEF FilledFromBelow
<1>4. Empty \in Contents
  BY DEF Empty, Contents
<1>5. TypeOK'
  BY <1>0, <1>1, <1>4, FetchAssumption DEF TypeOK
<1>6. \A r \in todo' : Blocks(r) \cap StoredIn(db) = {}
  BY <1>0, <1>1 DEF FilledFromBelow
<1>7. FilledFromBelow'
  BY <1>1, <1>6 DEF FilledFromBelow
<1>8. PlanCoversRequest'
  <2>1. Covered(todo) \subseteq Blocks(range) \cup Covered(todo')
    BY <1>1 DEF Covered
  <2>2. from .. to \subseteq StoredIn(db) \cup Covered(todo')
    BY <1>0, <1>3, <2>1 DEF PlanCoversRequest
  <2>3. Covered(todo') \subseteq from .. to
    BY <1>0, <1>1 DEF PlanCoversRequest, Covered
  <2>. QED
    BY <1>0, <1>1, <1>6, <2>2, <2>3 DEF PlanCoversRequest
<1>9. StreamWithinRange'
  BY <1>0, <1>1 DEF StreamWithinRange
<1>10. SucceedsWhenDone'
  BY <1>1 DEF SucceedsWhenDone
<1>. QED
  BY <1>5, <1>7, <1>8, <1>9, <1>10 DEF IInv

LEMMA StepKeepsIInv == IInv /\ [Next]_vars => IInv'
<1> SUFFICES ASSUME IInv, [Next]_vars PROVE IInv'
  OBVIOUS
<1>1. CASE \/ \E p \in Payload : RemoteGrows(p)
           \/ ServerStops
           \/ \E lo, hi \in Number : ServerStarts(lo, hi)
           \/ ServerTask
  BY <1>1, ServerKeepsIInv
<1>2. ASSUME NEW f \in Number, NEW t \in Number \cup {Last}, Fetch(f, t)
      PROVE  IInv'
  <2>1. TypeOK'
    BY <1>2 DEF IInv, TypeOK, Fetch, stream
  <2>2. FilledFromBelow' /\ PlanCoversRequest'
    BY <1>2 DEF IInv, PlanCoversRequest, FilledFromBelow, Fetch
  <2>3. StreamWithinRange' /\ SucceedsWhenDone'
    BY <1>2 DEF IInv, StreamWithinRange, SucceedsWhenDone, Fetch, stream
  <2>. QED
    BY <2>1, <2>2, <2>3 DEF IInv
<1>3. CASE List
  BY <1>3, ListKeepsIInv
<1>4. ASSUME NEW r \in todo, GetBlockRange(r)
      PROVE  IInv'
  BY <1>4, GetBlockRangeKeepsIInv
<1>5. CASE ReceiveBlock
  BY <1>5, ReceiveBlockKeepsIInv
<1>6. CASE EndRange
  BY <1>6, EndRangeKeepsIInv
<1>7. CASE FetchFails \/ Return \/ ConnectionBreaks
  BY <1>7, ExitKeepsIInv DEF FetchFails, Return, ConnectionBreaks
<1>8. CASE UNCHANGED vars
  <2>1. TypeOK' /\ FilledFromBelow' /\ PlanCoversRequest'
    BY <1>8 DEF IInv, TypeOK, FilledFromBelow, PlanCoversRequest, vars, client, stream
  <2>2. StreamWithinRange' /\ SucceedsWhenDone'
    BY <1>8 DEF IInv, StreamWithinRange, SucceedsWhenDone, vars, client, stream
  <2>. QED
    BY <2>1, <2>2 DEF IInv
<1>. QED
  BY <1>1, <1>2, <1>3, <1>4, <1>5, <1>6, <1>7, <1>8 DEF Next, ClientSteps

LEMMA IInvAlways == Spec => []IInv
<1>1. Init => IInv
  <2> SUFFICES ASSUME Init PROVE IInv
    OBVIOUS
  <2>1. TypeOK
    BY FetchAssumption DEF Init, TypeOK, Empty, Contents, Number, NoRange
  <2>. QED
    BY <2>1 DEF Init, IInv, FilledFromBelow, PlanCoversRequest, StreamWithinRange, SucceedsWhenDone
<1>. QED
  BY <1>1, StepKeepsIInv, PTL DEF Spec

(* A fetch that succeeds has every block of the range it was asked for,    *)
(* whatever the server lost, and wherever it stopped, since it listed its  *)
(* ranges (fetch.rs:115-147): for any number of blocks.                    *)
THEOREM FetchSucceedsWithAll == Spec => []FetchedAll
<1>1. IInv => FetchedAll
  <2> SUFFICES ASSUME IInv, outcome \in {"ok", "nothing"}
               PROVE  from .. to \subseteq StoredIn(db)
    BY DEF FetchedAll
  <2>1. todo = {} /\ pc = "return"
    BY DEF IInv, SucceedsWhenDone
  <2>2. Covered(todo) = {}
    BY <2>1 DEF Covered
  <2>. QED
    BY <2>1, <2>2 DEF IInv, PlanCoversRequest
<1>. QED
  BY <1>1, IInvAlways, PTL

(* A stream fills its range from below and touches no other range, so that *)
(* a fetch that was cut short can be run again (fetch.rs:115-137).         *)
THEOREM FetchFillsFromBelow == Spec => [](TypeOK /\ FilledFromBelow)
<1>1. IInv => TypeOK /\ FilledFromBelow
  BY DEF IInv
<1>. QED
  BY <1>1, IInvAlways, PTL

-----------------------------------------------------------------------------
(* Every step of the fetch is a step of the promise, or none. *)

(* The block that is stored next has all others of the request below it    *)
(* stored: the lowest range is fetched first, and no range is left below.  *)
LEMMA BelowExpectedStored ==
    ASSUME IInv, pc = "stream"
    PROVE  \A m \in from .. to : m < expected => m \in StoredIn(db)
<1> SUFFICES ASSUME NEW m \in from .. to, m < expected, m \notin StoredIn(db)
             PROVE  FALSE
  OBVIOUS
<1>1. TypeOK /\ FilledFromBelow /\ PlanCoversRequest /\ StreamWithinRange
  BY DEF IInv
<1>2. m \in Covered(todo) /\ to \in Number
  BY <1>1 DEF PlanCoversRequest
<1>3. PICK q \in todo : m \in Blocks(q)
  BY <1>2 DEF Covered
<1>4. q # range
  BY <1>1, <1>3 DEF FilledFromBelow
<1>5. /\ range \in todo /\ range[1] <= q[1] /\ q[1] <= q[2] /\ expected <= range[2] + 1
      /\ Blocks(q) \cap Blocks(range) = {}
  BY <1>1, <1>4 DEF StreamWithinRange, PlanCoversRequest
<1>6. /\ q[1] \in Int /\ q[2] \in Int /\ range[1] \in Int /\ range[2] \in Int
      /\ expected \in Int /\ m \in Int
  BY <1>1, <1>2, FetchAssumption DEF TypeOK, Number
<1>7. q[1] \in Blocks(q) /\ q[1] \in Blocks(range)
  BY <1>3, <1>5, <1>6 DEF Blocks
<1>. QED
  BY <1>5, <1>7

LEMMA ReceiveIsPromised ==
    ASSUME IInv, ReceiveBlock
    PROVE  Promise!Next
<1>1. TypeOK /\ FilledFromBelow /\ PlanCoversRequest /\ StreamWithinRange /\ SucceedsWhenDone
  BY DEF IInv
<1>2. /\ pc = "stream" /\ chan # <<>> /\ Head(chan) # ReadError /\ Head(chan)[1] = expected
      /\ db' = [db EXCEPT ![expected] = Head(chan)[2]]
      /\ UNCHANGED <<pc, from, to, outcome>>
  BY DEF ReceiveBlock
<1>3. outcome = "none"
  BY <1>1, <1>2 DEF SucceedsWhenDone
<1>4. Head(chan) = chan[1] /\ 1 \in 1 .. Len(chan) /\ Head(chan) \in Number \X Payload
  BY <1>1, <1>2 DEF TypeOK
<1>5. /\ expected \in Number /\ Head(chan)[2] \in Payload
      /\ range[1] <= expected /\ expected <= range[2] /\ range \in todo
      /\ range \in Number \X Number
  BY <1>1, <1>2, <1>4 DEF StreamWithinRange, TypeOK
<1>6. expected \in Blocks(range) /\ to \in Number /\ from \in Number
  BY <1>1, <1>2, <1>5, FetchAssumption DEF Blocks, Number, PlanCoversRequest, TypeOK
<1>7. db[expected] = NoBlock
  <2>1. expected \notin StoredIn(db)
    BY <1>1, <1>2, <1>5, <1>6, FetchAssumption DEF FilledFromBelow, Number
  <2>. QED
    BY <1>5, <2>1 DEF StoredIn
<1>8. expected \in from .. to
  BY <1>1, <1>2, <1>5, <1>6 DEF PlanCoversRequest, Covered
<1>9. \A m \in from .. (expected - 1) : db[m] # NoBlock
  <2> SUFFICES ASSUME NEW m \in from .. (expected - 1) PROVE db[m] # NoBlock
    OBVIOUS
  <2>1. m \in from .. to /\ m < expected
    BY <1>5, <1>6, <1>8, FetchAssumption DEF Number
  <2>2. m \in StoredIn(db)
    BY <1>2, <2>1, BelowExpectedStored
  <2>. QED
    BY <2>2 DEF StoredIn
<1>10. Promise!Add(expected, Head(chan)[2])
  BY <1>2, <1>3, <1>5, <1>6, <1>7, <1>8, <1>9
     DEF Promise!Add, Promise!Running, Promise!NoRequest, Promise!Has, Promise!Number, Number
<1>. QED
  BY <1>5, <1>10 DEF Promise!Next, Promise!Number, Number

(* The answer to `list` settles the end of the request. *)
LEMMA ListIsPromised ==
    ASSUME IInv, IInv', List
    PROVE  Promise!Next
<1> DEFINE upTo == IF to = Last
                   THEN CHOOSE n \in StoredIn(remote) :
                            \A m \in StoredIn(remote) : m <= n
                   ELSE to
           missing == RangesToFetch(from, upTo, StoredIn(db))
<1>1. /\ pc = "list" /\ from <= upTo /\ to' = upTo /\ todo' = missing
      /\ UNCHANGED <<db, from>>
      /\ IF missing = {} THEN pc' = "return" /\ outcome' = "nothing"
                         ELSE pc' = "request" /\ outcome' = "none"
  BY DEF List
<1>2. to \in {Last, upTo}
  OBVIOUS
<1> HIDE DEF upTo, missing
<1>3. upTo \in Number /\ from \in Number /\ outcome = "none"
  BY <1>1 DEF IInv, TypeOK, PlanCoversRequest, SucceedsWhenDone
<1>4. ASSUME outcome' # "none"
      PROVE  \A n \in from .. upTo : db[n] # NoBlock
  <2>1. todo' = {} /\ pc' = "return"
    BY <1>1, <1>4
  <2>2. Covered(todo') = {}
    BY <2>1 DEF Covered
  <2>3. from .. upTo \subseteq StoredIn(db)
    BY <1>1, <2>1, <2>2 DEF IInv, PlanCoversRequest
  <2>. QED
    BY <2>3 DEF StoredIn
<1>5. Promise!Settle(upTo)
  BY <1>1, <1>2, <1>3, <1>4
     DEF Promise!Settle, Promise!Running, Promise!NoRequest, Promise!Has
<1>. QED
  BY <1>3, <1>5 DEF Promise!Next, Promise!Number, Number

LEMMA EndRangeIsPromised ==
    ASSUME IInv, IInv', EndRange
    PROVE  [Promise!Next]_(Promise!vars)
<1>1. /\ pc = "stream" /\ outcome = "none" /\ to \in Number
      /\ IF todo' = {} THEN pc' = "return" /\ outcome' = "ok"
                       ELSE pc' = "request" /\ outcome' = "none"
      /\ UNCHANGED <<db, from, to>>
  BY DEF EndRange, IInv, SucceedsWhenDone, PlanCoversRequest
<1>2. CASE todo' # {}
  BY <1>1, <1>2 DEF Promise!vars
<1>3. CASE todo' = {}
  <2>1. Covered(todo') = {}
    BY <1>3 DEF Covered
  <2>2. \A n \in from .. to : db[n] # NoBlock
    BY <1>1, <1>3, <2>1 DEF IInv, PlanCoversRequest, StoredIn
  <2>3. Promise!Finish
    BY <1>1, <1>3, <2>2
       DEF Promise!Finish, Promise!Running, Promise!NoRequest, Promise!Has, Promise!Number, Number
  <2>. QED
    BY <2>3 DEF Promise!Next
<1>. QED
  BY <1>2, <1>3

LEMMA StepIsPromised == IInv /\ IInv' /\ [Next]_vars => [Promise!Next]_(Promise!vars)
<1> SUFFICES ASSUME IInv, IInv', [Next]_vars PROVE [Promise!Next]_(Promise!vars)
  OBVIOUS
<1>1. CASE UNCHANGED client
  BY <1>1 DEF client, Promise!vars
<1>2. ASSUME NEW f \in Number, NEW t \in Number \cup {Last}, Fetch(f, t)
      PROVE  Promise!Next
  <2>1. /\ pc = "idle" /\ pc' = "list" /\ from' = f /\ to' = t
        /\ UNCHANGED <<db, outcome>>
    BY <1>2 DEF Fetch
  <2>2. Promise!Ask(f, t)
    BY <2>1 DEF Promise!Ask, Promise!NoRequest
  <2>. QED
    BY <1>2, <2>2 DEF Promise!Next, Promise!Number, Number
<1>3. CASE List
  BY <1>3, ListIsPromised
<1>4. ASSUME NEW r \in todo, GetBlockRange(r)
      PROVE  UNCHANGED Promise!vars
  BY <1>4 DEF GetBlockRange, Promise!vars
<1>5. CASE ReceiveBlock
  BY <1>5, ReceiveIsPromised
<1>6. CASE EndRange
  BY <1>6, EndRangeIsPromised
<1>7. CASE FetchFails \/ Return \/ ConnectionBreaks
  <2>1. pc # "idle" /\ pc' = "idle" /\ outcome' = "none" /\ UNCHANGED db
    BY <1>7 DEF FetchFails, Return, ConnectionBreaks, Exit
  <2>2. Promise!End
    BY <2>1 DEF Promise!End, Promise!NoRequest
  <2>. QED
    BY <2>2 DEF Promise!Next
<1>8. CASE \/ \E p \in Payload : RemoteGrows(p)
           \/ ServerStops
           \/ \E lo, hi \in Number : ServerStarts(lo, hi)
           \/ ServerTask
  <2>1. UNCHANGED client
    BY <1>8 DEF RemoteGrows, ServerStops, ServerStarts, ServerTask, OpenIterator,
                SendBlock, EndStream, ReadFails
  <2>. QED
    BY <1>1, <2>1
<1>. QED
  BY <1>1, <1>2, <1>3, <1>4, <1>5, <1>6, <1>7, <1>8 DEF Next, ClientSteps, vars

(* The fetch keeps its promise for any number of blocks, any channel size  *)
(* and any behaviour of the server: local blocks are only added, from      *)
(* below and only those asked for, and it succeeds when all are there      *)
(* (fetch.rs:78-147).                                                      *)
THEOREM FetchIsAsPromised == Spec => FetchKeepsPromise
<1>1. Init => Promise!Init
  BY DEF Init, Promise!Init, Promise!NoRequest, Promise!Number, Number, Empty
<1>2. IInv /\ IInv' /\ [Next]_vars => [Promise!Next]_(Promise!vars)
  BY StepIsPromised
<1>. QED
  BY <1>1, <1>2, IInvAlways, PTL DEF Spec, FetchKeepsPromise, Promise!Spec


-----------------------------------------------------------------------------
(* The blocks that a fetch copies.  The message of a value is read back as *)
(* the same value: first for what a message holds as a number, a byte      *)
(* string or an enum, then for options and lists of them, and then for     *)
(* structures, one level after the other. *)

LEMMA RadixIsLarge == Radix \in Nat /\ Radix > 4
<1>. DEFINE d == Digit
<1>1. d \in Nat /\ d > 2
  BY CodecAssumption
<1>. HIDE DEF d
<1>2. d * d \in Nat /\ d * d > 4
  BY <1>1, SMT
<1>. QED
  BY <1>2 DEF Radix, d

LEMMA LeafRoundTrip ==
    ASSUME NEW kind, NEW x, IsLeaf(kind, x)
    PROVE  LeafFromMessage(kind, LeafIntoMessage(kind, x)) = Ok(x)
<1>1. CASE kind = U256
  <2>1. kind.k = "uint" /\ ~IsNumber(kind)
    BY <1>1 DEF U256, UInt, IsNumber
  <2>2. LeafIntoMessage(kind, x) = StringOf(U256Size, x)
    BY <1>1, <2>1 DEF LeafIntoMessage
  <2>3. LeafFromMessage(kind, StringOf(U256Size, x)) = ConvertToU256(StringOf(U256Size, x))
    BY <1>1, <2>1 DEF LeafFromMessage
  <2>4. ConvertToU256(StringOf(U256Size, x)) = Ok(x)
    BY DEF ConvertToU256, ConvertToFixedSize, StringOf
  <2>. QED
    BY <2>2, <2>3, <2>4
<1>2. CASE IsNumber(kind) /\ x < Limit(kind.size)
  <2>. DEFINE l == Limit(kind.size)
  <2>1. kind # U256 /\ kind.k = "uint"
    BY <1>2 DEF IsNumber
  <2>2. x < l
    BY <1>2
  <2>3. LeafIntoMessage(kind, x) = x
    BY <1>2, <2>1 DEF LeafIntoMessage
  <2>4. LeafFromMessage(kind, x) = IF x < l THEN Ok(x) ELSE Err
    BY <1>2, <2>1 DEF LeafFromMessage
  <2>. QED
    BY <2>2, <2>3, <2>4
<1>3. CASE kind.k = "type" /\ x \in TransactionTypes
  <2>1. kind # U256 /\ ~IsNumber(kind)
    BY <1>3 DEF U256, UInt, IsNumber
  <2>2. LeafIntoMessage(kind, x) = x
    BY <1>3, <2>1 DEF LeafIntoMessage
  <2>3. LeafFromMessage(kind, x) = IF x < Radix THEN TryFromU8(x) ELSE Err
    BY <1>3, <2>1 DEF LeafFromMessage
  <2>4. x < Radix
    BY <1>3, RadixIsLarge DEF TransactionTypes
  <2>. QED
    BY <1>3, <2>2, <2>3, <2>4 DEF TryFromU8
<1>4. CASE kind.k = "fixed"
  <2>1. kind # U256 /\ ~IsNumber(kind)
    BY <1>4 DEF U256, UInt, IsNumber
  <2>2. LeafIntoMessage(kind, x) = StringOf(kind.size, x)
    BY <1>4, <2>1 DEF LeafIntoMessage
  <2>3. LeafFromMessage(kind, StringOf(kind.size, x)) = ConvertToFixedSize(kind.size, StringOf(kind.size, x))
    BY <1>4, <2>1 DEF LeafFromMessage
  <2>. QED
    BY <2>2, <2>3 DEF ConvertToFixedSize, StringOf
<1>5. CASE kind.k = "bytes"
  <2>1. kind # U256 /\ ~IsNumber(kind)
    BY <1>5 DEF U256, UInt, IsNumber
  <2>2. LeafIntoMessage(kind, x) = x
    BY <1>5, <2>1 DEF LeafIntoMessage
  <2>. QED
    BY <1>5, <2>1, <2>2 DEF LeafFromMessage
<1>6. CASE /\ kind.k = "status"
           /\ x \in {StatusOf(x.val), PostState(x.val)}
           /\ None \notin {x, PostState(StringOf(HashSize, x.val))}
  <2>1. kind # U256 /\ ~IsNumber(kind)
    BY <1>6 DEF U256, UInt, IsNumber
  <2>. DEFINE y == x.val
              m == IF x.tag = "status" THEN x ELSE [x EXCEPT !.val = StringOf(HashSize, x.val)]
  <2>2. LeafIntoMessage(kind, x) = m
    BY <1>6, <2>1 DEF LeafIntoMessage
  <2>3. LeafFromMessage(kind, m) =
             IF m = None THEN Err
             ELSE IF m.tag = "status" THEN Ok(m)
             ELSE LET h == ConvertToFixedSize(HashSize, m.val)
                  IN  IF h.ok THEN Ok([m EXCEPT !.val = h.val]) ELSE Err
    BY <1>6, <2>1 DEF LeafFromMessage
  <2>4. CASE x = StatusOf(y)
    <3>1. x.tag = "status" /\ m = x
      BY <2>4 DEF StatusOf
    <3>. QED
      BY <1>6, <2>2, <2>3, <3>1
  <2>5. CASE x = PostState(y)
    <3>1. x.tag # "status" /\ x.tag = "post_state"
      BY <2>5 DEF PostState
    <3>2. m = PostState(StringOf(HashSize, y))
      BY <2>5, <3>1 DEF PostState
    <3>3. m # None /\ m.tag # "status"
      BY <1>6, <3>2 DEF PostState
    <3>4. ConvertToFixedSize(HashSize, m.val) = Ok(y)
      BY <3>2 DEF PostState, ConvertToFixedSize, StringOf
    <3>5. [m EXCEPT !.val = y] = x
      BY <3>2, <2>5 DEF PostState
    <3>6. /\ Ok(y).ok = TRUE
          /\ Ok(y).val = y
      BY DEF Ok
    <3>7. LeafFromMessage(kind, m) = Ok([m EXCEPT !.val = y])
      <4>. HIDE DEF m, y
      <4>. QED
        BY <2>3, <3>3, <3>4, <3>6
    <3>. HIDE DEF m, y
    <3>. QED
      BY <2>2, <3>5, <3>7
  <2>. QED
    BY <1>6, <2>4, <2>5
<1>7. IsNumber(kind) \/ kind = U256 \/ kind.k # "uint"
  BY DEF IsNumber
<1>. QED
  BY <1>1, <1>2, <1>3, <1>4, <1>5, <1>6, <1>7, Zenon DEF IsLeaf

LEMMA OkIsOk ==
    ASSUME NEW x
    PROVE  Ok(x).ok = TRUE /\ Ok(x).val = x
BY DEF Ok

LEMMA CollectOk ==
    ASSUME NEW results, NEW x, x = [i \in DOMAIN results |-> x[i]],
           \A i \in DOMAIN results : results[i] = Ok(x[i])
    PROVE  Collect(results) = Ok(x)
<1>1. \A i \in DOMAIN results : results[i].ok /\ results[i].val = x[i]
  BY OkIsOk
<1>2. Collect(results) = Ok([i \in DOMAIN results |-> results[i].val])
  BY <1>1 DEF Collect
<1>3. [i \in DOMAIN results |-> results[i].val] = [i \in DOMAIN results |-> x[i]]
  BY <1>1
<1>. QED
  BY <1>2, <1>3

LEMMA CollectErr ==
    ASSUME NEW results, NEW i \in DOMAIN results, ~results[i].ok
    PROVE  ~Collect(results).ok
<1>1. Collect(results) = Err
  BY DEF Collect
<1>. QED
  BY <1>1 DEF Err

LEMMA VecRoundTrip ==
    ASSUME NEW x, IsVec(x), NEW y, NEW r, DOMAIN y = DOMAIN x, DOMAIN r = DOMAIN y,
           \A i \in DOMAIN x : r[i] = Ok(x[i])
    PROVE  Collect(r) = Ok(x)
<1>1. DOMAIN x = 1 .. Len(x) /\ x = [i \in DOMAIN x |-> x[i]]
  BY DEF IsVec
<1>. QED
  BY <1>1, CollectOk

(* The message of what is there is not the absent one. *)
LEMMA PresentInMessage ==
    ASSUME NEW kind, NEW x, x # None, IsLeaf(kind, x),
           kind \in {U64, U256} \/ kind.k = "fixed"
    PROVE  LeafIntoMessage(kind, x) # None
<1>1. CASE kind = U64
  <2>1. kind.k = "uint" /\ kind # U256
    BY <1>1, CodecAssumption DEF U64, U256, UInt
  <2>2. IsNumber(kind)
    BY <2>1 DEF IsNumber
  <2>3. LeafIntoMessage(kind, x) = x
    BY <2>1, <2>2 DEF LeafIntoMessage
  <2>. QED
    BY <2>3
<1>2. CASE kind = U256
  <2>1. kind.k = "uint" /\ kind.size = U256Size /\ ~IsNumber(kind)
    BY <1>2 DEF U256, UInt, IsNumber
  <2>2. StringOf(U256Size, x) # None
    BY <2>1 DEF IsLeaf, IsString
  <2>3. LeafIntoMessage(kind, x) = StringOf(U256Size, x)
    BY <1>2, <2>1 DEF LeafIntoMessage
  <2>. QED
    BY <2>2, <2>3
<1>3. CASE kind.k = "fixed"
  <2>1. kind # U256 /\ ~IsNumber(kind)
    BY <1>3 DEF U256, UInt, IsNumber
  <2>2. StringOf(kind.size, x) # None
    BY <1>3 DEF IsLeaf, IsString
  <2>3. LeafIntoMessage(kind, x) = StringOf(kind.size, x)
    BY <1>3, <2>1 DEF LeafIntoMessage
  <2>. QED
    BY <2>2, <2>3
<1>. QED
  BY <1>1, <1>2, <1>3

LEMMA FieldRoundTrip ==
    ASSUME NEW kind, NEW x, IsField(kind, x)
    PROVE  FieldFromMessage(kind, FieldIntoMessage(kind, x)) = Ok(x)
<1>1. CASE kind.k = "option"
  <2>1. CASE x = None
    <3>1. FieldIntoMessage(kind, x) = None
      BY <1>1, <2>1 DEF FieldIntoMessage
    <3>2. FieldFromMessage(kind, None) = Ok(None)
      BY <1>1 DEF FieldFromMessage
    <3>. QED
      BY <2>1, <3>1, <3>2
  <2>2. CASE x # None
    <3>1. (kind.of \in {U64, U256} \/ kind.of.k = "fixed") /\ IsLeaf(kind.of, x)
      BY <1>1, <2>2, Zenon DEF IsField, IsLeaf
    <3>2. FieldIntoMessage(kind, x) = LeafIntoMessage(kind.of, x)
      BY <1>1, <2>2 DEF FieldIntoMessage
    <3>3. LeafIntoMessage(kind.of, x) # None
      BY <2>2, <3>1, PresentInMessage
    <3>4. FieldFromMessage(kind, LeafIntoMessage(kind.of, x)) = LeafFromMessage(kind.of, LeafIntoMessage(kind.of, x))
      BY <1>1, <3>3 DEF FieldFromMessage
    <3>. QED
      BY <3>1, <3>2, <3>4, LeafRoundTrip
  <2>. QED
    BY <2>1, <2>2
<1>2. CASE kind.k = "list"
  <2>. DEFINE y == [i \in DOMAIN x |-> LeafIntoMessage(kind.of, x[i])]
              r == [i \in DOMAIN y |-> LeafFromMessage(kind.of, y[i])]
  <2>1. IsVec(x) /\ \A i \in DOMAIN x : IsLeaf(kind.of, x[i])
    BY <1>2, Zenon DEF IsField, IsLeaf
  <2>2. FieldIntoMessage(kind, x) = y
    BY <1>2 DEF FieldIntoMessage
  <2>3. FieldFromMessage(kind, y) = Collect(r)
    BY <1>2 DEF FieldFromMessage
  <2>4. \A i \in DOMAIN x : r[i] = Ok(x[i])
    BY <2>1, LeafRoundTrip
  <2>5. Collect(r) = Ok(x)
    BY <2>1, <2>4, VecRoundTrip
  <2>. QED
    BY <2>2, <2>3, <2>5
<1>3. CASE kind.k \notin {"option", "list"}
  <2>1. IsLeaf(kind, x)
    BY <1>3 DEF IsField
  <2>2. FieldIntoMessage(kind, x) = LeafIntoMessage(kind, x)
    BY <1>3 DEF FieldIntoMessage
  <2>3. FieldFromMessage(kind, LeafIntoMessage(kind, x)) = LeafFromMessage(kind, LeafIntoMessage(kind, x))
    BY <1>3 DEF FieldFromMessage
  <2>. QED
    BY <2>1, <2>2, <2>3, LeafRoundTrip
<1>. QED
  BY <1>1, <1>2, <1>3

LEMMA FlatRoundTrip ==
    ASSUME NEW kind, NEW x, IsFlat(kind, x)
    PROVE  FlatFromMessage(kind, FlatIntoMessage(kind, x)) = Ok(x)
<1>. DEFINE y == [f \in DOMAIN kind.fields |-> FieldIntoMessage(kind.fields[f], x[f])]
            r == [f \in DOMAIN kind.fields |-> FieldFromMessage(kind.fields[f], y[f])]
<1>1. FlatIntoMessage(kind, x) = y
  BY DEF FlatIntoMessage
<1>2. FlatFromMessage(kind, y) = Collect(r)
  BY DEF FlatFromMessage
<1>3. \A f \in DOMAIN kind.fields : r[f] = Ok(x[f])
  BY FieldRoundTrip DEF IsFlat
<1>4. x = [f \in DOMAIN r |-> x[f]]
  BY DEF IsFlat, HasFields
<1>5. Collect(r) = Ok(x)
  BY <1>3, <1>4, CollectOk
<1>. QED
  BY <1>1, <1>2, <1>5

LEMMA NestedFieldRoundTrip ==
    ASSUME NEW kind, NEW x, IsNestedField(kind, x)
    PROVE  NestedFieldFromMessage(kind, NestedFieldIntoMessage(kind, x)) = Ok(x)
<1>1. CASE HoldsStructs(kind)
  <2>. DEFINE y == [i \in DOMAIN x |-> FlatIntoMessage(kind.of, x[i])]
              r == [i \in DOMAIN y |-> FlatFromMessage(kind.of, y[i])]
  <2>1. IsVec(x) /\ \A i \in DOMAIN x : IsFlat(kind.of, x[i])
    BY <1>1 DEF IsNestedField
  <2>2. NestedFieldIntoMessage(kind, x) = y
    BY <1>1 DEF NestedFieldIntoMessage
  <2>3. NestedFieldFromMessage(kind, y) = Collect(r)
    BY <1>1 DEF NestedFieldFromMessage
  <2>4. \A i \in DOMAIN x : r[i] = Ok(x[i])
    BY <2>1, FlatRoundTrip
  <2>5. Collect(r) = Ok(x)
    BY <2>1, <2>4, VecRoundTrip
  <2>. QED
    BY <2>2, <2>3, <2>5
<1>2. CASE ~HoldsStructs(kind)
  BY <1>2, FieldRoundTrip DEF IsNestedField, NestedFieldIntoMessage, NestedFieldFromMessage
<1>. QED
  BY <1>1, <1>2

LEMMA NestedRoundTrip ==
    ASSUME NEW kind, NEW x, IsNested(kind, x)
    PROVE  NestedFromMessage(kind, NestedIntoMessage(kind, x)) = Ok(x)
<1>. DEFINE y == [f \in DOMAIN kind.fields |-> NestedFieldIntoMessage(kind.fields[f], x[f])]
            r == [f \in DOMAIN kind.fields |-> NestedFieldFromMessage(kind.fields[f], y[f])]
<1>1. NestedIntoMessage(kind, x) = y
  BY DEF NestedIntoMessage
<1>2. NestedFromMessage(kind, y) = Collect(r)
  BY DEF NestedFromMessage
<1>3. \A f \in DOMAIN kind.fields : r[f] = Ok(x[f])
  BY NestedFieldRoundTrip DEF IsNested
<1>4. x = [f \in DOMAIN r |-> x[f]]
  BY DEF IsNested, HasFields
<1>5. Collect(r) = Ok(x)
  BY <1>3, <1>4, CollectOk
<1>. QED
  BY <1>1, <1>2, <1>5

LEMMA BlockFieldRoundTrip ==
    ASSUME NEW kind, NEW x, IsBlockField(kind, x)
    PROVE  BlockFieldFromMessage(kind, BlockFieldIntoMessage(kind, x)) = Ok(x)
<1>1. CASE HoldsStructs(kind)
  <2>. DEFINE y == [i \in DOMAIN x |-> NestedIntoMessage(kind.of, x[i])]
              r == [i \in DOMAIN y |-> NestedFromMessage(kind.of, y[i])]
  <2>1. IsVec(x) /\ \A i \in DOMAIN x : IsNested(kind.of, x[i])
    BY <1>1 DEF IsBlockField
  <2>2. BlockFieldIntoMessage(kind, x) = y
    BY <1>1 DEF BlockFieldIntoMessage
  <2>3. BlockFieldFromMessage(kind, y) = Collect(r)
    BY <1>1 DEF BlockFieldFromMessage
  <2>4. \A i \in DOMAIN x : r[i] = Ok(x[i])
    BY <2>1, NestedRoundTrip
  <2>5. Collect(r) = Ok(x)
    BY <2>1, <2>4, VecRoundTrip
  <2>. QED
    BY <2>2, <2>3, <2>5
<1>2. CASE ~HoldsStructs(kind)
  BY <1>2, FieldRoundTrip DEF IsBlockField, BlockFieldIntoMessage, BlockFieldFromMessage
<1>. QED
  BY <1>1, <1>2

LEMMA BlockRoundTrip ==
    ASSUME NEW x, IsBlock(x)
    PROVE  BlockTryFromMessage(BlockIntoMessage(x)) = Ok(x)
<1>. DEFINE y == [f \in DOMAIN Block.fields |-> BlockFieldIntoMessage(Block.fields[f], x[f])]
            r == [f \in DOMAIN Block.fields |-> BlockFieldFromMessage(Block.fields[f], y[f])]
<1>1. BlockIntoMessage(x) = y
  BY DEF BlockIntoMessage
<1>2. BlockTryFromMessage(y) = Collect(r)
  BY DEF BlockTryFromMessage
<1>3. \A f \in DOMAIN Block.fields : r[f] = Ok(x[f])
  BY BlockFieldRoundTrip DEF IsBlock
<1>4. x = [f \in DOMAIN r |-> x[f]]
  BY DEF IsBlock, HasFields
<1>5. Collect(r) = Ok(x)
  BY <1>3, <1>4, CollectOk
<1>. QED
  BY <1>1, <1>2, <1>5

-----------------------------------------------------------------------------
LEMMA ShortenedIsAnError ==
    ASSUME NEW size \in Nat, NEW x
    PROVE  ~ConvertToFixedSize(size, Shortened(StringOf(size, x))).ok
<1>1. Shortened(StringOf(size, x)).len = size - 1
  BY DEF Shortened, StringOf
<1>2. ConvertToFixedSize(size, Shortened(StringOf(size, x))) = Err
  BY <1>1 DEF ConvertToFixedSize
<1>. QED
  BY <1>2 DEF Err

LEMMA ShortenedLeaf ==
    ASSUME NEW kind, NEW x, IsLeaf(kind, x), kind = U256 \/ kind.k = "fixed"
    PROVE  /\ Shortened(LeafIntoMessage(kind, x)) # None
           /\ ~LeafFromMessage(kind, Shortened(LeafIntoMessage(kind, x))).ok
<1>. DEFINE size == kind.size
<1>1. size \in Nat \ {0} /\ \A n \in 0 .. size : StringOf(n, x) # None
  <2>1. kind.k \in {"uint", "fixed"}
    BY DEF U256, UInt
  <2>2. IsString(kind.size, x)
    BY <2>1 DEF IsLeaf
  <2>. QED
    BY <2>2 DEF IsString
<1>2. ~IsNumber(kind)
  BY DEF IsNumber, U256, UInt
<1>3. LeafIntoMessage(kind, x) = StringOf(size, x)
  <2>1. CASE kind = U256
    <3>1. kind.k = "uint" /\ kind.size = U256Size
      BY <2>1 DEF U256, UInt
    <3>. QED
      BY <2>1, <3>1, <1>2 DEF LeafIntoMessage
  <2>2. CASE kind # U256 /\ kind.k = "fixed"
    BY <2>2, <1>2 DEF LeafIntoMessage
  <2>. QED
    BY <2>1, <2>2
<1>4. ASSUME NEW m
      PROVE  LeafFromMessage(kind, m) = ConvertToFixedSize(size, m)
  <2>1. CASE kind = U256
    <3>1. kind.k = "uint" /\ kind.size = U256Size
      BY <2>1 DEF U256, UInt
    <3>. QED
      BY <2>1, <3>1, <1>2 DEF LeafFromMessage, ConvertToU256
  <2>2. CASE kind # U256 /\ kind.k = "fixed"
    BY <2>2, <1>2 DEF LeafFromMessage
  <2>. QED
    BY <2>1, <2>2
<1>. HIDE DEF size
<1>5. Shortened(StringOf(size, x)) = StringOf(size - 1, x)
  BY DEF Shortened, StringOf
<1>6. size - 1 \in 0 .. size
  BY <1>1
<1>. QED
  BY <1>1, <1>3, <1>4, <1>5, <1>6, ShortenedIsAnError

LEMMA ShortenedField ==
    ASSUME NEW kind, NEW x, IsField(kind, x), FieldIntoMessage(kind, x) # None,
           \/ kind = U256
           \/ kind.k = "fixed"
           \/ kind.k = "option" /\ kind.of # U64
    PROVE  ~FieldFromMessage(kind, Shortened(FieldIntoMessage(kind, x))).ok
<1>1. CASE kind = U256 \/ kind.k = "fixed"
  <2>1. kind.k \in {"uint", "fixed"}
    BY <1>1 DEF U256, UInt
  <2>2. FieldIntoMessage(kind, x) = LeafIntoMessage(kind, x)
    BY <2>1 DEF FieldIntoMessage
  <2>3. \A m : FieldFromMessage(kind, m) = LeafFromMessage(kind, m)
    BY <2>1 DEF FieldFromMessage
  <2>4. IsLeaf(kind, x)
    BY <2>1 DEF IsField
  <2>. QED
    BY <1>1, <2>2, <2>3, <2>4, ShortenedLeaf
<1>2. CASE kind.k = "option" /\ kind.of # U64
  <2>1. x # None
    BY <1>2 DEF FieldIntoMessage
  <2>2. (kind.of = U256 \/ kind.of.k = "fixed") /\ IsLeaf(kind.of, x)
    BY <1>2, <2>1, Zenon DEF IsField, IsLeaf
  <2>3. FieldIntoMessage(kind, x) = LeafIntoMessage(kind.of, x)
    BY <1>2, <2>1 DEF FieldIntoMessage
  <2>4. /\ Shortened(LeafIntoMessage(kind.of, x)) # None
        /\ ~LeafFromMessage(kind.of, Shortened(LeafIntoMessage(kind.of, x))).ok
    BY <2>2, ShortenedLeaf
  <2>5. FieldFromMessage(kind, Shortened(LeafIntoMessage(kind.of, x)))
            = LeafFromMessage(kind.of, Shortened(LeafIntoMessage(kind.of, x)))
    BY <1>2, <2>4 DEF FieldFromMessage
  <2>. QED
    BY <2>3, <2>4, <2>5
<1>. QED
  BY <1>1, <1>2

LEMMA SizedIsNoStruct ==
    ASSUME NEW kind, kind = U256 \/ kind.k \in {"fixed", "option"}
    PROVE  ~HoldsStructs(kind)
BY DEF HoldsStructs, U256, UInt

LEMMA ShortenedInBlock ==
    ASSUME NEW block, IsBlock(block),
           NEW f \in SizedFields(Block, BlockIntoMessage(block))
    PROVE  ~BlockTryFromMessage([BlockIntoMessage(block) EXCEPT ![f] = Shortened(@)]).ok
<1>. DEFINE y == BlockIntoMessage(block)
            c == [y EXCEPT ![f] = Shortened(@)]
            kind == Block.fields[f]
            r == [g \in DOMAIN Block.fields |-> BlockFieldFromMessage(Block.fields[g], c[g])]
<1>1. /\ f \in DOMAIN Block.fields /\ y[f] # None
      /\ kind = U256 \/ kind.k = "fixed" \/ (kind.k = "option" /\ kind.of # U64)
  BY DEF SizedFields
<1>2. ~HoldsStructs(kind)
  BY <1>1, SizedIsNoStruct
<1>3. y[f] = FieldIntoMessage(kind, block[f])
  BY <1>1, <1>2 DEF BlockIntoMessage, BlockFieldIntoMessage
<1>4. IsField(kind, block[f])
  BY <1>1, <1>2 DEF IsBlock, IsBlockField
<1>5. ~FieldFromMessage(kind, Shortened(y[f])).ok
  BY <1>1, <1>3, <1>4, ShortenedField
<1>6. c[f] = Shortened(y[f])
  BY <1>1 DEF BlockIntoMessage
<1>7. ~r[f].ok
  BY <1>1, <1>2, <1>5, <1>6 DEF BlockFieldFromMessage
<1>8. BlockTryFromMessage(c) = Collect(r)
  BY DEF BlockTryFromMessage
<1>. QED
  BY <1>1, <1>7, <1>8, CollectErr

LEMMA TransactionsOfBlock ==
    /\ "transactions" \in DOMAIN Block.fields
    /\ Block.fields["transactions"] = ListOf(Transaction)
<1>1. "transactions" \in DOMAIN OwnFields /\ OwnFields["transactions"] = ListOf(Transaction)
  BY DEF OwnFields
<1>. QED
  BY <1>1 DEF Block, Struct

LEMMA ShortenedInTransaction ==
    ASSUME NEW block, IsBlock(block),
           NEW i \in DOMAIN BlockIntoMessage(block).transactions,
           NEW f \in SizedFields(Transaction, BlockIntoMessage(block).transactions[i])
    PROVE  ~BlockTryFromMessage(
               [BlockIntoMessage(block) EXCEPT !.transactions[i][f] = Shortened(@)]).ok
<1>. DEFINE y == BlockIntoMessage(block)
            c == [y EXCEPT !.transactions[i][f] = Shortened(@)]
            bk == Block.fields["transactions"]
            kind == Transaction.fields[f]
            x == block["transactions"]
            t == x[i]
            m == [g \in DOMAIN Transaction.fields |->
                    NestedFieldIntoMessage(Transaction.fields[g], t[g])]
            ms == [j \in DOMAIN x |-> NestedIntoMessage(Transaction, x[j])]
            q == [g \in DOMAIN Transaction.fields |->
                    NestedFieldFromMessage(Transaction.fields[g], c["transactions"][i][g])]
            p == [j \in DOMAIN c["transactions"] |->
                    NestedFromMessage(Transaction, c["transactions"][j])]
            r == [g \in DOMAIN Block.fields |-> BlockFieldFromMessage(Block.fields[g], c[g])]
<1>1. /\ "transactions" \in DOMAIN Block.fields
      /\ bk.of = Transaction /\ HoldsStructs(bk)
  <2>1. Transaction.k = "struct"
    BY DEF Transaction, Struct
  <2>2. bk.k = "list" /\ bk.of = Transaction
    BY TransactionsOfBlock DEF ListOf
  <2>. QED
    BY <2>1, <2>2, TransactionsOfBlock DEF HoldsStructs
<1>2. y.transactions = ms
  BY <1>1 DEF BlockIntoMessage, BlockFieldIntoMessage
<1>3. i \in DOMAIN x
  BY <1>2
<1>4. ms[i] = m
  BY <1>3 DEF NestedIntoMessage
<1>5. /\ f \in DOMAIN Transaction.fields /\ m[f] # None
      /\ kind = U256 \/ kind.k = "fixed" \/ (kind.k = "option" /\ kind.of # U64)
  <2>1. y.transactions[i] = m
    BY <1>2, <1>4
  <2>. HIDE DEF y, m
  <2>. QED
    BY <2>1 DEF SizedFields, y
<1>6. ~HoldsStructs(kind)
  BY <1>5, SizedIsNoStruct
<1>7. m[f] = FieldIntoMessage(kind, t[f])
  BY <1>5, <1>6 DEF NestedFieldIntoMessage
<1>8. IsField(kind, t[f])
  <2>1. IsBlockField(bk, x)
    BY <1>1 DEF IsBlock
  <2>2. IsNested(Transaction, t)
    BY <2>1, <1>1, <1>3 DEF IsBlockField
  <2>. QED
    BY <2>2, <1>5, <1>6 DEF IsNested, IsNestedField
<1>9. ~FieldFromMessage(kind, Shortened(m[f])).ok
  BY <1>5, <1>7, <1>8, ShortenedField
<1>10. /\ i \in DOMAIN c["transactions"]
       /\ c["transactions"][i][f] = Shortened(m[f])
  <2>1. /\ y = [g \in DOMAIN Block.fields |-> y[g]]
        /\ y["transactions"] = ms
    BY <1>2 DEF BlockIntoMessage
  <2>2. DOMAIN ms = DOMAIN x /\ ms = [j \in DOMAIN x |-> ms[j]]
    OBVIOUS
  <2>3. DOMAIN m = DOMAIN Transaction.fields /\ m = [g \in DOMAIN m |-> m[g]]
    OBVIOUS
  <2>4. c["transactions"] = [ms EXCEPT ![i][f] = Shortened(@)]
    <3>. HIDE DEF y, ms
    <3>. QED
      BY <2>1, <1>1
  <2>5. [ms EXCEPT ![i][f] = Shortened(@)][i] = [m EXCEPT ![f] = Shortened(@)]
    <3>. HIDE DEF ms, m
    <3>. QED
      BY <2>2, <1>3, <1>4
  <2>6. [m EXCEPT ![f] = Shortened(@)][f] = Shortened(m[f])
    <3>. HIDE DEF m
    <3>. QED
      BY <2>3, <1>5
  <2>7. i \in DOMAIN [ms EXCEPT ![i][f] = Shortened(@)]
    <3>. HIDE DEF ms
    <3>. QED
      BY <2>2, <1>3
  <2>. HIDE DEF c, ms, m
  <2>. QED
    BY <2>4, <2>5, <2>6, <2>7
<1>. HIDE DEF c, m, t, y, ms
<1>11. ~q[f].ok
  <2>1. q[f] = FieldFromMessage(kind, Shortened(m[f]))
    BY <1>5, <1>6, <1>10 DEF NestedFieldFromMessage
  <2>. QED
    BY <2>1, <1>9
<1>12. ~p[i].ok
  <2>1. p[i] = Collect(q)
    BY <1>10 DEF NestedFromMessage
  <2>2. f \in DOMAIN q
    BY <1>5
  <2>. HIDE DEF q
  <2>. QED
    BY <2>1, <2>2, <1>11, CollectErr
<1>13. ~r["transactions"].ok
  <2>1. r["transactions"] = Collect(p)
    BY <1>1 DEF BlockFieldFromMessage
  <2>2. i \in DOMAIN p
    BY <1>10
  <2>. HIDE DEF p
  <2>. QED
    BY <2>1, <2>2, <1>12, CollectErr
<1>14. BlockTryFromMessage(c) = Collect(r)
  BY DEF BlockTryFromMessage
<1>15. "transactions" \in DOMAIN r
  BY <1>1
<1>16. ~BlockTryFromMessage(c).ok
  <2>. HIDE DEF r
  <2>. QED
    BY <1>13, <1>14, <1>15, CollectErr
<1>. QED
  BY <1>16 DEF c, y

-----------------------------------------------------------------------------
(* The inductive invariant: what the databases hold is the message of the  *)
(* block that was put, or one that cannot be read, and what was read from  *)
(* the client's is the result for it. *)
StoredInv ==
    /\ mem.ok => IsBlock(mem.val)
    /\ messages # {} => IsBlock(stored) /\ messages = {BlockIntoMessage(stored)}
    /\ damaged \in BOOLEAN
    /\ messages = {} => copies = {}
    /\ copies = {} => damaged = FALSE /\ via # "db"
    /\ \A m \in copies :
          IF damaged THEN ~BlockTryFromMessage(m).ok ELSE m = BlockIntoMessage(stored)
    /\ via = "db" => IF damaged THEN ~mem.ok ELSE mem = Ok(stored)

LEMMA StoredInitInv == StoredInit => StoredInv
<1>. SUFFICES ASSUME StoredInit
              PROVE  StoredInv
  OBVIOUS
<1>1. ~mem.ok
  BY DEF StoredInit, Err
<1>2. via # "db"
  BY TypedBlocksAssumption DEF StoredInit
<1>. QED
  BY <1>1, <1>2 DEF StoredInit, StoredInv

LEMMA ObtainKeepsInv ==
    ASSUME StoredInv, NEW result \in {Ok(block) : block \in TypedBlocks} \cup {Err},
           NEW origin \in Origins, Obtain(result, origin)
    PROVE  StoredInv'
<1>1. result.ok => IsBlock(result.val)
  <2>1. CASE result = Err
    BY <2>1 DEF Err
  <2>2. CASE result \in {Ok(block) : block \in TypedBlocks}
    BY <2>2, OkIsOk, TypedBlocksAssumption
  <2>. QED
    BY <2>1, <2>2
<1>2. origin # "db"
  BY DEF Origins
<1>. QED
  BY <1>1, <1>2 DEF StoredInv, Obtain, databases

LEMMA PutKeepsInv ==
    ASSUME StoredInv, Put
    PROVE  StoredInv'
BY DEF StoredInv, Put

LEMMA FetchBytesKeepsInv ==
    ASSUME StoredInv, FetchBytes
    PROVE  StoredInv'
BY DEF StoredInv, FetchBytes

LEMMA FetchDamagedKeepsInv ==
    ASSUME StoredInv, FetchDamaged
    PROVE  StoredInv'
<1>1. PICK m \in messages :
          \/ \E f \in SizedFields(Block, m) : copies' = {[m EXCEPT ![f] = Shortened(@)]}
          \/ \E i \in DOMAIN m.transactions :
                \E f \in SizedFields(Transaction, m.transactions[i]) :
                   copies' = {[m EXCEPT !.transactions[i][f] = Shortened(@)]}
  BY DEF FetchDamaged
<1>2. IsBlock(stored) /\ m = BlockIntoMessage(stored)
  BY DEF StoredInv
<1>3. copies' # {} /\ \A c \in copies' : ~BlockTryFromMessage(c).ok
  <2>1. ASSUME NEW f \in SizedFields(Block, m), copies' = {[m EXCEPT ![f] = Shortened(@)]}
        PROVE  copies' # {} /\ \A c \in copies' : ~BlockTryFromMessage(c).ok
    BY <1>2, <2>1, ShortenedInBlock
  <2>2. ASSUME NEW i \in DOMAIN m.transactions,
               NEW f \in SizedFields(Transaction, m.transactions[i]),
               copies' = {[m EXCEPT !.transactions[i][f] = Shortened(@)]}
        PROVE  copies' # {} /\ \A c \in copies' : ~BlockTryFromMessage(c).ok
    BY <1>2, <2>2, ShortenedInTransaction
  <2>. QED
    BY <1>1, <2>1, <2>2
<1>4. copies = {} /\ damaged' = TRUE /\ UNCHANGED <<mem, via, stored, messages>>
  BY DEF FetchDamaged
<1>. QED
  BY <1>1, <1>3, <1>4 DEF StoredInv

LEMMA GetKeepsInv ==
    ASSUME StoredInv, Get
    PROVE  StoredInv'
<1>1. PICK m \in copies : mem' = BlockTryFromMessage(m)
  BY DEF Get
<1>2. via' = "db" /\ UNCHANGED databases
  BY DEF Get
<1>3. messages # {} /\ IsBlock(stored)
  BY DEF StoredInv
<1>4. CASE damaged
  <2>1. ~mem'.ok
    BY <1>1, <1>4 DEF StoredInv
  <2>. QED
    BY <1>1, <1>2, <1>4, <2>1 DEF StoredInv, databases
<1>5. CASE ~damaged
  <2>1. m = BlockIntoMessage(stored)
    BY <1>5 DEF StoredInv
  <2>2. mem' = Ok(stored)
    BY <1>1, <1>3, <2>1, BlockRoundTrip
  <2>3. mem'.ok /\ mem'.val = stored
    BY <2>2, OkIsOk
  <2>. QED
    BY <1>1, <1>2, <1>3, <1>5, <2>2, <2>3 DEF StoredInv, databases
<1>. QED
  BY <1>4, <1>5

LEMMA StoredStepInv == StoredInv /\ [StoredNext]_storedVars => StoredInv'
<1>. SUFFICES ASSUME StoredInv, [StoredNext]_storedVars
              PROVE  StoredInv'
  OBVIOUS
<1>1. CASE UNCHANGED storedVars
  BY <1>1 DEF StoredInv, storedVars, databases
<1>2. CASE StoredNext
  BY <1>2, ObtainKeepsInv, PutKeepsInv, FetchBytesKeepsInv, FetchDamagedKeepsInv, GetKeepsInv
     DEF StoredNext
<1>. QED
  BY <1>1, <1>2

(* What BlockDb::put encoded, BlockDb::get decodes to the same block,      *)
(* whatever the block holds, and a message with a byte string of another   *)
(* size than its field has is an error. *)
THEOREM StoredBlocksSurvive == StoredSpec => []StoredBlockSurvives
<1>1. StoredInv => StoredBlockSurvives
  <2>. SUFFICES ASSUME StoredInv
                PROVE  StoredBlockSurvives
    OBVIOUS
  <2>1. messages # {} => IsBlock(stored)
    BY DEF StoredInv
  <2>2. CASE via = "db" /\ ~damaged
    <3>1. mem = Ok(stored)
      BY <2>2 DEF StoredInv
    <3>2. mem.ok /\ mem.val = stored
      BY <3>1, OkIsOk
    <3>. QED
      BY <2>1, <2>2, <3>2 DEF StoredBlockSurvives
  <2>3. CASE ~(via = "db" /\ ~damaged)
    BY <2>1, <2>3 DEF StoredInv, StoredBlockSurvives
  <2>. QED
    BY <2>2, <2>3
<1>. QED
  BY <1>1, StoredInitInv, StoredStepInv, PTL DEF StoredSpec
=============================================================================
