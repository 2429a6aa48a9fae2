---------------------------- MODULE HashHistory ----------------------------
(***************************************************************************)
(* The history of block hashes of a replay (blockHashHistory, at the end   *)
(* of go/replay/replay.go): a ring of the last hashes, for the BLOCKHASH   *)
(* instruction and for the check of parent hashes.  It is seeded from the  *)
(* parent hashes in the block database when a replay starts in the middle, *)
(* written by the stage that applies the blocks, and cloned for the stages *)
(* behind it: the check of the results and the archive verifier.           *)
(*                                                                         *)
(* The hash of block n is n, as the block after it says in its parent      *)
(* hash; a stored block that was altered hashes to -n - 1.                 *)
(***************************************************************************)
EXTENDS Integers, Sequences, FiniteSets

CONSTANTS
    Len256,     \* blockHashHistoryLen
    LastBlock,  \* the last block that is replayed
    Ahead,      \* the results that wait between the two stages
    Zero        \* the hash of a slot that was never set

ASSUME HistoryAssumption ==
    /\ Len256 \in Nat \ {0}
    /\ LastBlock \in Nat
    /\ Ahead \in Nat \ {0}
    /\ Zero \notin -LastBlock - 1 .. LastBlock   \* it is no block's hash

VARIABLES
    db,          \* the stored blocks: absent, good or altered
    state,       \* of the replay: idle, running, failed
    first,       \* its first block
    next_block,  \* where its iterator stands
    ring,        \* historicHashes
    results,     \* applied blocks that wait for their check
    accepted     \* checked blocks, with the clones for the archive verifier

historyVars == <<db, state, first, next_block, ring, results, accepted>>

BlockNumber == 0 .. LastBlock
Hash == -LastBlock - 1 .. LastBlock
History == [0 .. Len256 - 1 -> Hash \cup {Zero}]
Result == [block : BlockNumber, parent : Hash \cup {Zero}, history : History]

HistoryTypeOK ==
    /\ db \in [BlockNumber -> {"absent", "good", "altered"}]
    /\ state \in {"idle", "running", "failed"}
    /\ first \in BlockNumber
    /\ next_block \in 0 .. LastBlock + 1
    /\ ring \in History
    /\ results \in Seq(Result) /\ Len(results) <= Ahead
    /\ accepted \subseteq [block : BlockNumber, history : History]

HistoryInit ==
    /\ db \in [BlockNumber -> {"absent", "good", "altered"}]
    /\ state = "idle"
    /\ first = 0
    /\ next_block = 0
    /\ ring = [i \in 0 .. Len256 - 1 |-> Zero]
    /\ results = <<>>
    /\ accepted = {}

-----------------------------------------------------------------------------
Stored(n) == db[n] # "absent"

HashOf(n) == IF db[n] = "good" THEN n ELSE -n - 1

SetBlockHash(history, n, hash) == [history EXCEPT ![n % Len256] = hash]

GetBlockHash(history, n) == history[n % Len256]

SeedFrom(b) == IF b > Len256 - 1 THEN b - (Len256 - 1) ELSE 1

(* The blocks that give the hashes of their parents are all there. *)
Seeded(b) == b = 0 \/ \A n \in SeedFrom(b) .. b : Stored(n)

(* Replay with the given first block: seedBlockHashHistory reads the       *)
(* parent hashes of the blocks up to it.                                   *)
SeedHistory(b) ==
    /\ state = "idle"
    /\ first' = b
    /\ next_block' = b
    /\ state' = IF Seeded(b) THEN "running" ELSE "failed"
    /\ ring' = [i \in 0 .. Len256 - 1 |->
                   LET S == {n \in SeedFrom(b) .. b :
                                b > 0 /\ Stored(n) /\ (n - 1) % Len256 = i}
                   IN  IF S = {} THEN Zero ELSE (CHOOSE n \in S : TRUE) - 1]
    /\ UNCHANGED <<db, results, accepted>>

(* The stage that applies blocks: it takes the hash of the parent and a    *)
(* clone of the history, and records the hash of the block.  The iterator  *)
(* passes over blocks that are missing.                                    *)
ApplyBlock(n) ==
    /\ state = "running"
    /\ Len(results) < Ahead
    /\ n >= next_block /\ Stored(n)
    /\ \A k \in next_block .. n - 1 : ~Stored(k)
    /\ results' = Append(results,
           [block |-> n,
            parent |-> IF n > 0 THEN GetBlockHash(ring, n - 1) ELSE Zero,
            history |-> ring])
    /\ ring' = SetBlockHash(ring, n, HashOf(n))
    /\ next_block' = n + 1
    /\ UNCHANGED <<db, state, first, accepted>>

(* Mutation: only a hash of a different, but good block is noticed. *)
CheckNumberOnly(r) == r.parent = Zero \/ r.parent < 0 \/ r.parent = r.block - 1

(* A parent whose hash is not set is not checked. *)
CheckParentHash(r) == r.parent = Zero \/ r.parent = r.block - 1

(* Mutation: the verifier gets the history itself in place of a clone. *)
SharedHistory(r) == ring

SubmittedHistory(r) == r.history

(* The stage that checks the results and passes them to the verifier. *)
Check ==
    /\ state = "running"
    /\ results # <<>>
    /\ LET r == Head(results)
       IN  IF CheckParentHash(r)
           THEN /\ accepted' = accepted \cup
                       {[block |-> r.block, history |-> SubmittedHistory(r)]}
                /\ UNCHANGED state
           ELSE /\ state' = "failed"
                /\ UNCHANGED accepted
    /\ results' = Tail(results)
    /\ UNCHANGED <<db, first, next_block, ring>>

(* The replay has failed, or there are no more blocks. *)
Over ==
    /\ \/ state = "failed"
       \/ /\ state = "running" /\ results = <<>>
          /\ \A n \in BlockNumber : n >= next_block => ~Stored(n)
    /\ UNCHANGED historyVars

HistoryNext ==
    \/ \E b \in BlockNumber : SeedHistory(b)
    \/ \E n \in BlockNumber : ApplyBlock(n)
    \/ Check
    \/ Over

HistorySpec == HistoryInit /\ [][HistoryNext]_historyVars

-----------------------------------------------------------------------------
(* No block is missing where the ring is not full yet. *)
StoredAtTheBeginning ==
    \A n \in BlockNumber : n >= first /\ n <= Len256 => Stored(n)

(* The archive verifier executes every block with the hashes of the blocks *)
(* before it, 256 or as many as there are, whatever block the stage that   *)
(* applies them has come to; these are the hashes it was first executed    *)
(* with.  The seed of a replay that starts in the middle has them all.     *)
HistoryOfTheBlock ==
    StoredAtTheBeginning =>
        \A a \in accepted : \A k \in BlockNumber :
            k < a.block /\ k + Len256 >= a.block =>
                GetBlockHash(a.history, k) = k

(* No block passes its check, with checkParentHash, unless the block       *)
(* before it is stored, has passed too or was before the first one, and    *)
(* was not altered.                                                        *)
AcceptedFollowsAccepted ==
    StoredAtTheBeginning =>
        \A a \in accepted : a.block > first =>
            /\ db[a.block - 1] = "good"
            /\ \E b \in accepted : b.block = a.block - 1

(* What checkParentHash says it does: the block before an accepted one is  *)
(* the one whose hash is its parent hash, in every replay.                 *)
ParentAlwaysChecked ==
    \A a \in accepted : a.block > first => db[a.block - 1] = "good"
=============================================================================
