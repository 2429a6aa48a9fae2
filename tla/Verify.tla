------------------------------- MODULE Verify -------------------------------
(***************************************************************************)
(* The two verify commands: that of the blockservice, which goes up        *)
(* through all blocks and counts errors (blockservice/src/cmd/verify.rs),  *)
(* and that of the Go tool, which goes down and stops at the first one     *)
(* (go/verify/verify.go).  Both tolerate a wrong hash of a block with      *)
(* failed bundles.  They run one after the other on one database, which    *)
(* may have gaps, broken links, blocks under the wrong key and values that *)
(* cannot be decoded.                                                      *)
(*                                                                         *)
(* A block has one of two versions; its hash is its number and version,    *)
(* and its parent hash names a version of the block before.  A block under *)
(* the wrong key has the number of the next one.                           *)
(***************************************************************************)
EXTENDS Integers, FiniteSets

CONSTANTS
    LastKey,     \* the highest block number
    MaxBundles,  \* how many blocks may have failed bundles
    Absent,      \* no block is stored
    Corrupt,     \* what is stored cannot be decoded
    NoHash       \* None

VARIABLES
    db,          \* what is stored under each key
    bundles,     \* the blocks with failed bundles
    from,        \* the block both commands start at
    given,       \* the hash of that block, if given on the command line
    rust,        \* the state of the first command: running, or its result
    next,        \* where its iterator stands
    prev,        \* its prev_block_hash
    prevNumber,  \* its prev_block_number
    errors,      \* its count of errors
    go,          \* the state of the second command
    goNext,      \* where its iterator stands, going down
    goHash       \* the parent hash of the block before, its blockHash

input == <<db, bundles, from, given>>
rusty == <<rust, next, prev, prevNumber, errors>>
gopher == <<go, goNext, goHash>>
verifyVars == <<input, rusty, gopher>>

Key == 0 .. LastKey
Version == {0, 1}
Hash == (0 .. LastKey + 1) \X Version
Block == [wrongKey : BOOLEAN, version : Version, parent : Version]

ASSUME VerifyAssumption ==
    /\ LastKey \in Nat /\ MaxBundles \in Nat
    /\ Absent # Corrupt /\ Absent \notin Block /\ Corrupt \notin Block
    /\ NoHash \notin Int \X Version

IsStored(n) == db[n] # Absent

BlockNumber(n) == IF db[n].wrongKey THEN n + 1 ELSE n

HashOf(n) == <<BlockNumber(n), db[n].version>>

ParentHash(n) == <<n - 1, db[n].parent>>

VerifyTypeOK ==
    /\ db \in [Key -> {Absent, Corrupt} \cup Block]
    /\ bundles \subseteq Key
    /\ from \in Key
    /\ given \in {NoHash} \cup Hash
    /\ rust \in {"given", "running", "ok", "errors", "failed", "cancelled"}
    /\ next \in 0 .. LastKey + 1
    /\ prev \in {NoHash} \cup Hash
    /\ prevNumber \in Key
    /\ errors \in Nat
    /\ go \in {"waiting", "running", "ok", "failed", "cancelled"}
    /\ goNext \in -1 .. LastKey
    /\ goHash \in {NoHash} \cup ((-1 .. LastKey) \X Version)

VerifyInit ==
    /\ db \in [Key -> {Absent, Corrupt} \cup Block]
    /\ bundles \in {B \in SUBSET Key : Cardinality(B) <= MaxBundles}
    /\ from \in Key
    /\ given \in {NoHash} \cup ({from} \X Version)
    /\ rust = "given"
    /\ next = from
    /\ prev = NoHash
    /\ prevNumber = from
    /\ errors = 0
    /\ go = "waiting"
    /\ goNext = LastKey
    /\ goHash = NoHash

-----------------------------------------------------------------------------
(* check_block_hash: the number of errors for a block with this hash. *)
CheckBlockHash(n, hash, expected) ==
    IF hash = expected \/ n \in bundles THEN 0 ELSE 1

(* The hash given on the command line is that of the first block. *)
CheckGiven ==
    /\ rust = "given"
    /\ IF given = NoHash
       THEN rust' = "running" /\ UNCHANGED errors
       ELSE /\ rust' = IF db[from] = Corrupt THEN "failed" ELSE "running"
            /\ errors' = IF db[from] = Absent THEN 1
                         ELSE IF db[from] = Corrupt THEN 0
                         ELSE CheckBlockHash(from, HashOf(from), given)
    /\ UNCHANGED <<input, next, prev, prevNumber, gopher>>

(* Mutation: the hash before a gap is compared with the parent hash after  *)
(* it.                                                                     *)
CheckAcrossGap(n) ==
    IF prev = NoHash THEN 0
    ELSE CheckBlockHash(prevNumber, prev, ParentHash(n))

(* The link to the previous block, unless there is a gap before block n.   *)
CheckParent(n) ==
    IF prev = NoHash \/ prevNumber + 1 # n THEN 0
    ELSE CheckBlockHash(prevNumber, prev, ParentHash(n))

(* One block of the iteration, stored under key n. *)
VerifyUp(n) ==
    /\ rust = "running"
    /\ n >= next /\ IsStored(n)
    /\ \A k \in next .. n - 1 : ~IsStored(k)
    /\ next' = n + 1
    /\ IF db[n] = Corrupt
       THEN rust' = "failed" /\ UNCHANGED <<prev, prevNumber, errors>>
       ELSE /\ errors' = errors + (IF BlockNumber(n) # n THEN 1 ELSE 0)
                                + CheckParent(n)
            /\ prevNumber' = n
            /\ prev' = HashOf(n)
            /\ UNCHANGED rust
    /\ UNCHANGED <<input, gopher>>

EndUp ==
    /\ rust = "running"
    /\ \A k \in next .. LastKey : ~IsStored(k)
    /\ rust' = IF errors = 0 THEN "ok" ELSE "errors"
    /\ UNCHANGED <<input, next, prev, prevNumber, errors, gopher>>

(* The cancellation is noticed when there is another block. *)
CancelUp ==
    /\ rust = "running"
    /\ \E k \in next .. LastKey : IsStored(k)
    /\ rust' = "cancelled"
    /\ UNCHANGED <<input, next, prev, prevNumber, errors, gopher>>

-----------------------------------------------------------------------------
(* The Go command, on the range of the stored blocks from the same block   *)
(* on.  Its lowest and highest block are read first.                       *)
StoredFrom == {n \in Key : n >= from /\ IsStored(n)}

Lowest == CHOOSE n \in StoredFrom : \A k \in StoredFrom : n <= k
Highest == CHOOSE n \in StoredFrom : \A k \in StoredFrom : k <= n

(* The lower bound of the range is the number of the lowest block, not its *)
(* key.                                                                    *)
GoFrom == BlockNumber(Lowest)

StartDown ==
    /\ rust \in {"ok", "errors", "failed"}
    /\ go = "waiting"
    /\ go' = IF StoredFrom = {} THEN "ok"
             ELSE IF Corrupt \in {db[Lowest], db[Highest]} THEN "failed"
             ELSE "running"
    /\ UNCHANGED <<input, rusty, goNext, goHash>>

(* Mutation: the block before, which the hash was taken from, counts. *)
ToleratedSuccessor(n) == BlockNumber(n) + 1 \in bundles

(* The number of the block counts, not its key. *)
Tolerated(n) == BlockNumber(n) \in bundles

(* One block of the iteration, stored under key n. *)
VerifyDown(n) ==
    /\ go = "running"
    /\ n <= goNext /\ n >= GoFrom /\ IsStored(n)
    /\ \A k \in n + 1 .. goNext : ~IsStored(k)
    /\ goNext' = n - 1
    /\ IF db[n] = Corrupt
       THEN go' = "failed" /\ UNCHANGED goHash
       ELSE /\ go' = IF goHash = NoHash \/ HashOf(n) = goHash \/ Tolerated(n)
                     THEN go ELSE "failed"
            /\ goHash' = ParentHash(n)
    /\ UNCHANGED <<input, rusty>>

EndDown ==
    /\ go = "running"
    /\ \A k \in GoFrom .. goNext : ~IsStored(k)
    /\ go' = "ok"
    /\ UNCHANGED <<input, rusty, goNext, goHash>>

CancelDown ==
    /\ go = "running"
    /\ \E k \in GoFrom .. goNext : IsStored(k)
    /\ go' = "cancelled"
    /\ UNCHANGED <<input, rusty, goNext, goHash>>

VerifyNext ==
    \/ CheckGiven \/ EndUp \/ CancelUp
    \/ StartDown \/ EndDown \/ CancelDown
    \/ \E n \in Key : VerifyUp(n) \/ VerifyDown(n)

VerifySpec == VerifyInit /\ [][VerifyNext]_verifyVars

-----------------------------------------------------------------------------
(* The faults of the database, for the properties: blocks under the wrong  *)
(* key, and stored blocks whose stored successor names another hash.       *)
Decoded == {n \in StoredFrom : db[n] # Corrupt}

WrongKeys == {n \in Decoded : db[n].wrongKey}

BrokenLinks ==
    {n \in Decoded : n + 1 \in Decoded /\ ParentHash(n + 1) # HashOf(n)}

HasGap ==
    \E a, b, c \in Key :
        a < b /\ b < c /\ {a, c} \subseteq StoredFrom /\ ~IsStored(b)

(* The verification of the blockservice reports every fault of every block *)
(* but the excused ones, and counts each once: whatever precedes it, gaps, *)
(* tolerated blocks or other faults, hides none.                           *)
EveryFaultCounted ==
    rust \in {"ok", "errors"} =>
        errors = Cardinality(WrongKeys) + Cardinality(BrokenLinks \ bundles)
                 + (IF given = NoHash \/ from \in bundles \cap StoredFrom THEN 0
                    ELSE IF from \in StoredFrom /\ HashOf(from) = given THEN 0
                    ELSE 1)

(* The two commands agree.  What the Go command accepts has no broken      *)
(* links for the other one either; the converse holds if there is no gap,  *)
(* which only the Go command takes for an error, and no block under a      *)
(* wrong key.                                                              *)
CommandsAgree ==
    rust \in {"ok", "errors", "failed"} /\ WrongKeys = {} =>
        /\ go = "ok" => rust # "failed" /\ BrokenLinks \subseteq bundles
        /\ go = "failed" /\ ~HasGap =>
               rust = "failed" \/ BrokenLinks \ bundles # {}
=============================================================================
