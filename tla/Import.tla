------------------------------- MODULE Import -------------------------------
(***************************************************************************)
(* The import of a block file into one chain of the block database         *)
(* (blockservice/src/cmd/import.rs), run again and again: it may be        *)
(* cancelled, fail or be killed at any item of the file, and blocks may be *)
(* purged between two runs.                                                *)
(*                                                                         *)
(* A header hash stands for the block: at each number there are the blocks *)
(* in Fork, and parent[n][f] is the parent hash in the header of block f   *)
(* at number n.  The file is what the iterator of the genesis parser       *)
(* yields, in descending order of number: a block, an error (Malformed) or *)
(* nothing (Absent) at each number, so a directory of era files may lack   *)
(* some of them and need not begin at block 0.  A write batch is atomic    *)
(* and keeps the list of stored ranges true to the blocks (module BlockDb, *)
(* MetadataMatchesBlocks), so the ranges are those of the stored blocks.   *)
(***************************************************************************)
EXTENDS Ranges, FiniteSets, FiniteSetsExt

CONSTANTS
    MaxBlock,   \* the largest block number of a file
    Fork,       \* the blocks there may be at each number
    Zero,       \* Hash::default(), the parent hash of block zero
    Absent,     \* no block: in the file, or in the database
    Malformed,  \* a block of the file that does not parse
    NoHash,     \* prev_parent_hash = None
    BatchSize   \* BATCH_SIZE, in blocks

ASSUME ImportAssumption ==
    /\ MaxBlock \in Nat
    /\ BatchSize \in Nat \ {0}
    /\ {Zero, Absent, Malformed, NoHash} \cap Fork = {}
    /\ Absent # Malformed /\ Zero # NoHash
    /\ Zero \notin Int \X Fork /\ NoHash \notin Int \X Fork

VARIABLES
    parent,    \* the parent hash in every header; never changes
    db,        \* the stored blocks of the chain
    config,    \* whether the configuration has an entry for the chain
    file,      \* what the parser yields at each number
    verify,    \* the command's --verify
    smallest,  \* smallest_import_block_number
    next,      \* the number of the item the loop reads next; -1 at the end
    prev,      \* prev_parent_hash: a hash, NoHash or Zero
    batch,     \* the blocks put into the open batch
    phase,     \* "idle" (no import runs), "loop" or "return"
    outcome    \* what the import that returns has to say

importVars == <<parent, db, config, file, verify, smallest, next, prev, batch,
                phase, outcome>>

Height == 0 .. MaxBlock

(* The hash of block f at number n, and the hash its header names as the   *)
(* parent's: that of a block one number below, or Zero.                    *)
HashOf(n, f) == <<n, f>>
ParentHash(n, f) ==
    IF parent[n][f] = Zero THEN Zero ELSE HashOf(n - 1, parent[n][f])

(* The numbers at which the file has an item, and the stored numbers. *)
Items(f) == {n \in Height : f[n] # Absent}
StoredBlocks == {n \in Height : db[n] # Absent}

(* The number of the item after number n: the iterator yields the items in *)
(* descending order and ends after the last.                               *)
ItemBelow(f, n) ==
    LET below == {m \in Items(f) : m < n}
    IN IF below = {} THEN -1 ELSE Max(below)

(* The numbers of the blocks in the open batch. *)
InBatch == {n \in Height : batch[n] # Absent}

ImportTypeOK ==
    /\ parent \in [Height -> [Fork -> Fork \cup {Zero}]]
    /\ db \in [Height -> Fork \cup {Absent}]
    /\ config \in BOOLEAN
    /\ file \in [Height -> Fork \cup {Absent, Malformed}]
    /\ verify \in BOOLEAN
    /\ smallest \in 0 .. MaxBlock + 1
    /\ next \in -1 .. MaxBlock
    /\ prev \in ((-1 .. MaxBlock) \X Fork) \cup {Zero, NoHash}
    /\ batch \in [Height -> Fork \cup {Absent}]
    /\ Cardinality(InBatch) <= BatchSize
    /\ phase \in {"idle", "loop", "return"}
    /\ outcome \in {"none", "ok", "nothing", "cancelled"}

NoBatch == [n \in Height |-> Absent]

ImportInit ==
    /\ parent \in {p \in [Height -> [Fork -> Fork \cup {Zero}]] :
                     \A n \in Height \ {0}, f \in Fork : p[n][f] # Zero}
    /\ db = NoBatch
    /\ config = FALSE
    /\ file = NoBatch
    /\ verify = FALSE
    /\ smallest = 0
    /\ next = -1
    /\ prev = NoHash
    /\ batch = NoBatch
    /\ phase = "idle"
    /\ outcome = "none"

-----------------------------------------------------------------------------
(* Mutation: every stored range is skipped, wherever it starts. *)
SmallestImportAfterLast(stored) ==
    IF stored = {} THEN 0 ELSE Max(stored) + 1

(* Lines 181-187: only a first range that starts at block 0 is skipped. *)
SmallestImport(stored) ==
    Max({0} \cup {r[2] + 1 : r \in {q \in Canonical(stored) : q[1] = 0}})

(* The command ends, without what is left in the batch. *)
Exit ==
    /\ phase' = "idle"
    /\ outcome' = "none"
    /\ file' = NoBatch
    /\ verify' = FALSE
    /\ smallest' = 0
    /\ next' = -1
    /\ prev' = NoHash
    /\ batch' = NoBatch
    /\ UNCHANGED <<parent, db, config>>

(* Lines 162-168: cfg.add_chain writes the configuration file. *)
AddChain == config' = TRUE

(* Lines 145-210.  The first item is peeked at for the number of blocks;   *)
(* an error there returns before anything is written, and is not a step.   *)
Start(f, v) ==
    /\ phase = "idle"
    /\ LET top == ItemBelow(f, MaxBlock + 1)
           first == SmallestImport(StoredBlocks)
       IN /\ top # -1 => f[top] # Malformed
          /\ smallest' = first
          /\ next' = top
          /\ IF top < first  \* import_blocks = 0
             THEN phase' = "return" /\ outcome' = "nothing"
             ELSE phase' = "loop" /\ outcome' = "none"
    /\ AddChain
    /\ file' = f
    /\ verify' = v
    /\ prev' = NoHash
    /\ batch' = NoBatch
    /\ UNCHANGED <<parent, db>>

-----------------------------------------------------------------------------
(* Mutation: a block that is stored already is kept. *)
WrittenIfAbsent ==
    [n \in Height |-> IF db[n] # Absent THEN db[n] ELSE batch[n]]

(* The contents of the database once the batch is written. *)
Written ==
    [n \in Height |-> IF batch[n] # Absent THEN batch[n] ELSE db[n]]

(* Line 274, after the loop: the last batch. *)
WriteLast(how) ==
    /\ db' = Written
    /\ batch' = NoBatch
    /\ phase' = "return"
    /\ outcome' = how
    /\ prev' = NoHash
    /\ UNCHANGED <<parent, config, file, verify, smallest, next>>

(* Mutation: the block of the file is compared even where the database has *)
(* its own.                                                                *)
BlockOfFile == file[next]

(* The block the item stands for: with --verify, below smallest, the one   *)
(* in the database.                                                        *)
Block == IF verify /\ next < smallest THEN db[next] ELSE file[next]

Mismatch ==
    /\ verify
    /\ \/ prev # NoHash /\ prev # HashOf(next, Block)
       \/ next = 0 /\ ParentHash(0, Block) # Zero

AtItem == phase = "loop" /\ next # -1

(* Lines 213-216: cancelled, what was put so far is written. *)
Cancelled == AtItem /\ WriteLast("cancelled")

(* Line 218 (the item does not parse) and lines 230-250. *)
ItemFails ==
    /\ AtItem
    /\ file[next] # Malformed => Mismatch
    /\ Exit

(* A write or a read of the database fails, or the process is killed. *)
Killed == phase = "loop" /\ Exit

Accepted == AtItem /\ file[next] # Malformed /\ ~Mismatch

(* Lines 253-256. *)
StopAtStored ==
    /\ Accepted
    /\ next < smallest
    /\ WriteLast("ok")

(* Lines 258-272: a full batch is written before the block is put. *)
PutBlock ==
    /\ Accepted
    /\ next >= smallest
    /\ LET full == Cardinality(InBatch) >= BatchSize
       IN /\ db' = IF full THEN Written ELSE db
          /\ batch' = [(IF full THEN NoBatch ELSE batch)
                         EXCEPT ![next] = file[next]]
    /\ prev' = IF verify THEN ParentHash(next, Block) ELSE NoHash
    /\ next' = ItemBelow(file, next)
    /\ UNCHANGED <<parent, config, file, verify, smallest, phase, outcome>>

EndOfFile ==
    /\ phase = "loop"
    /\ next = -1
    /\ WriteLast("ok")

Return == phase = "return" /\ Exit

(* cmd/purge.rs, between two imports: it needs the database's lock. *)
Purge(from, to) ==
    /\ phase = "idle"
    /\ from <= to
    /\ (from .. to) \cap StoredBlocks # {}
    /\ db' = [n \in Height |-> IF n \in from .. to THEN Absent ELSE db[n]]
    /\ UNCHANGED <<parent, config, file, verify, smallest, next, prev, batch,
                   phase, outcome>>

ImportNext ==
    \/ \E f \in [Height -> Fork \cup {Absent, Malformed}], v \in BOOLEAN :
          Start(f, v)
    \/ Cancelled
    \/ ItemFails
    \/ Killed
    \/ StopAtStored
    \/ PutBlock
    \/ EndOfFile
    \/ Return
    \/ \E from, to \in Height : Purge(from, to)

ImportSpec == ImportInit /\ [][ImportNext]_importVars

-----------------------------------------------------------------------------
(* The items the loop has taken for import. *)
Imported == {n \in Items(file) : n > next /\ n >= smallest}

(* An import that reports success leaves every block of its file stored,   *)
(* whatever earlier imports were cancelled or killed half way (a file is   *)
(* imported from its last block down, so they leave gaps below what they   *)
(* stored), and "nothing to import" is only said when all are there.  With *)
(* --verify this holds of every number between the file's first and last   *)
(* block, since a missing file of an era directory breaks the hash chain   *)
(* (import.rs:181-199, 230-274).                                           *)
AllImported ==
    outcome \in {"ok", "nothing"} =>
        /\ Items(file) \subseteq StoredBlocks
        /\ verify /\ Items(file) # {} =>
              Min(Items(file)) .. Max(Items(file)) \subseteq StoredBlocks

(* With --verify, the imported blocks are linked by their parent hashes,   *)
(* those in the open batch to those already written included, block zero   *)
(* has no parent, and where the file goes on below the imported blocks,    *)
(* the lowest of them is linked to the block in the database, not to the   *)
(* file's (import.rs:220-251).                                             *)
VerifiedLinks ==
    verify /\ (phase = "loop" \/ outcome = "ok") =>
        /\ \A n \in Imported :
              n - 1 \in Imported => parent[n][Written[n]] = Written[n - 1]
        /\ 0 \in Imported => parent[0][Written[0]] = Zero
        /\ outcome = "ok" /\ smallest \in Imported /\ smallest - 1 \in Items(file)
              => parent[smallest][db[smallest]] = db[smallest - 1]

(* An import stores nothing but blocks of its file, none below             *)
(* smallest_import_block_number, and from above: with a block, everything  *)
(* the file has above it is stored.  So wherever it is cancelled, fails or *)
(* is killed, it has replaced an upper part of what it was to import by    *)
(* the blocks of the file and left all the rest alone (import.rs:253-274). *)
UpperPartStored ==
    phase = "loop" =>
        \A n \in Height : db'[n] # db[n] =>
            /\ n >= smallest
            /\ \A k \in Items(file) : k >= n => db'[k] = file[k]
            /\ n \in Items(file)

StoresFromAbove == [][UpperPartStored]_importVars

(* What the command's help says of --verify: the parent hashes are         *)
(* verified (cli.rs:38-39), so after a verified import the lowest imported *)
(* block is linked to the stored block below it.                           *)
JunctionVerified ==
    verify /\ outcome = "ok" /\ smallest > 0 /\ smallest \in Imported
        => parent[smallest][db[smallest]] = db[smallest - 1]
=============================================================================
