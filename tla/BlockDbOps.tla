----------------------------- MODULE BlockDbOps -----------------------------
(***************************************************************************)
(* The operations of the block database as functions of its contents       *)
(* (blockservice/src/db/blockdb.rs, rocksdb.rs and go/blockdb/block_db.go).*)
(*                                                                         *)
(* The contents are the record kv: one field per kind of key of the layout *)
(* at blockdb.rs:512-522.  Every operation that writes does so in one      *)
(* RocksDB write batch, which is atomic: it maps kv to the new contents.   *)
(* The list of chain IDs is kept sorted by binary search and is a set      *)
(* here; a list of ranges is the set of its ranges (module Ranges).        *)
(***************************************************************************)
EXTENDS Ranges, FiniteSets

CONSTANTS
    Chain,     \* chain IDs
    MaxBlock,  \* largest block number; below u64::MAX
    Payload,   \* encoded blocks
    NoBlock,   \* no entry under a block key
    MetaKind   \* rules update heights, corrections, failed bundles

ASSUME BlockDbAssumption ==
    /\ MaxBlock \in Nat
    /\ NoBlock \notin Payload

Number == 0 .. MaxBlock
BlockRange == Number \X Number

KvType ==
    [version  : BOOLEAN,                        \* key 00 00
     chainIds : SUBSET Chain,                   \* key 00 01
     ranges   : [Chain -> SUBSET BlockRange],   \* keys 01 chain 00
     meta     : [Chain -> SUBSET MetaKind],     \* keys 01 chain 01..03
     blocks   : [Chain \X Number -> Payload \cup {NoBlock}]] \* keys 02 chain n

EmptyKv ==
    [version  |-> FALSE,
     chainIds |-> {},
     ranges   |-> [c \in Chain |-> {}],
     meta     |-> [c \in Chain |-> {}],
     blocks   |-> [k \in Chain \X Number |-> NoBlock]]

(* The numbers of the blocks stored for chain c. *)
StoredIn(blocks, c) == {n \in Number : blocks[<<c, n>>] # NoBlock}
Stored(kv, c) == StoredIn(kv.blocks, c)

-----------------------------------------------------------------------------
(* KvDbBackedBlockDb::create: the format version is the first entry. *)
CreateDb(kv) == [kv EXCEPT !.version = TRUE]

(* put_bytes *)
PutBytes(kv, c, n, data) ==
    [kv EXCEPT !.blocks[<<c, n>>] = data,
               !.ranges[c] = AddRange(@, <<n, n>>),
               !.chainIds = @ \cup {c}]

(* Mutation: the end key is not deleted. *)
DeleteRangeHalfOpen(blocks, c, start, end) ==
    [k \in DOMAIN blocks |->
        IF k[1] = c /\ start <= k[2] /\ k[2] < end THEN NoBlock ELSE blocks[k]]

(* RocksDbBatch::delete_range_raw: RocksDB's range deletion excludes the   *)
(* end key, which is deleted on its own.                                   *)
DeleteRangeRaw(blocks, c, start, end) ==
    [k \in DOMAIN blocks |->
        IF k[1] = c /\ (k[2] = end \/ (start <= k[2] /\ k[2] < end))
        THEN NoBlock ELSE blocks[k]]

(* delete_range, for start <= end.  The chain ID stays in the list. *)
DeleteRange(kv, c, start, end) ==
    [kv EXCEPT !.blocks = DeleteRangeRaw(@, c, start, end),
               !.ranges[c] = SubtractRange(@, <<start, end>>)]

(* put_rules_update_heights, put_corrections, put_failed_bundles *)
PutMeta(kv, c, kind) ==
    [kv EXCEPT !.meta[c] = @ \cup {kind},
               !.chainIds = @ \cup {c}]

-----------------------------------------------------------------------------
(* A batch: the raw puts and, kept along with them, their ranges. *)
BatchType ==
    [puts   : [Chain \X Number -> Payload \cup {NoBlock}],
     ranges : [Chain -> SUBSET BlockRange]]

EmptyBatch ==
    [puts   |-> [k \in Chain \X Number |-> NoBlock],
     ranges |-> [c \in Chain |-> {}]]

(* KvDbBatchWrapper::put_bytes *)
BatchPut(b, c, n, data) ==
    [b EXCEPT !.puts[<<c, n>>] = data,
              !.ranges[c] = AddRange(@, <<n, n>>)]

(* The chains with an entry in block_ranges of the batch. *)
BatchChains(b) == {c \in Chain : b.ranges[c] # {}}

(* write_batch: the ranges of the batch are merged into the ranges stored  *)
(* at the time of the write. *)
WriteBatch(kv, b) ==
    IF BatchChains(b) = {} THEN kv
    ELSE [kv EXCEPT
            !.blocks = [k \in DOMAIN @ |->
                           IF b.puts[k] # NoBlock THEN b.puts[k] ELSE @[k]],
            !.ranges = [c \in Chain |->
                           IF c \in BatchChains(b)
                           THEN AddRanges(@[c], b.ranges[c]) ELSE @[c]],
            !.chainIds = @ \cup BatchChains(b)]

-----------------------------------------------------------------------------
(* The Go side writes single keys and leaves the metadata alone. *)

(* RocksDB.Update *)
GoUpdate(kv, c, n, data) == [kv EXCEPT !.blocks[<<c, n>>] = data]

(* RocksDB.PutRulesUpdateHeights *)
GoPutRules(kv, c, kind) == [kv EXCEPT !.meta[c] = @ \cup {kind}]

-----------------------------------------------------------------------------
(* The metadata of kv describes its blocks: the ranges of every chain are  *)
(* those of the blocks it has, ... *)
RangesMatchBlocks(kv) == \A c \in Chain : kv.ranges[c] = Canonical(Stored(kv, c))

(* ... and a chain that has anything is in the list of chains. *)
ChainsListed(kv) ==
    \A c \in Chain : Stored(kv, c) # {} \/ kv.meta[c] # {} => c \in kv.chainIds

Consistent(kv) == RangesMatchBlocks(kv) /\ ChainsListed(kv)
=============================================================================
