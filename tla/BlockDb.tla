------------------------------- MODULE BlockDb -------------------------------
(***************************************************************************)
(* The block database and the processes that use it: at most one process   *)
(* has it open for writing (RocksDB's lock), the blockservice or the Go    *)
(* replay; a secondary instance reads it and catches up from time to time. *)
(* A write is in the write-ahead log when the call returns, but it is not  *)
(* synced: a crash of the process loses no write, a crash of the machine   *)
(* loses those since the last flush.  Batches are built in memory while    *)
(* other writes go on.                                                     *)
(***************************************************************************)
EXTENDS BlockDbOps

CONSTANTS NoBatch, NoView, RulesKind

ASSUME RulesKindAssumption == RulesKind \in MetaKind

VARIABLES
    exists,  \* the files of the database have been created
    kv,      \* the contents as the primary instance sees them
    disk,    \* the contents that survive a crash of the machine
    owner,   \* who holds the lock of the primary instance
    batch,   \* the batch under construction in the blockservice
    view     \* the contents as the secondary instance sees them

vars == <<exists, kv, disk, owner, batch, view>>

TypeOK ==
    /\ exists \in BOOLEAN
    /\ kv \in KvType
    /\ disk \in KvType
    /\ owner \in {"none", "init", "blockservice", "replay"}
    /\ batch \in BatchType \cup {NoBatch}
    /\ view \in KvType \cup {NoView}

Init ==
    /\ exists = FALSE
    /\ kv = EmptyKv
    /\ disk = EmptyKv
    /\ owner = "none"
    /\ batch = NoBatch
    /\ view = NoView

-----------------------------------------------------------------------------
(* Opening and closing the primary instance. *)

(* RocksDb::create: an error if the database exists *)
CreateFiles ==
    /\ owner = "none"
    /\ ~ exists
    /\ exists' = TRUE
    /\ owner' = "init"
    /\ UNCHANGED <<kv, disk, batch, view>>

(* KvDbBackedBlockDb::create: an error if there is any entry.  The init    *)
(* command then drops the database.                                        *)
Create ==
    /\ owner = "init"
    /\ kv = EmptyKv
    /\ kv' = CreateDb(kv)
    /\ owner' = "none"
    /\ UNCHANGED <<exists, disk, batch, view>>

(* KvDbBackedBlockDb::open and Go's openRocksDB check the version. *)
Open(process) ==
    /\ owner = "none"
    /\ kv.version
    /\ owner' = process
    /\ UNCHANGED <<exists, kv, disk, batch, view>>

(* Close, exit or crash of the writing process. *)
ReleasePrimary ==
    /\ owner # "none"
    /\ owner' = "none"
    /\ batch' = NoBatch
    /\ UNCHANGED <<exists, kv, disk, view>>

-----------------------------------------------------------------------------
(* Writes of the blockservice. *)

Put(c, n, data) ==
    /\ owner = "blockservice"
    /\ kv' = PutBytes(kv, c, n, data)
    /\ UNCHANGED <<exists, disk, owner, batch, view>>

(* With start > end the call fails before it changes anything. *)
Delete(c, start, end) ==
    /\ owner = "blockservice"
    /\ start <= end
    /\ kv' = DeleteRange(kv, c, start, end)
    /\ UNCHANGED <<exists, disk, owner, batch, view>>

PutMetadata(c, kind) ==
    /\ owner = "blockservice"
    /\ kv' = PutMeta(kv, c, kind)
    /\ UNCHANGED <<exists, disk, owner, batch, view>>

BeginBatch ==
    /\ owner = "blockservice"
    /\ batch = NoBatch
    /\ batch' = EmptyBatch
    /\ UNCHANGED <<exists, kv, disk, owner, view>>

PutInBatch(c, n, data) ==
    /\ batch # NoBatch
    /\ batch' = BatchPut(batch, c, n, data)
    /\ UNCHANGED <<exists, kv, disk, owner, view>>

CommitBatch ==
    /\ batch # NoBatch
    /\ kv' = WriteBatch(kv, batch)
    /\ batch' = NoBatch
    /\ UNCHANGED <<exists, disk, owner, view>>

(* The owner of the batch returns early and drops it. *)
DropBatch ==
    /\ batch # NoBatch
    /\ batch' = NoBatch
    /\ UNCHANGED <<exists, kv, disk, owner, view>>

-----------------------------------------------------------------------------
(* Writes of the replay: it stores a state root in a block it has read,    *)
(* and rules updates of the chain whose blocks it replays.                 *)
Update(c, n, data) ==
    /\ owner = "replay"
    /\ n \in Stored(kv, c)
    /\ kv' = GoUpdate(kv, c, n, data)
    /\ UNCHANGED <<exists, disk, owner, batch, view>>

PutRulesUpdateHeights(c) ==
    /\ owner = "replay"
    /\ Stored(kv, c) # {}
    /\ kv' = GoPutRules(kv, c, RulesKind)
    /\ UNCHANGED <<exists, disk, owner, batch, view>>

-----------------------------------------------------------------------------
(* The secondary instance. *)
OpenForReading ==
    /\ view = NoView
    /\ kv.version
    /\ view' = kv
    /\ UNCHANGED <<exists, kv, disk, owner, batch>>

TryCatchUpWithPrimary ==
    /\ view # NoView
    /\ view' = kv
    /\ UNCHANGED <<exists, kv, disk, owner, batch>>

CloseReader ==
    /\ view # NoView
    /\ view' = NoView
    /\ UNCHANGED <<exists, kv, disk, owner, batch>>

-----------------------------------------------------------------------------
(* RocksDB flushes when it sees fit. *)
Flush ==
    /\ disk' = kv
    /\ UNCHANGED <<exists, kv, owner, batch, view>>

MachineCrash ==
    /\ kv' = disk
    /\ owner' = "none"
    /\ batch' = NoBatch
    /\ view' = NoView
    /\ UNCHANGED <<exists, disk>>

-----------------------------------------------------------------------------
Next ==
    \/ CreateFiles \/ Create
    \/ \E process \in {"blockservice", "replay"} : Open(process)
    \/ ReleasePrimary
    \/ \E c \in Chain, n \in Number, data \in Payload :
          Put(c, n, data) \/ PutInBatch(c, n, data) \/ Update(c, n, data)
    \/ \E c \in Chain, start, end \in Number : Delete(c, start, end)
    \/ \E c \in Chain, kind \in MetaKind : PutMetadata(c, kind)
    \/ \E c \in Chain : PutRulesUpdateHeights(c)
    \/ BeginBatch \/ CommitBatch \/ DropBatch
    \/ OpenForReading \/ TryCatchUpWithPrimary \/ CloseReader
    \/ Flush \/ MachineCrash

Spec == Init /\ [][Next]_vars

-----------------------------------------------------------------------------
(* "All operations that modify the block database also update the metadata *)
(* as one atomic operation" (blockdb.rs, trait BlockDb): in the primary,   *)
(* after a crash of the machine and in every reader, the ranges of a chain *)
(* are exactly those of its stored blocks, and every chain with data is    *)
(* listed -- although batches are built against older contents and the     *)
(* replay writes blocks and rules without touching ranges or chain IDs.    *)
MetadataMatchesBlocks ==
    /\ Consistent(kv)
    /\ Consistent(disk)
    /\ view # NoView => Consistent(view)

(* The ranges a batch carries are those of the blocks put in it, and only  *)
(* the process that holds the lock has a batch.                            *)
BatchDescribesItself ==
    batch # NoBatch =>
        /\ owner = "blockservice"
        /\ \A c \in Chain : batch.ranges[c] = Canonical(StoredIn(batch.puts, c))

=============================================================================
