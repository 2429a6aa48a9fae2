----------------------------- MODULE ReplayState -----------------------------
(***************************************************************************)
(* The state database of a replay and those who use it (go/replay):        *)
(*   - stage 2 applies blocks and, when one is due, takes a snapshot:      *)
(*     the state is closed, its directory copied, and a new state opened;  *)
(*   - stage 3 may flush the state for the progress report, and submits    *)
(*     checked blocks to the pool of the archive verifier;                 *)
(*   - the goroutines of the archive verifier read the height of the       *)
(*     archive and execute blocks of the pool against it;                  *)
(*   - the main goroutine waits for all of them and closes the state.      *)
(* stateSwitchMutex is a Go RWMutex: a waiting writer keeps new readers    *)
(* out.  Snapshot directories are named after their block.                 *)
(***************************************************************************)
EXTENDS Integers, FiniteSets

CONSTANTS
    Verifier,         \* goroutines of the archive verifier (at most 8)
    LastBlock,        \* blocks 1 .. LastBlock are replayed
    blockInterval, startBlock, endBlock, snapshotToKeep,  \* NewSnapshotHandler
    poolCapacity,     \* capacity of the verifier's pool
    Prior,            \* snapshot directories left by an earlier replay
    KeepDB,           \* --keep-db
    SnapshotMayFail   \* whether the file system may fail a snapshot

ASSUME ReplayStateAssumption ==
    /\ LastBlock \in Nat
    /\ blockInterval \in Nat \ {0} /\ startBlock \in Nat /\ endBlock \in Nat
    /\ snapshotToKeep \in Nat \ {0} /\ poolCapacity \in Nat \ {0}
    /\ {KeepDB, SnapshotMayFail} \subseteq BOOLEAN
    /\ Prior \subseteq Nat
    /\ {"apply", "check"} \cap Verifier = {}

Block == 1 .. LastBlock
NoSnapshot == 0
Slot == 0 .. (snapshotToKeep - 1)

VARIABLES
    height,       \* the last block applied to the state
    archive,      \* the last block in the archive, which lags behind
    open,         \* the adapter's state is open (its db is not nil)
    readers,      \* who holds stateSwitchMutex for reading
    writer,       \* stateSwitchMutex for writing: "free", "waiting", "held"
    modifier,     \* stateModifyMutex is held
    apply, sent,  \* stage 2, and the last block it passed to stage 3
    check, checked,          \* stage 3, and the last block it is done with
    pool,                    \* the blocks the verifier may choose from
    verify, archiveHeight, verified,  \* each verification, what it has read and chosen
    pastSnapshotList, pastSnapshotIndex, \* SnapshotHandler
    dirs,                    \* snapshot directories on disk
    main                     \* "running", "closing", "closed"

lock == <<readers, writer, modifier>>
live == <<height, apply, sent>>
stage3 == <<check, checked, pool>>
verifiers == <<verify, archiveHeight, verified>>
snapshots == <<pastSnapshotList, pastSnapshotIndex, dirs>>
vars == <<lock, live, archive, open, stage3, verifiers, snapshots, main>>

TypeOK ==
    /\ {height, archive, sent, checked} \subseteq 0 .. LastBlock
    /\ open \in BOOLEAN /\ modifier \in BOOLEAN
    /\ readers \subseteq {"apply", "check"} \cup Verifier
    /\ writer \in {"free", "waiting", "held"}
    /\ apply \in {"next", "lock", "apply", "snapshot", "remove", "close", "copy",
                  "reopen", "returned", "failed"}
    /\ check \in {"next", "flush", "submit", "returned"}
    /\ pool \subseteq Block /\ Cardinality(pool) <= poolCapacity
    /\ verify \in [Verifier -> {"idle", "height", "choose", "chosen", "apply"}]
    /\ archiveHeight \in [Verifier -> 0 .. LastBlock]
    /\ verified \in [Verifier -> 0 .. LastBlock]
    /\ pastSnapshotList \in [Slot -> Block \cup {NoSnapshot}]
    /\ pastSnapshotIndex \in Slot
    /\ dirs \subseteq Block \cup Prior
    /\ main \in {"running", "closing", "closed"}

(* prepareStateDbDir leaves the directories of earlier replays alone. *)
Init ==
    /\ height = 0 /\ archive = 0 /\ open = TRUE
    /\ readers = {} /\ writer = "free" /\ modifier = FALSE
    /\ apply = "next" /\ sent = 0
    /\ check = "next" /\ checked = 0 /\ pool = {}
    /\ verify = [v \in Verifier |-> "idle"]
    /\ archiveHeight = [v \in Verifier |-> 0]
    /\ verified = [v \in Verifier |-> 0]
    /\ pastSnapshotList = [i \in Slot |-> NoSnapshot]
    /\ pastSnapshotIndex = 0
    /\ dirs = Prior
    /\ main = "running"

-----------------------------------------------------------------------------
(* stateSwitchMutex *)
RLock(thread) ==
    /\ writer = "free"
    /\ readers' = readers \cup {thread}
    /\ UNCHANGED writer

RUnlock(thread) ==
    /\ readers' = readers \ {thread}
    /\ UNCHANGED writer

-----------------------------------------------------------------------------
(* Stage 2: ApplyBlock *)

ApplyLockSwitch ==
    /\ apply = "next"
    /\ height < LastBlock
    /\ RLock("apply")
    /\ apply' = "lock"
    /\ UNCHANGED <<modifier, height, sent, archive, open, stage3, verifiers, snapshots, main>>

ApplyLockModify ==
    /\ apply = "lock"
    /\ ~ modifier
    /\ modifier' = TRUE
    /\ apply' = "apply"
    /\ UNCHANGED <<readers, writer, height, sent, archive, open, stage3, verifiers, snapshots, main>>

ApplyBlock ==
    /\ apply = "apply"
    /\ height' = height + 1
    /\ modifier' = FALSE
    /\ RUnlock("apply")
    /\ apply' = "snapshot"
    /\ UNCHANGED <<sent, archive, open, stage3, verifiers, snapshots, main>>

(* Carmen adds applied blocks to the archive in the background. *)
ArchiveBlock ==
    /\ open
    /\ archive < height
    /\ archive' = archive + 1
    /\ UNCHANGED <<lock, live, open, stage3, verifiers, snapshots, main>>

(* The iterator is exhausted or the context is cancelled; or a block       *)
(* cannot be applied, or another stage has failed.                         *)
ApplyReturns ==
    /\ apply = "next"
    /\ apply' \in {"returned", "failed"}
    /\ UNCHANGED <<lock, height, sent, archive, open, stage3, verifiers, snapshots, main>>

-----------------------------------------------------------------------------
(* Stage 2: MaybeSnapshot *)

ShouldCreateSnapshot(block) ==
    /\ block >= startBlock
    /\ block <= endBlock
    /\ block % blockInterval = 0

NoSnapshotDue ==
    /\ apply = "snapshot"
    /\ ~ ShouldCreateSnapshot(height)
    /\ apply' = "next"
    /\ sent' = height
    /\ UNCHANGED <<lock, height, archive, open, stage3, verifiers, snapshots, main>>

(* The future is awaited; then the lock is requested ... *)
SnapshotWait ==
    /\ apply = "snapshot"
    /\ ShouldCreateSnapshot(height)
    /\ writer = "free"
    /\ writer' = "waiting"
    /\ UNCHANGED <<readers, modifier, live, archive, open, stage3, verifiers, snapshots, main>>

(* Mutation: the lock is granted while there are readers. *)
SnapshotLockEarly ==
    /\ writer = "waiting"
    /\ writer' = "held"
    /\ apply' = "remove"
    /\ UNCHANGED <<readers, modifier, height, sent, archive, open, stage3, verifiers, snapshots, main>>

(* ... and granted when the last reader is gone. *)
SnapshotLock ==
    /\ writer = "waiting"
    /\ readers = {}
    /\ writer' = "held"
    /\ apply' = "remove"
    /\ UNCHANGED <<readers, modifier, height, sent, archive, open, stage3, verifiers, snapshots, main>>

(* An error: the lock is released, the adapter keeps the state it had. *)
SnapshotFails ==
    /\ SnapshotMayFail
    /\ writer' = "free"
    /\ apply' = "failed"

(* GetOldestSnapshotDir: the first entry from pastSnapshotIndex on *)
GetOldestSnapshot ==
    LET at(count) == pastSnapshotList[(pastSnapshotIndex + count) % snapshotToKeep]
        taken == {count \in Slot : at(count) # NoSnapshot}
    IN  IF taken = {} THEN NoSnapshot
        ELSE at(CHOOSE count \in taken : \A other \in taken : count <= other)

(* Mutation: the oldest snapshot stays. *)
RemoveNothing == dirs

RemoveOldest ==
    IF pastSnapshotList[pastSnapshotIndex] # NoSnapshot
    THEN dirs \ {GetOldestSnapshot} ELSE dirs

(* The oldest snapshot is removed, the new one is noted in its place, and  *)
(* a directory of that name is removed.  Either removal may fail.          *)
SnapshotRemove ==
    /\ apply = "remove"
    /\ \/ /\ pastSnapshotList[pastSnapshotIndex] # NoSnapshot
          /\ SnapshotFails
          /\ UNCHANGED snapshots
       \/ /\ pastSnapshotList' = [pastSnapshotList EXCEPT ![pastSnapshotIndex] = height]
          /\ pastSnapshotIndex' = (pastSnapshotIndex + 1) % snapshotToKeep
          /\ \/ dirs' = RemoveOldest /\ SnapshotFails
             \/ /\ dirs' = RemoveOldest \ {height}
                /\ apply' = "close"
                /\ UNCHANGED writer
    /\ UNCHANGED <<readers, modifier, height, sent, archive, open, stage3, verifiers, main>>

(* State.Close: db is nil afterwards, error or not.  Everything applied is *)
(* in the archive once it is closed.                                       *)
SnapshotClose ==
    /\ apply = "close"
    /\ open' = FALSE
    /\ archive' = height
    /\ SnapshotFails \/ (apply' = "copy" /\ UNCHANGED writer)
    /\ UNCHANGED <<readers, modifier, height, sent, stage3, verifiers, snapshots, main>>

(* os.CopyFS: a copy that fails may leave a part of the directory. *)
SnapshotCopy ==
    /\ apply = "copy"
    /\ \/ dirs' \in {dirs, dirs \cup {height}} /\ SnapshotFails
       \/ dirs' = dirs \cup {height} /\ apply' = "reopen" /\ UNCHANGED writer
    /\ UNCHANGED <<readers, modifier, height, sent, archive, open, stage3, verifiers,
                   pastSnapshotList, pastSnapshotIndex, main>>

SnapshotReopen ==
    /\ apply = "reopen"
    /\ \/ SnapshotFails /\ UNCHANGED <<open, sent>>
       \/ open' = TRUE /\ sent' = height /\ writer' = "free" /\ apply' = "next"
    /\ UNCHANGED <<readers, modifier, height, archive, stage3, verifiers, snapshots, main>>

-----------------------------------------------------------------------------
(* Stage 3: LogProgress flushes the state for some blocks *)

FlushLock ==
    /\ check = "next"
    /\ checked < sent
    /\ RLock("check")
    /\ check' = "flush"
    /\ UNCHANGED <<modifier, live, archive, open, checked, pool, verifiers, snapshots, main>>

(* Mutation: the lock is not released. *)
FlushStateKeepsLock ==
    /\ check = "flush"
    /\ check' = "submit"
    /\ UNCHANGED <<lock, live, archive, open, checked, pool, verifiers, snapshots, main>>

FlushState ==
    /\ check = "flush"
    /\ RUnlock("check")
    /\ check' = "submit"
    /\ UNCHANGED <<modifier, live, archive, open, checked, pool, verifiers, snapshots, main>>

NoFlush ==
    /\ check = "next"
    /\ checked < sent
    /\ check' = "submit"
    /\ UNCHANGED <<lock, live, archive, open, checked, pool, verifiers, snapshots, main>>

(* submit and RandomRetentionPool.Add *)
Submit ==
    /\ check = "submit"
    /\ checked' = checked + 1
    /\ \/ Cardinality(pool) < poolCapacity /\ pool' = pool \cup {checked + 1}
       \/ /\ Cardinality(pool) = poolCapacity
          /\ \E replaced \in pool : pool' = (pool \ {replaced}) \cup {checked + 1}
    /\ check' = "next"
    /\ UNCHANGED <<lock, live, archive, open, verifiers, snapshots, main>>

(* The channel of results is closed and empty. *)
CheckReturns ==
    /\ check = "next"
    /\ checked = sent
    /\ apply \in {"returned", "failed"}
    /\ check' = "returned"
    /\ UNCHANGED <<lock, live, archive, open, checked, pool, verifiers, snapshots, main>>

-----------------------------------------------------------------------------
(* The archive verifier: verifyBlock.  The height of the archive and the   *)
(* block are read under two different holdings of the lock.                *)

VerifyStart(v) ==
    /\ main = "running"
    /\ verify[v] = "idle"
    /\ RLock(v)
    /\ verify' = [verify EXCEPT ![v] = "height"]
    /\ UNCHANGED <<modifier, live, archive, open, stage3, archiveHeight, verified, snapshots, main>>

GetArchiveBlockHeight(v) ==
    /\ verify[v] = "height"
    /\ archiveHeight' = [archiveHeight EXCEPT ![v] = archive]
    /\ RUnlock(v)
    /\ verify' = [verify EXCEPT ![v] = "choose"]
    /\ UNCHANGED <<modifier, live, archive, open, stage3, verified, snapshots, main>>

(* Mutation: a block is taken whose parent is not in the archive. *)
InArchiveOneMore(b, v) == b <= archiveHeight[v] + 2

InArchive(b, v) == b <= archiveHeight[v] + 1

(* Up to ten random entries of the pool: one that the archive can verify   *)
(* is chosen; the attempts may all miss if there is one that it cannot.    *)
Choose(v) ==
    /\ verify[v] = "choose"
    /\ \/ \E b \in pool :
             /\ InArchive(b, v)
             /\ verified' = [verified EXCEPT ![v] = b]
             /\ verify' = [verify EXCEPT ![v] = "chosen"]
       \/ /\ pool = {} \/ (\E b \in pool : ~ InArchive(b, v))
          /\ verify' = [verify EXCEPT ![v] = "idle"]
          /\ UNCHANGED verified
    /\ UNCHANGED <<lock, live, archive, open, stage3, archiveHeight, snapshots, main>>

ApplyArchiveLock(v) ==
    /\ verify[v] = "chosen"
    /\ RLock(v)
    /\ verify' = [verify EXCEPT ![v] = "apply"]
    /\ UNCHANGED <<modifier, live, archive, open, stage3, archiveHeight, verified, snapshots, main>>

ApplyArchiveBlock(v) ==
    /\ verify[v] = "apply"
    /\ RUnlock(v)
    /\ verify' = [verify EXCEPT ![v] = "idle"]
    /\ UNCHANGED <<modifier, live, archive, open, stage3, archiveHeight, verified, snapshots, main>>

-----------------------------------------------------------------------------
(* The deferred calls of Replay, in their order: archiveVerifier.close     *)
(* stops the dispatcher and waits for the verifications; the state of the  *)
(* adapter is closed; cleanupStateDbDir removes the snapshots that         *)
(* GetSnapshotDirs lists, unless the replay failed or --keep-db is given.  *)

CloseVerifier ==
    /\ main = "running"
    /\ apply \in {"returned", "failed"} /\ check = "returned"
    /\ main' = "closing"
    /\ UNCHANGED <<lock, live, archive, open, stage3, verifiers, snapshots>>

(* Mutation: the list is read up to the index only. *)
SnapshotDirsUpToIndex ==
    {pastSnapshotList[i] : i \in {j \in Slot : j < pastSnapshotIndex}} \ {NoSnapshot}

GetSnapshotDirs == {pastSnapshotList[i] : i \in Slot} \ {NoSnapshot}

CloseState ==
    /\ main = "closing"
    /\ \A v \in Verifier : verify[v] = "idle"
    /\ open' = FALSE
    /\ archive' = height
    /\ dirs' = IF KeepDB \/ apply = "failed" THEN dirs ELSE dirs \ GetSnapshotDirs
    /\ main' = "closed"
    /\ UNCHANGED <<lock, live, stage3, verifiers, pastSnapshotList, pastSnapshotIndex>>

Finished == main = "closed" /\ UNCHANGED vars

-----------------------------------------------------------------------------
Snapshot ==
    NoSnapshotDue \/ SnapshotWait \/ SnapshotLock \/ SnapshotRemove \/ SnapshotClose
    \/ SnapshotCopy \/ SnapshotReopen

Apply == ApplyLockSwitch \/ ApplyLockModify \/ ApplyBlock \/ ApplyReturns \/ Snapshot

Check == FlushLock \/ FlushState \/ NoFlush \/ Submit \/ CheckReturns

(* A verification once it is started. *)
Verify(v) ==
    GetArchiveBlockHeight(v) \/ Choose(v) \/ ApplyArchiveLock(v) \/ ApplyArchiveBlock(v)

Main == CloseVerifier \/ CloseState

Next ==
    \/ Apply \/ ArchiveBlock \/ Check \/ Main \/ Finished
    \/ \E v \in Verifier : VerifyStart(v) \/ Verify(v)

Spec == Init /\ [][Next]_vars

(* Goroutines are scheduled.  Verifications may start forever: only those  *)
(* started are sure to go on, and the choice to end the replay is made     *)
(* when the blocks are exhausted at the latest.                            *)
FairSpec ==
    /\ Spec
    /\ WF_vars(Apply) /\ WF_vars(Check) /\ WF_vars(Main)
    /\ \A v \in Verifier : WF_vars(Verify(v))

-----------------------------------------------------------------------------
(* Everyone who uses the state database: stage 2, the flush, and both      *)
(* calls of a verification.                                                *)
Using ==
    \/ apply = "apply"
    \/ check = "flush"
    \/ \E v \in Verifier : verify[v] \in {"height", "apply"}

(* "After calling Close, the State instance should not be used anymore"    *)
(* (state.go) and "the stateChainAdapter always holds the currently open   *)
(* state" (replay.go): nobody uses the state of the adapter while it is    *)
(* closed for a snapshot or after the replay.                              *)
NoUseAfterClose == Using => open

(* What is left of that promise when a snapshot may fail: while the replay *)
(* goes on nobody uses a closed state, whatever the readers, the waiting   *)
(* writer and the end of the replay do; a closed state is used only after  *)
(* stage 2 has failed (replay.go: the calls under stateSwitchMutex).       *)
UsedWhileOpen == Using => open \/ apply = "failed"

(* A verification finds the state of the parent of its block in the        *)
(* archive, although the height it read is old when it uses it and the     *)
(* state may have been replaced in between.                                *)
ArchiveHasParent ==
    \A v \in Verifier : verify[v] = "apply" => verified[v] - 1 <= archive

(* The blocks at which a snapshot has been taken so far. *)
Due == {b \in 1 .. sent : ShouldCreateSnapshot(b)}
Newest(S) == {b \in S : Cardinality({c \in S : c > b}) < snapshotToKeep}

(* The directories of this replay are those of its newest snapshots,       *)
(* "to keep the specified number of snapshots" (snapshot_handler.go), and  *)
(* SnapshotHandler knows all of them, after a failure as well: a cleanup   *)
(* forgets none.                                                           *)
SnapshotsKept ==
    /\ dirs \ Prior \subseteq GetSnapshotDirs
    /\ Cardinality(dirs \ Prior) <= snapshotToKeep
    /\ apply \in {"next", "returned"} /\ main # "closed" => dirs \ Prior = Newest(Due) \ Prior

(* A replay without errors and without --keep-db leaves no snapshot. *)
CleanupIsComplete ==
    main = "closed" /\ ~ KeepDB /\ apply = "returned" => dirs \cap Due \subseteq Prior

(* No one waits forever for a lock, a result or a verification: the replay *)
(* ends and closes its state.                                              *)
ReplayEnds == <>(main = "closed")

(* "Do you want to delete the existing snapshots and continue (y/n)?"      *)
(* (replay.go): who goes on has none of the earlier snapshots left at the  *)
(* end, but those that were taken anew.                                    *)
ExistingSnapshotsDeleted ==
    main = "closed" => dirs \cap Prior \subseteq GetSnapshotDirs
=============================================================================
