-------------------------- MODULE ReplayStateProofs --------------------------
(***************************************************************************)
(* Proof that the state database is not used while it is closed, that a    *)
(* verification finds its parent state, and that the snapshot directories  *)
(* are the newest ones, for any number of verifications, blocks and        *)
(* snapshots to keep.                                                      *)
(***************************************************************************)
EXTENDS ReplayState, FiniteSetTheorems, TLAPS

(* Where each goroutine is tells what it holds of stateSwitchMutex: *)
LocksHeld ==
    /\ "apply" \in readers <=> apply \in {"lock", "apply"}
    /\ "check" \in readers <=> check = "flush"
    /\ \A v \in Verifier : v \in readers <=> verify[v] \in {"height", "apply"}
    /\ writer = "held" <=> apply \in {"remove", "close", "copy", "reopen"}
    /\ writer = "held" => readers = {}
    /\ writer = "waiting" => apply = "snapshot"

(* The state is closed by the writer, by its failure, or at the end, which *)
(* waits for everyone: *)
ClosedByWriter ==
    /\ ~ open => apply \in {"copy", "reopen", "failed"} \/ main = "closed"
    /\ main # "running" => apply \in {"returned", "failed"} /\ check = "returned"
    /\ main = "closed" => \A v \in Verifier : verify[v] = "idle"

(* The archive lags behind, and no height read from it is ahead of it: *)
ArchiveLags ==
    /\ archive <= height
    /\ \A v \in Verifier :
          /\ archiveHeight[v] <= archive
          /\ verify[v] \in {"chosen", "apply"} => verified[v] <= archiveHeight[v] + 1

(* How far the stages are: *)
Progress ==
    /\ apply \in {"next", "lock", "apply", "returned"} => sent = height
    /\ apply \in {"lock", "apply"} => height < LastBlock
    /\ apply \in {"snapshot", "remove", "close", "copy", "reopen"} => sent = height - 1
    /\ sent <= height
    /\ checked <= sent
    /\ check \in {"flush", "submit"} => checked < sent
    /\ writer = "waiting" => ShouldCreateSnapshot(height)
    /\ apply \in {"remove", "close", "copy", "reopen"} => ShouldCreateSnapshot(height)

(* The entry of the ring that is the count-th oldest, empty ones first. *)
At(count) == pastSnapshotList[(pastSnapshotIndex + count) % snapshotToKeep]

Above(S, b) == Cardinality({c \in S : c > b})

(* The ring holds the newest of the snapshots S, in their order: *)
RingHolds(S) ==
    /\ \A count \in Slot :
          At(count) # NoSnapshot =>
              At(count) \in S /\ Above(S, At(count)) = snapshotToKeep - 1 - count
    /\ \A b \in S : Above(S, b) < snapshotToKeep => \E count \in Slot : At(count) = b

Noted == IF apply \in {"close", "copy", "reopen"} THEN Due \cup {height} ELSE Due

(* The directories are those in the ring, but for the one being written: *)
DirsMatchRing ==
    /\ apply # "failed" => RingHolds(Noted)
    /\ dirs \ Prior \subseteq GetSnapshotDirs
    /\ apply \in {"next", "lock", "apply", "snapshot", "remove", "reopen", "returned"}
         /\ main # "closed" =>
           dirs \ Prior = GetSnapshotDirs \ Prior
    /\ apply \in {"close", "copy"} => dirs \ Prior = (GetSnapshotDirs \ {height}) \ Prior
    /\ main = "closed" /\ ~ KeepDB /\ apply = "returned" => dirs \subseteq Prior

LockInv == TypeOK /\ LocksHeld /\ ClosedByWriter /\ ArchiveLags /\ Progress
IInv == LockInv /\ DirsMatchRing

-----------------------------------------------------------------------------
(* Facts of the constants. *)
LEMMA Constants ==
    /\ LastBlock \in Nat /\ blockInterval \in Nat \ {0} /\ startBlock \in Nat /\ endBlock \in Nat
    /\ snapshotToKeep \in Nat /\ snapshotToKeep >= 1 /\ poolCapacity \in Nat /\ poolCapacity >= 1
    /\ Block = 1 .. LastBlock /\ Slot = 0 .. snapshotToKeep - 1
    /\ Prior \subseteq Nat
    /\ "apply" \notin Verifier /\ "check" \notin Verifier
  BY ReplayStateAssumption DEF Block, Slot

(* The pool of the verifier stays within its capacity: Add replaces an     *)
(* entry when it is full.                                                  *)
LEMMA PoolBounded ==
    ASSUME TypeOK, Submit, checked + 1 \in Block
    PROVE  pool' \subseteq Block /\ Cardinality(pool') <= poolCapacity
<1>1. pool \in SUBSET Block /\ Cardinality(pool) <= poolCapacity
  BY DEF TypeOK
<1>2. IsFiniteSet(pool) /\ Cardinality(pool) \in Nat
  <2>1. IsFiniteSet(Block)
    BY Constants, FS_Interval
  <2>. QED
    BY <1>1, <2>1, FS_Subset, FS_CardinalityType
<1>3. CASE Cardinality(pool) < poolCapacity /\ pool' = pool \cup {checked + 1}
  <2>1. Cardinality(pool') <= Cardinality(pool) + 1
    BY <1>2, <1>3, FS_AddElement
  <2>2. Cardinality(pool') \in Nat
    BY <1>2, <1>3, FS_AddElement, FS_CardinalityType
  <2>3. Cardinality(pool') <= poolCapacity
    BY <1>2, <1>3, <2>1, <2>2, Constants
  <2>. QED
    BY <1>1, <1>3, <2>3
<1>4. ASSUME NEW replaced \in pool, pool' = (pool \ {replaced}) \cup {checked + 1},
             Cardinality(pool) = poolCapacity
      PROVE  pool' \subseteq Block /\ Cardinality(pool') <= poolCapacity
  <2> DEFINE rest == pool \ {replaced}
  <2>1. IsFiniteSet(rest) /\ Cardinality(rest) = Cardinality(pool) - 1
    BY <1>2, <1>4, FS_RemoveElement
  <2>2. Cardinality(rest \cup {checked + 1}) \in {Cardinality(rest), Cardinality(rest) + 1}
    BY <2>1, FS_AddElement
  <2>3. Cardinality(pool') <= poolCapacity
    BY <1>2, <1>4, <2>1, <2>2, Constants
  <2>. QED
    BY <1>1, <1>4, <2>3
<1>. QED
  BY <1>3, <1>4 DEF Submit

(* The next place in the ring. *)
LEMMA NextSlot ==
    ASSUME NEW i \in Slot
    PROVE  /\ (i + 1) % snapshotToKeep \in Slot
           /\ i + 1 < snapshotToKeep => (i + 1) % snapshotToKeep = i + 1
           /\ i + 1 = snapshotToKeep => (i + 1) % snapshotToKeep = 0
<1>1. snapshotToKeep \in Nat /\ snapshotToKeep >= 1 /\ i \in Nat /\ i < snapshotToKeep
  BY Constants
<1>2. CASE i + 1 < snapshotToKeep
  BY <1>1, <1>2, Constants
<1>3. CASE i + 1 = snapshotToKeep
  <2>1. snapshotToKeep % snapshotToKeep = 0
    BY <1>1
  <2>. QED
    BY <1>1, <1>3, <2>1, Constants
<1>. QED
  BY <1>1, <1>2, <1>3

(* Stage 2 takes stateSwitchMutex for reading. *)
LEMMA ApplyLockSwitchKeepsLockInv ==
    ASSUME LockInv, ApplyLockSwitch
    PROVE  LockInv'
<1> USE Constants
<1>0. TypeOK /\ LocksHeld /\ ClosedByWriter /\ ArchiveLags /\ Progress
  BY DEF LockInv
<1>1. TypeOK'
  BY <1>0 DEF ApplyLockSwitch, RLock, TypeOK, Progress, lock, live, stage3, verifiers, snapshots
<1>2. LocksHeld'
  BY <1>0 DEF ApplyLockSwitch, RLock, LocksHeld, TypeOK, lock, live, stage3, verifiers
<1>3. ClosedByWriter'
  BY <1>0 DEF ApplyLockSwitch, RLock, LocksHeld, ClosedByWriter, TypeOK, lock, live, stage3, verifiers
<1>4. ArchiveLags'
  BY <1>0 DEF ApplyLockSwitch, RLock, ArchiveLags, TypeOK, lock, live, stage3, verifiers
<1>5. Progress'
  BY <1>0 DEF ApplyLockSwitch, RLock, Progress, LocksHeld, ShouldCreateSnapshot, TypeOK, lock, live, stage3, verifiers
<1>. QED
  BY <1>1, <1>2, <1>3, <1>4, <1>5 DEF LockInv

(* Stage 2 takes stateModifyMutex. *)
LEMMA ApplyLockModifyKeepsLockInv ==
    ASSUME LockInv, ApplyLockModify
    PROVE  LockInv'
<1> USE Constants
<1>0. TypeOK /\ LocksHeld /\ ClosedByWriter /\ ArchiveLags /\ Progress
  BY DEF LockInv
<1>1. TypeOK'
  BY <1>0 DEF ApplyLockModify, TypeOK, Progress, lock, live, stage3, verifiers, snapshots
<1>2. LocksHeld'
  BY <1>0 DEF ApplyLockModify, LocksHeld, TypeOK, lock, live, stage3, verifiers
<1>3. ClosedByWriter'
  BY <1>0 DEF ApplyLockModify, LocksHeld, ClosedByWriter, TypeOK, lock, live, stage3, verifiers
<1>4. ArchiveLags'
  BY <1>0 DEF ApplyLockModify, ArchiveLags, TypeOK, lock, live, stage3, verifiers
<1>5. Progress'
  BY <1>0 DEF ApplyLockModify, Progress, LocksHeld, ShouldCreateSnapshot, TypeOK, lock, live, stage3, verifiers
<1>. QED
  BY <1>1, <1>2, <1>3, <1>4, <1>5 DEF LockInv

(* Stage 2 has applied a block and releases both. *)
LEMMA ApplyBlockKeepsLockInv ==
    ASSUME LockInv, ApplyBlock
    PROVE  LockInv'
<1> USE Constants
<1>0. TypeOK /\ LocksHeld /\ ClosedByWriter /\ ArchiveLags /\ Progress
  BY DEF LockInv
<1>a. height + 1 \in 0 .. LastBlock
  BY <1>0 DEF TypeOK, Progress, ApplyBlock
<1>1. TypeOK'
  BY <1>0, <1>a DEF ApplyBlock, RUnlock, TypeOK, lock, live, stage3, verifiers, snapshots
<1>2. LocksHeld'
  BY <1>0 DEF ApplyBlock, RUnlock, LocksHeld, TypeOK, lock, live, stage3, verifiers
<1>3. ClosedByWriter'
  BY <1>0 DEF ApplyBlock, RUnlock, LocksHeld, ClosedByWriter, TypeOK, lock, live, stage3, verifiers
<1>4. ArchiveLags'
  BY <1>0 DEF ApplyBlock, RUnlock, ArchiveLags, TypeOK, lock, live, stage3, verifiers
<1>5. Progress'
  BY <1>0 DEF ApplyBlock, RUnlock, Progress, LocksHeld, ShouldCreateSnapshot, TypeOK, lock, live, stage3, verifiers
<1>. QED
  BY <1>1, <1>2, <1>3, <1>4, <1>5 DEF LockInv

(* The archive catches up. *)
LEMMA ArchiveBlockKeepsLockInv ==
    ASSUME LockInv, ArchiveBlock
    PROVE  LockInv'
<1> USE Constants
<1>0. TypeOK /\ LocksHeld /\ ClosedByWriter /\ ArchiveLags /\ Progress
  BY DEF LockInv
<1>1. TypeOK'
  BY <1>0 DEF ArchiveBlock, TypeOK, Progress, lock, live, stage3, verifiers, snapshots
<1>2. LocksHeld'
  BY <1>0 DEF ArchiveBlock, LocksHeld, TypeOK, lock, live, stage3, verifiers
<1>3. ClosedByWriter'
  BY <1>0 DEF ArchiveBlock, LocksHeld, ClosedByWriter, TypeOK, lock, live, stage3, verifiers
<1>4. ArchiveLags'
  BY <1>0 DEF ArchiveBlock, ArchiveLags, TypeOK, lock, live, stage3, verifiers
<1>5. Progress'
  BY <1>0 DEF ArchiveBlock, Progress, LocksHeld, ShouldCreateSnapshot, TypeOK, lock, live, stage3, verifiers
<1>. QED
  BY <1>1, <1>2, <1>3, <1>4, <1>5 DEF LockInv

(* Stage 2 ends. *)
LEMMA ApplyReturnsKeepsLockInv ==
    ASSUME LockInv, ApplyReturns
    PROVE  LockInv'
<1> USE Constants
<1>0. TypeOK /\ LocksHeld /\ ClosedByWriter /\ ArchiveLags /\ Progress
  BY DEF LockInv
<1>1. TypeOK'
  BY <1>0 DEF ApplyReturns, TypeOK, Progress, lock, live, stage3, verifiers, snapshots
<1>2. LocksHeld'
  BY <1>0 DEF ApplyReturns, LocksHeld, TypeOK, lock, live, stage3, verifiers
<1>3. ClosedByWriter'
  BY <1>0 DEF ApplyReturns, LocksHeld, ClosedByWriter, TypeOK, lock, live, stage3, verifiers
<1>4. ArchiveLags'
  BY <1>0 DEF ApplyReturns, ArchiveLags, TypeOK, lock, live, stage3, verifiers
<1>5. Progress'
  BY <1>0 DEF ApplyReturns, Progress, LocksHeld, ShouldCreateSnapshot, TypeOK, lock, live, stage3, verifiers
<1>. QED
  BY <1>1, <1>2, <1>3, <1>4, <1>5 DEF LockInv

(* MaybeSnapshot: none is due. *)
LEMMA NoSnapshotDueKeepsLockInv ==
    ASSUME LockInv, NoSnapshotDue
    PROVE  LockInv'
<1> USE Constants
<1>0. TypeOK /\ LocksHeld /\ ClosedByWriter /\ ArchiveLags /\ Progress
  BY DEF LockInv
<1>1. TypeOK'
  BY <1>0 DEF NoSnapshotDue, TypeOK, Progress, lock, live, stage3, verifiers, snapshots
<1>2. LocksHeld'
  BY <1>0 DEF NoSnapshotDue, Progress, LocksHeld, TypeOK, lock, live, stage3, verifiers
<1>3. ClosedByWriter'
  BY <1>0 DEF NoSnapshotDue, LocksHeld, ClosedByWriter, TypeOK, lock, live, stage3, verifiers
<1>4. ArchiveLags'
  BY <1>0 DEF NoSnapshotDue, ArchiveLags, TypeOK, lock, live, stage3, verifiers
<1>5. Progress'
  BY <1>0 DEF NoSnapshotDue, Progress, LocksHeld, ShouldCreateSnapshot, TypeOK, lock, live, stage3, verifiers
<1>. QED
  BY <1>1, <1>2, <1>3, <1>4, <1>5 DEF LockInv

(* MaybeSnapshot waits for the readers. *)
LEMMA SnapshotWaitKeepsLockInv ==
    ASSUME LockInv, SnapshotWait
    PROVE  LockInv'
<1> USE Constants
<1>0. TypeOK /\ LocksHeld /\ ClosedByWriter /\ ArchiveLags /\ Progress
  BY DEF LockInv
<1>1. TypeOK'
  BY <1>0 DEF SnapshotWait, TypeOK, Progress, lock, live, stage3, verifiers, snapshots
<1>2. LocksHeld'
  BY <1>0 DEF SnapshotWait, LocksHeld, TypeOK, lock, live, stage3, verifiers
<1>3. ClosedByWriter'
  BY <1>0 DEF SnapshotWait, LocksHeld, ClosedByWriter, TypeOK, lock, live, stage3, verifiers
<1>4. ArchiveLags'
  BY <1>0 DEF SnapshotWait, ArchiveLags, TypeOK, lock, live, stage3, verifiers
<1>5. Progress'
  BY <1>0 DEF SnapshotWait, Progress, LocksHeld, ShouldCreateSnapshot, TypeOK, lock, live, stage3, verifiers
<1>. QED
  BY <1>1, <1>2, <1>3, <1>4, <1>5 DEF LockInv

(* The writer gets the lock: nobody holds it for reading. *)
LEMMA SnapshotLockKeepsLockInv ==
    ASSUME LockInv, SnapshotLock
    PROVE  LockInv'
<1> USE Constants
<1>0. TypeOK /\ LocksHeld /\ ClosedByWriter /\ ArchiveLags /\ Progress
  BY DEF LockInv
<1>1. TypeOK'
  BY <1>0 DEF SnapshotLock, TypeOK, Progress, lock, live, stage3, verifiers, snapshots
<1>2. LocksHeld'
  BY <1>0 DEF SnapshotLock, LocksHeld, TypeOK, lock, live, stage3, verifiers
<1>3. ClosedByWriter'
  BY <1>0 DEF SnapshotLock, LocksHeld, ClosedByWriter, TypeOK, lock, live, stage3, verifiers
<1>4. ArchiveLags'
  BY <1>0 DEF SnapshotLock, ArchiveLags, TypeOK, lock, live, stage3, verifiers
<1>5. Progress'
  BY <1>0 DEF SnapshotLock, Progress, LocksHeld, ShouldCreateSnapshot, TypeOK, lock, live, stage3, verifiers
<1>. QED
  BY <1>1, <1>2, <1>3, <1>4, <1>5 DEF LockInv

(* The oldest snapshot is removed, under the lock. *)
LEMMA SnapshotRemoveKeepsLockInv ==
    ASSUME LockInv, SnapshotRemove
    PROVE  LockInv'
<1> USE Constants
<1>0. TypeOK /\ LocksHeld /\ ClosedByWriter /\ ArchiveLags /\ Progress
  BY DEF LockInv
<1>a. (pastSnapshotIndex + 1) % snapshotToKeep \in Slot /\ height \in Block
  BY <1>0, NextSlot DEF TypeOK, Progress, SnapshotRemove
<1>1. TypeOK'
  BY <1>0, <1>a DEF SnapshotRemove, SnapshotFails, RemoveOldest, TypeOK, lock, live, stage3, verifiers, snapshots
<1>2. LocksHeld'
  BY <1>0 DEF SnapshotRemove, SnapshotFails, LocksHeld, TypeOK, lock, live, stage3, verifiers
<1>3. ClosedByWriter'
  BY <1>0 DEF SnapshotRemove, SnapshotFails, LocksHeld, ClosedByWriter, TypeOK, lock, live, stage3, verifiers
<1>4. ArchiveLags'
  BY <1>0 DEF SnapshotRemove, SnapshotFails, ArchiveLags, TypeOK, lock, live, stage3, verifiers
<1>5. Progress'
  BY <1>0 DEF SnapshotRemove, SnapshotFails, Progress, LocksHeld, ShouldCreateSnapshot, TypeOK, lock, live, stage3, verifiers
<1>. QED
  BY <1>1, <1>2, <1>3, <1>4, <1>5 DEF LockInv

(* The state is closed, under the lock. *)
LEMMA SnapshotCloseKeepsLockInv ==
    ASSUME LockInv, SnapshotClose
    PROVE  LockInv'
<1> USE Constants
<1>0. TypeOK /\ LocksHeld /\ ClosedByWriter /\ ArchiveLags /\ Progress
  BY DEF LockInv
<1>1. TypeOK'
  BY <1>0 DEF SnapshotClose, SnapshotFails, TypeOK, Progress, lock, live, stage3, verifiers, snapshots
<1>2. LocksHeld'
  BY <1>0 DEF SnapshotClose, SnapshotFails, LocksHeld, TypeOK, lock, live, stage3, verifiers
<1>3. ClosedByWriter'
  BY <1>0 DEF SnapshotClose, SnapshotFails, LocksHeld, ClosedByWriter, TypeOK, lock, live, stage3, verifiers
<1>4. ArchiveLags'
  BY <1>0 DEF SnapshotClose, SnapshotFails, ArchiveLags, TypeOK, lock, live, stage3, verifiers
<1>5. Progress'
  BY <1>0 DEF SnapshotClose, SnapshotFails, Progress, LocksHeld, ShouldCreateSnapshot, TypeOK, lock, live, stage3, verifiers
<1>. QED
  BY <1>1, <1>2, <1>3, <1>4, <1>5 DEF LockInv

(* Its directory is copied, under the lock. *)
LEMMA SnapshotCopyKeepsLockInv ==
    ASSUME LockInv, SnapshotCopy
    PROVE  LockInv'
<1> USE Constants
<1>0. TypeOK /\ LocksHeld /\ ClosedByWriter /\ ArchiveLags /\ Progress
  BY DEF LockInv
<1>a. height \in Block
  BY <1>0 DEF TypeOK, Progress, SnapshotCopy
<1>1. TypeOK'
  BY <1>0, <1>a DEF SnapshotCopy, SnapshotFails, TypeOK, lock, live, stage3, verifiers, snapshots
<1>2. LocksHeld'
  BY <1>0 DEF SnapshotCopy, SnapshotFails, LocksHeld, TypeOK, lock, live, stage3, verifiers
<1>3. ClosedByWriter'
  BY <1>0 DEF SnapshotCopy, SnapshotFails, LocksHeld, ClosedByWriter, TypeOK, lock, live, stage3, verifiers
<1>4. ArchiveLags'
  BY <1>0 DEF SnapshotCopy, SnapshotFails, ArchiveLags, TypeOK, lock, live, stage3, verifiers
<1>5. Progress'
  BY <1>0 DEF SnapshotCopy, SnapshotFails, Progress, LocksHeld, ShouldCreateSnapshot, TypeOK, lock, live, stage3, verifiers
<1>. QED
  BY <1>1, <1>2, <1>3, <1>4, <1>5 DEF LockInv

(* The state is opened again and the lock released. *)
LEMMA SnapshotReopenKeepsLockInv ==
    ASSUME LockInv, SnapshotReopen
    PROVE  LockInv'
<1> USE Constants
<1>0. TypeOK /\ LocksHeld /\ ClosedByWriter /\ ArchiveLags /\ Progress
  BY DEF LockInv
<1>1. TypeOK'
  BY <1>0 DEF SnapshotReopen, SnapshotFails, TypeOK, Progress, lock, live, stage3, verifiers, snapshots
<1>2. LocksHeld'
  BY <1>0 DEF SnapshotReopen, SnapshotFails, LocksHeld, TypeOK, lock, live, stage3, verifiers
<1>3. ClosedByWriter'
  BY <1>0 DEF SnapshotReopen, SnapshotFails, LocksHeld, ClosedByWriter, TypeOK, lock, live, stage3, verifiers
<1>4. ArchiveLags'
  BY <1>0 DEF SnapshotReopen, SnapshotFails, ArchiveLags, TypeOK, lock, live, stage3, verifiers
<1>5. Progress'
  BY <1>0 DEF SnapshotReopen, SnapshotFails, Progress, LocksHeld, ShouldCreateSnapshot, TypeOK, lock, live, stage3, verifiers
<1>. QED
  BY <1>1, <1>2, <1>3, <1>4, <1>5 DEF LockInv

(* Stage 3 takes the lock for a flush. *)
LEMMA FlushLockKeepsLockInv ==
    ASSUME LockInv, FlushLock
    PROVE  LockInv'
<1> USE Constants
<1>0. TypeOK /\ LocksHeld /\ ClosedByWriter /\ ArchiveLags /\ Progress
  BY DEF LockInv
<1>1. TypeOK'
  BY <1>0 DEF FlushLock, RLock, TypeOK, Progress, lock, live, stage3, verifiers, snapshots
<1>2. LocksHeld'
  BY <1>0 DEF FlushLock, RLock, LocksHeld, TypeOK, lock, live, stage3, verifiers
<1>3. ClosedByWriter'
  BY <1>0 DEF FlushLock, RLock, LocksHeld, ClosedByWriter, TypeOK, lock, live, stage3, verifiers
<1>4. ArchiveLags'
  BY <1>0 DEF FlushLock, RLock, ArchiveLags, TypeOK, lock, live, stage3, verifiers
<1>5. Progress'
  BY <1>0 DEF FlushLock, RLock, Progress, LocksHeld, ShouldCreateSnapshot, TypeOK, lock, live, stage3, verifiers
<1>. QED
  BY <1>1, <1>2, <1>3, <1>4, <1>5 DEF LockInv

(* Stage 3 releases it. *)
LEMMA FlushStateKeepsLockInv ==
    ASSUME LockInv, FlushState
    PROVE  LockInv'
<1> USE Constants
<1>0. TypeOK /\ LocksHeld /\ ClosedByWriter /\ ArchiveLags /\ Progress
  BY DEF LockInv
<1>1. TypeOK'
  BY <1>0 DEF FlushState, RUnlock, TypeOK, Progress, lock, live, stage3, verifiers, snapshots
<1>2. LocksHeld'
  BY <1>0 DEF FlushState, RUnlock, LocksHeld, TypeOK, lock, live, stage3, verifiers
<1>3. ClosedByWriter'
  BY <1>0 DEF FlushState, RUnlock, LocksHeld, ClosedByWriter, TypeOK, lock, live, stage3, verifiers
<1>4. ArchiveLags'
  BY <1>0 DEF FlushState, RUnlock, ArchiveLags, TypeOK, lock, live, stage3, verifiers
<1>5. Progress'
  BY <1>0 DEF FlushState, RUnlock, Progress, LocksHeld, ShouldCreateSnapshot, TypeOK, lock, live, stage3, verifiers
<1>. QED
  BY <1>1, <1>2, <1>3, <1>4, <1>5 DEF LockInv

(* Stage 3 does not flush. *)
LEMMA NoFlushKeepsLockInv ==
    ASSUME LockInv, NoFlush
    PROVE  LockInv'
<1> USE Constants
<1>0. TypeOK /\ LocksHeld /\ ClosedByWriter /\ ArchiveLags /\ Progress
  BY DEF LockInv
<1>1. TypeOK'
  BY <1>0 DEF NoFlush, TypeOK, Progress, lock, live, stage3, verifiers, snapshots
<1>2. LocksHeld'
  BY <1>0 DEF NoFlush, LocksHeld, TypeOK, lock, live, stage3, verifiers
<1>3. ClosedByWriter'
  BY <1>0 DEF NoFlush, LocksHeld, ClosedByWriter, TypeOK, lock, live, stage3, verifiers
<1>4. ArchiveLags'
  BY <1>0 DEF NoFlush, ArchiveLags, TypeOK, lock, live, stage3, verifiers
<1>5. Progress'
  BY <1>0 DEF NoFlush, Progress, LocksHeld, ShouldCreateSnapshot, TypeOK, lock, live, stage3, verifiers
<1>. QED
  BY <1>1, <1>2, <1>3, <1>4, <1>5 DEF LockInv

(* Stage 3 hands a block to the verifier. *)
LEMMA SubmitKeepsLockInv ==
    ASSUME LockInv, Submit
    PROVE  LockInv'
<1> USE Constants
<1>0. TypeOK /\ LocksHeld /\ ClosedByWriter /\ ArchiveLags /\ Progress
  BY DEF LockInv
<1>a. checked + 1 \in Block
  BY <1>0 DEF Submit, Progress, TypeOK
<1>b. pool' \subseteq Block /\ Cardinality(pool') <= poolCapacity
  BY <1>0, <1>a, PoolBounded
<1>1. TypeOK'
  BY <1>0, <1>a, <1>b DEF Submit, TypeOK, lock, live, verifiers, snapshots
<1>2. LocksHeld'
  BY <1>0 DEF Submit, LocksHeld, TypeOK, lock, live, stage3, verifiers
<1>3. ClosedByWriter'
  BY <1>0 DEF Submit, LocksHeld, ClosedByWriter, TypeOK, lock, live, stage3, verifiers
<1>4. ArchiveLags'
  BY <1>0 DEF Submit, ArchiveLags, TypeOK, lock, live, stage3, verifiers
<1>5. Progress'
  BY <1>0 DEF Submit, Progress, LocksHeld, ShouldCreateSnapshot, TypeOK, lock, live, stage3, verifiers
<1>. QED
  BY <1>1, <1>2, <1>3, <1>4, <1>5 DEF LockInv

(* Stage 3 ends. *)
LEMMA CheckReturnsKeepsLockInv ==
    ASSUME LockInv, CheckReturns
    PROVE  LockInv'
<1> USE Constants
<1>0. TypeOK /\ LocksHeld /\ ClosedByWriter /\ ArchiveLags /\ Progress
  BY DEF LockInv
<1>1. TypeOK'
  BY <1>0 DEF CheckReturns, TypeOK, Progress, lock, live, stage3, verifiers, snapshots
<1>2. LocksHeld'
  BY <1>0 DEF CheckReturns, LocksHeld, TypeOK, lock, live, stage3, verifiers
<1>3. ClosedByWriter'
  BY <1>0 DEF CheckReturns, LocksHeld, ClosedByWriter, TypeOK, lock, live, stage3, verifiers
<1>4. ArchiveLags'
  BY <1>0 DEF CheckReturns, ArchiveLags, TypeOK, lock, live, stage3, verifiers
<1>5. Progress'
  BY <1>0 DEF CheckReturns, Progress, LocksHeld, ShouldCreateSnapshot, TypeOK, lock, live, stage3, verifiers
<1>. QED
  BY <1>1, <1>2, <1>3, <1>4, <1>5 DEF LockInv

(* A verification takes the lock for the height of the archive. *)
LEMMA VerifyStartKeepsLockInv ==
    ASSUME LockInv, NEW v \in Verifier, VerifyStart(v)
    PROVE  LockInv'
<1> USE Constants
<1>0. TypeOK /\ LocksHeld /\ ClosedByWriter /\ ArchiveLags /\ Progress
  BY DEF LockInv
<1>1. TypeOK'
  BY <1>0 DEF VerifyStart, RLock, TypeOK, Progress, lock, live, stage3, verifiers, snapshots
<1>2. LocksHeld'
  BY <1>0 DEF VerifyStart, RLock, LocksHeld, TypeOK, lock, live, stage3, verifiers
<1>3. ClosedByWriter'
  BY <1>0 DEF VerifyStart, RLock, LocksHeld, ClosedByWriter, TypeOK, lock, live, stage3, verifiers
<1>4. ArchiveLags'
  BY <1>0 DEF VerifyStart, RLock, ArchiveLags, TypeOK, lock, live, stage3, verifiers
<1>5. Progress'
  BY <1>0 DEF VerifyStart, RLock, Progress, LocksHeld, ShouldCreateSnapshot, TypeOK, lock, live, stage3, verifiers
<1>. QED
  BY <1>1, <1>2, <1>3, <1>4, <1>5 DEF LockInv

(* It reads the height and releases the lock. *)
LEMMA GetArchiveBlockHeightKeepsLockInv ==
    ASSUME LockInv, NEW v \in Verifier, GetArchiveBlockHeight(v)
    PROVE  LockInv'
<1> USE Constants
<1>0. TypeOK /\ LocksHeld /\ ClosedByWriter /\ ArchiveLags /\ Progress
  BY DEF LockInv
<1>1. TypeOK'
  BY <1>0 DEF GetArchiveBlockHeight, RUnlock, TypeOK, Progress, lock, live, stage3, verifiers, snapshots
<1>2. LocksHeld'
  BY <1>0 DEF GetArchiveBlockHeight, RUnlock, LocksHeld, TypeOK, lock, live, stage3, verifiers
<1>3. ClosedByWriter'
  BY <1>0 DEF GetArchiveBlockHeight, RUnlock, LocksHeld, ClosedByWriter, TypeOK, lock, live, stage3, verifiers
<1>4. ArchiveLags'
  BY <1>0 DEF GetArchiveBlockHeight, RUnlock, ArchiveLags, TypeOK, lock, live, stage3, verifiers
<1>5. Progress'
  BY <1>0 DEF GetArchiveBlockHeight, RUnlock, Progress, LocksHeld, ShouldCreateSnapshot, TypeOK, lock, live, stage3, verifiers
<1>. QED
  BY <1>1, <1>2, <1>3, <1>4, <1>5 DEF LockInv

(* It chooses a block whose parent is within that height. *)
LEMMA ChooseKeepsLockInv ==
    ASSUME LockInv, NEW v \in Verifier, Choose(v)
    PROVE  LockInv'
<1> USE Constants
<1>0. TypeOK /\ LocksHeld /\ ClosedByWriter /\ ArchiveLags /\ Progress
  BY DEF LockInv
<1>a. /\ verify' \in [Verifier -> {"idle", "height", "choose", "chosen", "apply"}]
      /\ verified' \in [Verifier -> 0 .. LastBlock]
  <2>1. ASSUME NEW b \in pool, verified' = [verified EXCEPT ![v] = b],
               verify' = [verify EXCEPT ![v] = "chosen"]
        PROVE  /\ verify' \in [Verifier -> {"idle", "height", "choose", "chosen", "apply"}]
               /\ verified' \in [Verifier -> 0 .. LastBlock]
    <3>1. b \in 0 .. LastBlock
      BY <1>0 DEF TypeOK
    <3>. QED
      BY <1>0, <2>1, <3>1 DEF TypeOK
  <2>2. CASE verify' = [verify EXCEPT ![v] = "idle"] /\ UNCHANGED verified
    BY <1>0, <2>2 DEF TypeOK
  <2>. QED
    BY <2>1, <2>2 DEF Choose
<1>1. TypeOK'
  BY <1>0, <1>a DEF Choose, InArchive, TypeOK, lock, live, stage3, snapshots
<1>2. LocksHeld'
  BY <1>0 DEF Choose, InArchive, LocksHeld, TypeOK, lock, live, stage3, verifiers
<1>3. ClosedByWriter'
  BY <1>0 DEF Choose, InArchive, LocksHeld, ClosedByWriter, TypeOK, lock, live, stage3, verifiers
<1>4. ArchiveLags'
  BY <1>0 DEF Choose, InArchive, ArchiveLags, TypeOK, lock, live, stage3, verifiers
<1>5. Progress'
  BY <1>0 DEF Choose, InArchive, Progress, LocksHeld, ShouldCreateSnapshot, TypeOK, lock, live, stage3, verifiers
<1>. QED
  BY <1>1, <1>2, <1>3, <1>4, <1>5 DEF LockInv

(* It takes the lock again. *)
LEMMA ApplyArchiveLockKeepsLockInv ==
    ASSUME LockInv, NEW v \in Verifier, ApplyArchiveLock(v)
    PROVE  LockInv'
<1> USE Constants
<1>0. TypeOK /\ LocksHeld /\ ClosedByWriter /\ ArchiveLags /\ Progress
  BY DEF LockInv
<1>1. TypeOK'
  BY <1>0 DEF ApplyArchiveLock, RLock, TypeOK, Progress, lock, live, stage3, verifiers, snapshots
<1>2. LocksHeld'
  BY <1>0 DEF ApplyArchiveLock, RLock, LocksHeld, TypeOK, lock, live, stage3, verifiers
<1>3. ClosedByWriter'
  BY <1>0 DEF ApplyArchiveLock, RLock, LocksHeld, ClosedByWriter, TypeOK, lock, live, stage3, verifiers
<1>4. ArchiveLags'
  BY <1>0 DEF ApplyArchiveLock, RLock, ArchiveLags, TypeOK, lock, live, stage3, verifiers
<1>5. Progress'
  BY <1>0 DEF ApplyArchiveLock, RLock, Progress, LocksHeld, ShouldCreateSnapshot, TypeOK, lock, live, stage3, verifiers
<1>. QED
  BY <1>1, <1>2, <1>3, <1>4, <1>5 DEF LockInv

(* It has verified the block and releases the lock. *)
LEMMA ApplyArchiveBlockKeepsLockInv ==
    ASSUME LockInv, NEW v \in Verifier, ApplyArchiveBlock(v)
    PROVE  LockInv'
<1> USE Constants
<1>0. TypeOK /\ LocksHeld /\ ClosedByWriter /\ ArchiveLags /\ Progress
  BY DEF LockInv
<1>1. TypeOK'
  BY <1>0 DEF ApplyArchiveBlock, RUnlock, TypeOK, Progress, lock, live, stage3, verifiers, snapshots
<1>2. LocksHeld'
  BY <1>0 DEF ApplyArchiveBlock, RUnlock, LocksHeld, TypeOK, lock, live, stage3, verifiers
<1>3. ClosedByWriter'
  BY <1>0 DEF ApplyArchiveBlock, RUnlock, LocksHeld, ClosedByWriter, TypeOK, lock, live, stage3, verifiers
<1>4. ArchiveLags'
  BY <1>0 DEF ApplyArchiveBlock, RUnlock, ArchiveLags, TypeOK, lock, live, stage3, verifiers
<1>5. Progress'
  BY <1>0 DEF ApplyArchiveBlock, RUnlock, Progress, LocksHeld, ShouldCreateSnapshot, TypeOK, lock, live, stage3, verifiers
<1>. QED
  BY <1>1, <1>2, <1>3, <1>4, <1>5 DEF LockInv

(* The main goroutine waits for the verifications. *)
LEMMA CloseVerifierKeepsLockInv ==
    ASSUME LockInv, CloseVerifier
    PROVE  LockInv'
<1> USE Constants
<1>0. TypeOK /\ LocksHeld /\ ClosedByWriter /\ ArchiveLags /\ Progress
  BY DEF LockInv
<1>1. TypeOK'
  BY <1>0 DEF CloseVerifier, TypeOK, Progress, lock, live, stage3, verifiers, snapshots
<1>2. LocksHeld'
  BY <1>0 DEF CloseVerifier, LocksHeld, TypeOK, lock, live, stage3, verifiers
<1>3. ClosedByWriter'
  BY <1>0 DEF CloseVerifier, LocksHeld, ClosedByWriter, TypeOK, lock, live, stage3, verifiers
<1>4. ArchiveLags'
  BY <1>0 DEF CloseVerifier, ArchiveLags, TypeOK, lock, live, stage3, verifiers
<1>5. Progress'
  BY <1>0 DEF CloseVerifier, Progress, LocksHeld, ShouldCreateSnapshot, TypeOK, lock, live, stage3, verifiers
<1>. QED
  BY <1>1, <1>2, <1>3, <1>4, <1>5 DEF LockInv

(* It closes the state when all of them are idle. *)
LEMMA CloseStateKeepsLockInv ==
    ASSUME LockInv, CloseState
    PROVE  LockInv'
<1> USE Constants
<1>0. TypeOK /\ LocksHeld /\ ClosedByWriter /\ ArchiveLags /\ Progress
  BY DEF LockInv
<1>a. /\ dirs' \subseteq dirs /\ open' = FALSE /\ archive' = height /\ main' = "closed"
      /\ UNCHANGED <<lock, live, stage3, verifiers, pastSnapshotList, pastSnapshotIndex>>
  BY DEF CloseState
<1>1. TypeOK'
  BY <1>0, <1>a DEF TypeOK, lock, live, stage3, verifiers
<1>2. LocksHeld'
  BY <1>0 DEF CloseState, LocksHeld, TypeOK, lock, live, stage3, verifiers
<1>3. ClosedByWriter'
  BY <1>0 DEF CloseState, LocksHeld, ClosedByWriter, TypeOK, lock, live, stage3, verifiers
<1>4. ArchiveLags'
  BY <1>0 DEF CloseState, ArchiveLags, TypeOK, lock, live, stage3, verifiers
<1>5. Progress'
  BY <1>0 DEF CloseState, Progress, LocksHeld, ShouldCreateSnapshot, TypeOK, lock, live, stage3, verifiers
<1>. QED
  BY <1>1, <1>2, <1>3, <1>4, <1>5 DEF LockInv

LEMMA StepKeepsLockInv == LockInv /\ [Next]_vars => LockInv'
<1> SUFFICES ASSUME LockInv, [Next]_vars PROVE LockInv'
  OBVIOUS
<1>1. CASE ApplyLockSwitch \/ ApplyLockModify \/ ApplyBlock \/ ApplyReturns
  BY <1>1, ApplyLockSwitchKeepsLockInv, ApplyLockModifyKeepsLockInv, ApplyBlockKeepsLockInv,
     ApplyReturnsKeepsLockInv
<1>2. CASE Snapshot
  BY <1>2, NoSnapshotDueKeepsLockInv, SnapshotWaitKeepsLockInv, SnapshotLockKeepsLockInv,
     SnapshotRemoveKeepsLockInv, SnapshotCloseKeepsLockInv, SnapshotCopyKeepsLockInv,
     SnapshotReopenKeepsLockInv
  DEF Snapshot
<1>3. CASE Check
  BY <1>3, FlushLockKeepsLockInv, FlushStateKeepsLockInv, NoFlushKeepsLockInv,
     SubmitKeepsLockInv, CheckReturnsKeepsLockInv
  DEF Check
<1>4. ASSUME NEW v \in Verifier, VerifyStart(v) \/ Verify(v)
      PROVE  LockInv'
  BY <1>4, VerifyStartKeepsLockInv, GetArchiveBlockHeightKeepsLockInv, ChooseKeepsLockInv,
     ApplyArchiveLockKeepsLockInv, ApplyArchiveBlockKeepsLockInv
  DEF Verify
<1>5. CASE ArchiveBlock \/ Main
  BY <1>5, ArchiveBlockKeepsLockInv, CloseVerifierKeepsLockInv, CloseStateKeepsLockInv DEF Main
<1>6. CASE UNCHANGED vars
  <2>1. TypeOK' /\ LocksHeld' /\ ClosedByWriter'
    BY <1>6 DEF LockInv, TypeOK, LocksHeld, ClosedByWriter, vars, lock, live, stage3, verifiers, snapshots
  <2>2. ArchiveLags' /\ Progress'
    BY <1>6 DEF LockInv, ArchiveLags, Progress, vars, lock, live, stage3, verifiers, snapshots
  <2>. QED
    BY <2>1, <2>2 DEF LockInv
<1>. QED
  BY <1>1, <1>2, <1>3, <1>4, <1>5, <1>6 DEF Next, Apply, Finished

LEMMA InitLockInv == Init => LockInv
<1> SUFFICES ASSUME Init PROVE LockInv
  OBVIOUS
<1>1. TypeOK
  <2>1. 0 \in 0 .. LastBlock /\ 0 \in Slot
    BY Constants
  <2>2. Cardinality(pool) = 0 /\ 0 <= poolCapacity
    BY FS_EmptySet, Constants DEF Init
  <2>. QED
    BY <2>1, <2>2 DEF Init, TypeOK, NoSnapshot
<1>2. LocksHeld /\ ClosedByWriter
  BY DEF Init, LocksHeld, ClosedByWriter
<1>3. ArchiveLags /\ Progress
  BY DEF Init, ArchiveLags, Progress
<1>. QED
  BY <1>1, <1>2, <1>3 DEF LockInv

LEMMA LockInvAlways == Spec => []LockInv
  BY InitLockInv, StepKeepsLockInv, PTL DEF Spec

(* While the replay goes on, nobody uses a closed state: whoever uses it   *)
(* holds stateSwitchMutex for reading, and it is closed under the lock for *)
(* writing, or by the main goroutine after everyone has ended (replay.go). *)
THEOREM StateUsedWhileOpen == Spec => []UsedWhileOpen
<1>1. LockInv => UsedWhileOpen
  BY DEF LockInv, UsedWhileOpen, Using, LocksHeld, ClosedByWriter
<1>. QED
  BY <1>1, LockInvAlways, PTL

(* A verification finds the state of its block's parent in the archive,    *)
(* although it read the height of the archive under another holding of the *)
(* lock, and the state may have been replaced since (archive_verifier.go). *)
THEOREM ArchiveAlwaysHasParent == Spec => [](TypeOK /\ ArchiveHasParent)
<1>1. LockInv => TypeOK /\ ArchiveHasParent
  <2> SUFFICES ASSUME LockInv, NEW v \in Verifier, verify[v] = "apply"
               PROVE  verified[v] - 1 <= archive
    BY DEF LockInv, ArchiveHasParent
  <2>1. verified[v] \in Int /\ archiveHeight[v] \in Int /\ archive \in Int
    BY Constants DEF LockInv, TypeOK
  <2>2. archiveHeight[v] <= archive /\ verified[v] <= archiveHeight[v] + 1
    BY DEF LockInv, ArchiveLags
  <2>. QED
    BY <2>1, <2>2
<1>. QED
  BY <1>1, LockInvAlways, PTL

-----------------------------------------------------------------------------
(* The ring of the SnapshotHandler.  Places are counted from the oldest. *)

LEMMA RingPlace ==
    ASSUME NEW i \in Slot, NEW count \in Slot
    PROVE  (i + count) % snapshotToKeep =
              IF i + count < snapshotToKeep THEN i + count ELSE i + count - snapshotToKeep
<1>1. snapshotToKeep \in Nat /\ snapshotToKeep >= 1 /\ i \in Nat /\ i < snapshotToKeep
      /\ count \in Nat /\ count < snapshotToKeep
  BY Constants
<1>2. CASE i + count < snapshotToKeep
  BY <1>1, <1>2
<1>3. CASE i + count >= snapshotToKeep
  <2> DEFINE r == i + count - snapshotToKeep
  <2>1. r \in Nat /\ r < snapshotToKeep /\ i + count = r + snapshotToKeep
    BY <1>1, <1>3
  <2>2. r % snapshotToKeep = r
    BY <1>1, <2>1
  <2> HIDE DEF r
  <2>3. (r + snapshotToKeep) % snapshotToKeep = r % snapshotToKeep
    BY <1>1, <2>1
  <2>. QED
    BY <1>1, <1>3, <2>1, <2>2, <2>3 DEF r
<1>. QED
  BY <1>1, <1>2, <1>3

(* Every place of the list is the count-th oldest for one count. *)
LEMMA DirsInRing ==
    ASSUME TypeOK
    PROVE  GetSnapshotDirs = {At(count) : count \in Slot} \ {NoSnapshot}
<1>0. pastSnapshotIndex \in Slot /\ snapshotToKeep \in Nat /\ Slot = 0 .. snapshotToKeep - 1
  BY Constants DEF TypeOK
<1>1. ASSUME NEW i \in Slot
      PROVE  \E count \in Slot : pastSnapshotList[i] = At(count)
  <2> DEFINE count == IF pastSnapshotIndex <= i THEN i - pastSnapshotIndex
                                                ELSE i - pastSnapshotIndex + snapshotToKeep
  <2>1. count \in Slot /\ pastSnapshotIndex + count \in {i, i + snapshotToKeep}
    BY <1>0
  <2> HIDE DEF count
  <2>a. (pastSnapshotIndex + count) % snapshotToKeep =
          IF pastSnapshotIndex + count < snapshotToKeep
          THEN pastSnapshotIndex + count ELSE pastSnapshotIndex + count - snapshotToKeep
    BY <1>0, <2>1, RingPlace
  <2>2. (pastSnapshotIndex + count) % snapshotToKeep = i
    BY <1>0, <2>1, <2>a
  <2>. QED
    BY <2>1, <2>2 DEF At
<1>2. ASSUME NEW count \in Slot
      PROVE  \E i \in Slot : pastSnapshotList[i] = At(count)
  <2>1. (pastSnapshotIndex + count) % snapshotToKeep \in Slot
    BY <1>0, RingPlace
  <2>. QED
    BY <2>1 DEF At
<1>. QED
  BY <1>1, <1>2 DEF GetSnapshotDirs

(* Noting a snapshot in place of the oldest one makes it the newest, and   *)
(* everyone else one place older.                                          *)
LEMMA NotingShifts ==
    ASSUME TypeOK,
           pastSnapshotList' = [pastSnapshotList EXCEPT ![pastSnapshotIndex] = height],
           pastSnapshotIndex' = (pastSnapshotIndex + 1) % snapshotToKeep
    PROVE  /\ \A count \in Slot : count + 1 \in Slot => At(count)' = At(count + 1)
           /\ \A count \in Slot : count + 1 \notin Slot => At(count)' = height
           /\ At(0) = pastSnapshotList[pastSnapshotIndex]
<1>0. /\ pastSnapshotIndex \in Slot /\ snapshotToKeep \in Nat /\ snapshotToKeep >= 1
      /\ Slot = 0 .. snapshotToKeep - 1 /\ pastSnapshotIndex' \in Slot
  BY Constants, NextSlot DEF TypeOK
<1>1. ASSUME NEW count \in Slot
      PROVE  /\ count + 1 \in Slot => At(count)' = At(count + 1)
             /\ count + 1 \notin Slot => At(count)' = height
  <2> DEFINE place == (pastSnapshotIndex' + count) % snapshotToKeep
  <2>1. At(count)' = pastSnapshotList'[place]
    BY DEF At
  <2>2. place = IF pastSnapshotIndex' + count < snapshotToKeep
                THEN pastSnapshotIndex' + count ELSE pastSnapshotIndex' + count - snapshotToKeep
    BY <1>0, RingPlace
  <2>3. /\ pastSnapshotIndex + 1 < snapshotToKeep => pastSnapshotIndex' = pastSnapshotIndex + 1
        /\ pastSnapshotIndex + 1 = snapshotToKeep => pastSnapshotIndex' = 0
    BY <1>0, NextSlot
  <2> HIDE DEF place
  <2>4. CASE count + 1 \in Slot
    <3>1. (pastSnapshotIndex + (count + 1)) % snapshotToKeep =
            IF pastSnapshotIndex + (count + 1) < snapshotToKeep
            THEN pastSnapshotIndex + (count + 1)
            ELSE pastSnapshotIndex + (count + 1) - snapshotToKeep
      BY <1>0, <2>4, RingPlace
    <3>2. place = (pastSnapshotIndex + (count + 1)) % snapshotToKeep
      BY <1>0, <2>2, <2>3, <2>4, <3>1
    <3>3. place \in Slot /\ place # pastSnapshotIndex
      BY <1>0, <2>4, <3>1, <3>2
    <3>4. pastSnapshotList'[place] = pastSnapshotList[place]
      BY <3>3 DEF TypeOK
    <3>. QED
      BY <2>1, <2>4, <3>2, <3>4 DEF At
  <2>5. CASE count + 1 \notin Slot
    <3>1. count = snapshotToKeep - 1
      BY <1>0, <2>5
    <3>2. place = pastSnapshotIndex
      BY <1>0, <2>2, <2>3, <3>1
    <3>3. pastSnapshotList'[place] = height
      BY <1>0, <3>2 DEF TypeOK
    <3>. QED
      BY <2>1, <2>5, <3>3
  <2>. QED
    BY <2>4, <2>5
<1>2. At(0) = pastSnapshotList[pastSnapshotIndex]
  <2>1. pastSnapshotIndex % snapshotToKeep = pastSnapshotIndex /\ pastSnapshotIndex + 0 = pastSnapshotIndex
    BY <1>0
  <2>. QED
    BY <2>1 DEF At
<1>. QED
  BY <1>1, <1>2

(* GetOldestSnapshotDir returns the entry at pastSnapshotIndex, if it is   *)
(* taken.                                                                  *)
LEMMA OldestIsFirst ==
    ASSUME TypeOK, pastSnapshotList[pastSnapshotIndex] # NoSnapshot
    PROVE  GetOldestSnapshot = pastSnapshotList[pastSnapshotIndex]
<1> DEFINE at(count) == pastSnapshotList[(pastSnapshotIndex + count) % snapshotToKeep]
           taken == {count \in Slot : at(count) # NoSnapshot}
<1>1. 0 \in Slot /\ pastSnapshotIndex \in Slot /\ Slot \subseteq Nat
  BY Constants DEF TypeOK
<1>2. at(0) = pastSnapshotList[pastSnapshotIndex]
  <2>1. pastSnapshotIndex % snapshotToKeep = pastSnapshotIndex /\ pastSnapshotIndex + 0 = pastSnapshotIndex
    BY <1>1, Constants
  <2>. QED
    BY <2>1
<1>3. 0 \in taken /\ taken \subseteq Nat
  BY <1>1, <1>2
<1>4. GetOldestSnapshot = IF taken = {} THEN NoSnapshot
                          ELSE at(CHOOSE count \in taken : \A other \in taken : count <= other)
  BY DEF GetOldestSnapshot
<1> HIDE DEF taken, at
<1>5. \A count \in taken : (\A other \in taken : count <= other) => count = 0
  BY <1>3
<1>a. \A other \in taken : 0 <= other
  BY <1>3
<1>6. (CHOOSE count \in taken : \A other \in taken : count <= other) = 0
  BY <1>3, <1>5, <1>a
<1>. QED
  BY <1>2, <1>3, <1>4, <1>6

(* A block after all of S is below none of them, and above each of them. *)
LEMMA AboveAdd ==
    ASSUME NEW m \in Nat, NEW S \in SUBSET (1 .. m), NEW h \in Nat, h > m
    PROVE  /\ Above(S \cup {h}, h) = 0
           /\ \A b \in S : Above(S, b) \in Nat /\ Above(S \cup {h}, b) = Above(S, b) + 1
<1>1. {c \in S \cup {h} : c > h} = {}
  <2>1. \A c \in S \cup {h} : ~ (c > h)
    OBVIOUS
  <2>. QED
    BY <2>1
<1>2. ASSUME NEW b \in S
      PROVE  Above(S, b) \in Nat /\ Above(S \cup {h}, b) = Above(S, b) + 1
  <2> DEFINE A == {c \in S : c > b}
  <2>1. {c \in S \cup {h} : c > b} = A \cup {h} /\ h \notin A
    OBVIOUS
  <2>2. IsFiniteSet(1 .. m) /\ A \in SUBSET (1 .. m)
    <3>1. 1 \in Int /\ m \in Int
      OBVIOUS
    <3>2. IsFiniteSet(1 .. m)
      BY <3>1, FS_Interval
    <3>. QED
      BY <3>2
  <2>3. IsFiniteSet(A) /\ Cardinality(A) \in Nat
    BY <2>2, FS_Subset, FS_CardinalityType
  <2> HIDE DEF A
  <2>4. Cardinality(A \cup {h}) = Cardinality(A) + 1
    BY <2>1, <2>3, FS_AddElement
  <2>. QED
    BY <2>1, <2>3, <2>4 DEF Above, A
<1>. QED
  BY <1>1, <1>2, FS_EmptySet DEF Above


(* The ring holds one more snapshot after it has been noted. *)
LEMMA NotingKeepsRing ==
    ASSUME TypeOK, NEW S \in SUBSET (1 .. height - 1), RingHolds(S), height >= 1,
           pastSnapshotList' = [pastSnapshotList EXCEPT ![pastSnapshotIndex] = height],
           pastSnapshotIndex' = (pastSnapshotIndex + 1) % snapshotToKeep
    PROVE  /\ \A count \in Slot :
                At(count)' # NoSnapshot =>
                  /\ At(count)' \in S \cup {height}
                  /\ Above(S \cup {height}, At(count)') = snapshotToKeep - 1 - count
           /\ \A b \in S \cup {height} :
                Above(S \cup {height}, b) < snapshotToKeep => \E count \in Slot : At(count)' = b
<1>0. height \in Nat /\ height - 1 \in Nat /\ height > height - 1
      /\ snapshotToKeep \in Nat /\ snapshotToKeep >= 1 /\ Slot = 0 .. snapshotToKeep - 1
  BY Constants DEF TypeOK
<1>1. /\ \A count \in Slot : count + 1 \in Slot => At(count)' = At(count + 1)
      /\ \A count \in Slot : count + 1 \notin Slot => At(count)' = height
  BY NotingShifts
<1>2. /\ Above(S \cup {height}, height) = 0
      /\ \A b \in S : Above(S, b) \in Nat /\ Above(S \cup {height}, b) = Above(S, b) + 1
  BY <1>0, AboveAdd
<1>3. ASSUME NEW count \in Slot, At(count)' # NoSnapshot
      PROVE  /\ At(count)' \in S \cup {height}
             /\ Above(S \cup {height}, At(count)') = snapshotToKeep - 1 - count
  <2>1. CASE count + 1 \in Slot
    <3>1. At(count)' = At(count + 1)
      BY <1>1, <2>1
    <3>2. At(count + 1) \in S /\ Above(S, At(count + 1)) = snapshotToKeep - 1 - (count + 1)
      BY <1>3, <2>1, <3>1 DEF RingHolds
    <3>3. Above(S \cup {height}, At(count + 1)) = Above(S, At(count + 1)) + 1
      BY <1>2, <3>2
    <3>4. (snapshotToKeep - 1 - (count + 1)) + 1 = snapshotToKeep - 1 - count
      BY <1>0
    <3>. QED
      BY <3>1, <3>2, <3>3, <3>4
  <2>2. CASE count + 1 \notin Slot
    <3>1. At(count)' = height /\ snapshotToKeep - 1 - count = 0
      BY <1>0, <1>1, <2>2
    <3>. QED
      BY <1>2, <3>1
  <2>. QED
    BY <2>1, <2>2
<1>4. ASSUME NEW b \in S \cup {height}, Above(S \cup {height}, b) < snapshotToKeep
      PROVE  \E count \in Slot : At(count)' = b
  <2>1. CASE b = height
    <3>1. snapshotToKeep - 1 \in Slot /\ (snapshotToKeep - 1) + 1 \notin Slot
      BY <1>0
    <3>. QED
      BY <1>1, <2>1, <3>1
  <2>2. CASE b \in S
    <3>1. Above(S, b) \in Nat /\ Above(S, b) + 1 < snapshotToKeep
      BY <1>2, <1>4, <2>2
    <3>2. PICK count \in Slot : At(count) = b
      BY <1>0, <2>2, <3>1 DEF RingHolds
    <3>3. b # NoSnapshot
      BY <2>2 DEF NoSnapshot
    <3>4. Above(S, b) = snapshotToKeep - 1 - count
      BY <3>2, <3>3 DEF RingHolds
    <3>5. count - 1 \in Slot /\ (count - 1) + 1 = count
      BY <1>0, <3>1, <3>4
    <3>6. At(count - 1)' = b
      BY <1>1, <3>2, <3>5
    <3>. QED
      BY <3>5, <3>6
  <2>. QED
    BY <2>1, <2>2
<1>. QED
  BY <1>3, <1>4

(* The snapshots in the ring are then the old ones without the oldest, and *)
(* the new one.                                                            *)
LEMMA NotingReplacesOldest ==
    ASSUME TypeOK, TypeOK', NEW S \in SUBSET (1 .. height - 1), RingHolds(S), height >= 1,
           pastSnapshotList' = [pastSnapshotList EXCEPT ![pastSnapshotIndex] = height],
           pastSnapshotIndex' = (pastSnapshotIndex + 1) % snapshotToKeep
    PROVE  GetSnapshotDirs' =
              (GetSnapshotDirs \ {pastSnapshotList[pastSnapshotIndex]}) \cup {height}
<1>0. height \in Nat /\ snapshotToKeep \in Nat /\ snapshotToKeep >= 1
      /\ Slot = 0 .. snapshotToKeep - 1
  BY Constants DEF TypeOK
<1>1. /\ \A count \in Slot : count + 1 \in Slot => At(count)' = At(count + 1)
      /\ \A count \in Slot : count + 1 \notin Slot => At(count)' = height
      /\ At(0) = pastSnapshotList[pastSnapshotIndex]
  BY NotingShifts
<1>2. /\ GetSnapshotDirs = {At(count) : count \in Slot} \ {NoSnapshot}
      /\ GetSnapshotDirs' = {At(count)' : count \in Slot} \ {NoSnapshot}
  <2>1. TypeOK => GetSnapshotDirs = {At(count) : count \in Slot} \ {NoSnapshot}
    BY DirsInRing
  <2>2. (TypeOK => GetSnapshotDirs = {At(count) : count \in Slot} \ {NoSnapshot})'
    BY DirsInRing, PTL
  <2>. QED
    BY <2>1, <2>2
<1>3. ASSUME NEW d \in GetSnapshotDirs'
      PROVE  d \in (GetSnapshotDirs \ {At(0)}) \cup {height}
  <2>1. PICK count \in Slot : d = At(count)' /\ d # NoSnapshot
    BY <1>2
  <2>2. CASE count + 1 \in Slot
    <3>1. d = At(count + 1) /\ d \in GetSnapshotDirs
      BY <1>1, <1>2, <2>1, <2>2
    <3>2. At(count + 1) # At(0)
      <4> SUFFICES ASSUME At(count + 1) = At(0) PROVE FALSE
        OBVIOUS
      <4>1. 0 \in Slot
        BY <1>0
      <4>2. Above(S, d) = snapshotToKeep - 1 - (count + 1) /\ Above(S, d) = snapshotToKeep - 1 - 0
        BY <2>1, <2>2, <3>1, <4>1 DEF RingHolds
      <4>. QED
        BY <1>0, <4>2
    <3>. QED
      BY <3>1, <3>2
  <2>3. CASE count + 1 \notin Slot
    BY <1>1, <2>1, <2>3
  <2>. QED
    BY <2>2, <2>3
<1>4. ASSUME NEW d \in GetSnapshotDirs, d # At(0)
      PROVE  d \in GetSnapshotDirs'
  <2>1. PICK count \in Slot : d = At(count) /\ d # NoSnapshot
    BY <1>2
  <2>2. count - 1 \in Slot /\ (count - 1) + 1 = count
    BY <1>0, <1>4, <2>1
  <2>3. At(count - 1)' = d
    BY <1>1, <2>1, <2>2
  <2>. QED
    BY <1>2, <2>1, <2>2, <2>3
<1>5. height \in GetSnapshotDirs'
  <2>1. snapshotToKeep - 1 \in Slot /\ (snapshotToKeep - 1) + 1 \notin Slot
    BY <1>0
  <2>2. At(snapshotToKeep - 1)' = height
    BY <1>1, <2>1
  <2>. QED
    BY <1>0, <1>2, <2>1, <2>2 DEF NoSnapshot
<1>. QED
  BY <1>1, <1>3, <1>4, <1>5

(* A step that leaves the ring and the directories alone. *)
LEMMA OtherStepsKeepDirs ==
    ASSUME LockInv, DirsMatchRing, UNCHANGED snapshots,
           apply' # "failed" => apply # "failed" /\ Noted' = Noted,
           apply' \in {"next", "lock", "apply", "snapshot", "remove", "reopen", "returned"} =>
             apply \in {"next", "lock", "apply", "snapshot", "remove", "reopen", "returned"},
           apply' \in {"close", "copy"} => apply \in {"close", "copy"} /\ height' = height,
           main = "closed" <=> main' = "closed",
           main = "closed" => apply' = apply
    PROVE  DirsMatchRing'
<1>1. GetSnapshotDirs' = GetSnapshotDirs
  BY DEF GetSnapshotDirs, snapshots
<1>2. ASSUME apply' # "failed"
      PROVE  RingHolds(Noted)'
  <2>1. RingHolds(Noted) /\ Noted' = Noted
    BY <1>2 DEF DirsMatchRing
  <2>. QED
    BY <2>1 DEF RingHolds, At, snapshots
<1>. QED
  BY <1>1, <1>2 DEF DirsMatchRing, snapshots


(* Due grows by the block that leaves stage 2 if a snapshot was due. *)
LEMMA DueOfNextBlock ==
    ASSUME TypeOK, sent = height - 1, sent' = height
    PROVE  Due' = IF ShouldCreateSnapshot(height) THEN Due \cup {height} ELSE Due
<1>1. sent \in Nat /\ height = sent + 1
  BY Constants DEF TypeOK
<1>2. 1 .. sent' = (1 .. sent) \cup {height}
  BY <1>1
<1>. QED
  BY <1>2 DEF Due

(* The oldest snapshot leaves the ring and the disk together; then a       *)
(* directory of the name of the new one is removed.                        *)
LEMMA RemoveKeepsDirs ==
    ASSUME LockInv, LockInv', DirsMatchRing, SnapshotRemove
    PROVE  DirsMatchRing'
<1>0. TypeOK /\ TypeOK' /\ Progress /\ ClosedByWriter /\ apply = "remove"
  BY DEF LockInv, SnapshotRemove
<1>1. /\ main = "running" /\ main' = main /\ height' = height /\ sent' = sent
      /\ RingHolds(Due) /\ dirs \ Prior = GetSnapshotDirs \ Prior
  BY <1>0 DEF SnapshotRemove, ClosedByWriter, DirsMatchRing, Noted, TypeOK
<1>2. CASE SnapshotFails /\ UNCHANGED snapshots
  BY <1>0, <1>1, <1>2, OtherStepsKeepDirs DEF SnapshotFails
<1>3. CASE /\ pastSnapshotList' = [pastSnapshotList EXCEPT ![pastSnapshotIndex] = height]
           /\ pastSnapshotIndex' = (pastSnapshotIndex + 1) % snapshotToKeep
           /\ \/ dirs' = RemoveOldest /\ SnapshotFails
              \/ /\ dirs' = RemoveOldest \ {height}
                 /\ apply' = "close"
  <2> DEFINE oldest == pastSnapshotList[pastSnapshotIndex]
  <2>1. Due \in SUBSET (1 .. height - 1) /\ height >= 1 /\ Due' = Due
    BY <1>0, <1>1, Constants DEF Due, Progress, TypeOK
  <2>2. GetSnapshotDirs' = (GetSnapshotDirs \ {oldest}) \cup {height}
    BY <1>0, <1>1, <1>3, <2>1, NotingReplacesOldest
  <2>3. oldest # NoSnapshot => RemoveOldest = dirs \ {oldest}
    BY <1>0, OldestIsFirst DEF RemoveOldest
  <2>4. oldest = NoSnapshot => RemoveOldest = dirs /\ oldest \notin GetSnapshotDirs
    BY DEF RemoveOldest, GetSnapshotDirs
  <2> HIDE DEF oldest
  <2>5. RemoveOldest \ Prior = (GetSnapshotDirs \ {oldest}) \ Prior
    BY <1>1, <2>3, <2>4
  <2>6. dirs' \ Prior \subseteq GetSnapshotDirs'
    BY <1>3, <2>2, <2>5
  <2>7. CASE apply' = "failed"
    BY <1>1, <2>6, <2>7 DEF DirsMatchRing
  <2>8. CASE apply' = "close" /\ dirs' = RemoveOldest \ {height}
    <3>1. Noted' = Due \cup {height}
      BY <1>1, <2>1, <2>8 DEF Noted
    <3>2. RingHolds(Noted)'
      <4>1. /\ \A count \in Slot :
                 At(count)' # NoSnapshot =>
                   /\ At(count)' \in Due \cup {height}
                   /\ Above(Due \cup {height}, At(count)') = snapshotToKeep - 1 - count
            /\ \A b \in Due \cup {height} :
                 Above(Due \cup {height}, b) < snapshotToKeep => \E count \in Slot : At(count)' = b
        BY <1>0, <1>1, <1>3, <2>1, NotingKeepsRing
      <4>. QED
        BY <3>1, <4>1 DEF RingHolds
    <3>3. dirs' \ Prior = (GetSnapshotDirs' \ {height}) \ Prior
      BY <2>2, <2>5, <2>8
    <3>. QED
      BY <1>1, <2>6, <2>8, <3>2, <3>3 DEF DirsMatchRing
  <2>. QED
    BY <1>3, <2>7, <2>8 DEF SnapshotFails
<1>. QED
  BY <1>2, <1>3 DEF SnapshotRemove

(* The copy adds the directory that the ring already names. *)
LEMMA CopyKeepsDirs ==
    ASSUME LockInv, DirsMatchRing, SnapshotCopy
    PROVE  DirsMatchRing'
<1>0. /\ apply = "copy" /\ main = "running" /\ main' = main
      /\ height' = height /\ sent' = sent
      /\ UNCHANGED <<pastSnapshotList, pastSnapshotIndex>>
      /\ dirs \ Prior = (GetSnapshotDirs \ {height}) \ Prior
      /\ RingHolds(Noted) /\ Noted = Due \cup {height} /\ Due' = Due
  BY DEF SnapshotCopy, LockInv, ClosedByWriter, DirsMatchRing, TypeOK, Noted, Due
<1>1. GetSnapshotDirs' = GetSnapshotDirs
  BY <1>0 DEF GetSnapshotDirs
<1>2. height \in GetSnapshotDirs
  <2>1. height \in Nat /\ height >= 1 /\ Due \in SUBSET (1 .. height - 1) /\ snapshotToKeep >= 1
    BY <1>0, Constants DEF Due, LockInv, Progress, TypeOK
  <2>a. height - 1 \in Nat /\ height > height - 1
    BY <2>1
  <2>2. Above(Due \cup {height}, height) = 0
    BY <2>1, <2>a, AboveAdd
  <2>b. Above(Due \cup {height}, height) < snapshotToKeep
    BY <2>1, <2>2, Constants
  <2>3. \E count \in Slot : At(count) = height
    BY <1>0, <2>b DEF RingHolds
  <2>. QED
    BY <2>1, <2>3, DirsInRing DEF LockInv, NoSnapshot
<1>3. CASE apply' = "failed" /\ dirs' \in {dirs, dirs \cup {height}}
  BY <1>0, <1>1, <1>2, <1>3 DEF DirsMatchRing
<1>4. CASE apply' = "reopen" /\ dirs' = dirs \cup {height}
  <2>1. Noted' = Noted
    BY <1>0, <1>4 DEF Noted
  <2>2. RingHolds(Noted)'
    BY <1>0, <2>1 DEF RingHolds, At
  <2>3. dirs' \ Prior = GetSnapshotDirs' \ Prior
    BY <1>0, <1>1, <1>2, <1>4
  <2>. QED
    BY <1>0, <1>4, <2>2, <2>3 DEF DirsMatchRing
<1>. QED
  BY <1>3, <1>4 DEF SnapshotCopy, SnapshotFails

LEMMA StepKeepsDirs ==
    ASSUME LockInv, LockInv', DirsMatchRing, [Next]_vars
    PROVE  DirsMatchRing'
<1>0. TypeOK /\ Progress /\ ClosedByWriter /\ LocksHeld
  BY DEF LockInv
<1>1. CASE ApplyLockSwitch \/ ApplyLockModify \/ ApplyBlock \/ ApplyReturns
  <2>1. /\ UNCHANGED <<snapshots, sent, main>>
        /\ apply \in {"next", "lock", "apply"}
        /\ apply' \in {"lock", "apply", "snapshot", "returned", "failed"}
    BY <1>1 DEF ApplyLockSwitch, ApplyLockModify, ApplyBlock, ApplyReturns
  <2>2. Noted' = Noted
    BY <2>1 DEF Noted, Due
  <2>3. main = "running"
    BY <1>0, <2>1 DEF ClosedByWriter, TypeOK
  <2>. QED
    BY <2>1, <2>2, <2>3, OtherStepsKeepDirs
<1>2. CASE NoSnapshotDue
  <2>1. /\ UNCHANGED <<snapshots, main, height>> /\ sent' = height /\ sent = height - 1
        /\ ~ ShouldCreateSnapshot(height) /\ apply = "snapshot" /\ apply' = "next"
    BY <1>0, <1>2 DEF NoSnapshotDue, Progress
  <2>2. Noted' = Noted
    BY <1>0, <2>1, DueOfNextBlock DEF Noted
  <2>3. main = "running"
    BY <1>0, <2>1 DEF ClosedByWriter, TypeOK
  <2>. QED
    BY <2>1, <2>2, <2>3, OtherStepsKeepDirs
<1>3. CASE SnapshotWait \/ SnapshotLock
  <2>1. /\ UNCHANGED <<snapshots, main, height, sent>>
        /\ apply = "snapshot" /\ apply' \in {"snapshot", "remove"}
    BY <1>0, <1>3 DEF SnapshotWait, SnapshotLock, LocksHeld, live
  <2>2. Noted' = Noted
    BY <2>1 DEF Noted, Due
  <2>3. main = "running"
    BY <1>0, <2>1 DEF ClosedByWriter, TypeOK
  <2>. QED
    BY <2>1, <2>2, <2>3, OtherStepsKeepDirs
<1>4. CASE SnapshotRemove
  BY <1>4, RemoveKeepsDirs
<1>5. CASE SnapshotClose
  <2>1. /\ UNCHANGED <<snapshots, main, height, sent>>
        /\ apply = "close" /\ apply' \in {"copy", "failed"}
    BY <1>5 DEF SnapshotClose, SnapshotFails
  <2>2. apply' # "failed" => Noted' = Noted
    BY <2>1 DEF Noted, Due
  <2>3. main = "running"
    BY <1>0, <2>1 DEF ClosedByWriter, TypeOK
  <2>. QED
    BY <2>1, <2>2, <2>3, OtherStepsKeepDirs
<1>6. CASE SnapshotCopy
  BY <1>6, CopyKeepsDirs
<1>7. CASE SnapshotReopen
  <2>1. /\ UNCHANGED <<snapshots, main, height>>
        /\ apply = "reopen"
        /\ apply' = "failed" \/ (apply' = "next" /\ sent' = height)
        /\ sent = height - 1 /\ ShouldCreateSnapshot(height)
    BY <1>0, <1>7 DEF SnapshotReopen, SnapshotFails, Progress
  <2>2. apply' # "failed" => Noted' = Noted
    BY <1>0, <2>1, DueOfNextBlock DEF Noted
  <2>3. main = "running"
    BY <1>0, <2>1 DEF ClosedByWriter, TypeOK
  <2>. QED
    BY <2>1, <2>2, <2>3, OtherStepsKeepDirs
<1>8. CASE \/ ArchiveBlock \/ Check \/ CloseVerifier
           \/ \E v \in Verifier : VerifyStart(v) \/ Verify(v)
           \/ UNCHANGED vars
  <2>1. UNCHANGED <<snapshots, live>> /\ (main = "closed" <=> main' = "closed")
    BY <1>8
    DEF ArchiveBlock, Check, FlushLock, FlushState, NoFlush, Submit, CheckReturns, CloseVerifier,
        VerifyStart, Verify, GetArchiveBlockHeight, Choose, ApplyArchiveLock, ApplyArchiveBlock, vars
  <2>2. Noted' = Noted /\ apply' = apply /\ height' = height
    BY <2>1 DEF Noted, Due, live
  <2>. QED
    BY <2>1, <2>2, OtherStepsKeepDirs
<1>9. CASE CloseState
  <2>1. /\ UNCHANGED <<live, pastSnapshotList, pastSnapshotIndex>> /\ main' = "closed"
        /\ dirs' = IF KeepDB \/ apply = "failed" THEN dirs ELSE dirs \ GetSnapshotDirs
        /\ apply \in {"returned", "failed"}
    BY <1>0, <1>9 DEF CloseState, ClosedByWriter
  <2>2. Noted' = Noted /\ apply' = apply
    BY <2>1 DEF Noted, Due, live
  <2>3. GetSnapshotDirs' = GetSnapshotDirs
    BY <2>1 DEF GetSnapshotDirs
  <2>4. apply' # "failed" => RingHolds(Noted)'
    BY <2>1, <2>2 DEF DirsMatchRing, RingHolds, At
  <2>5. ~ KeepDB /\ apply' = "returned" => dirs' \subseteq Prior
    BY <2>1, <2>2 DEF DirsMatchRing
  <2>. QED
    BY <2>1, <2>2, <2>3, <2>4, <2>5 DEF DirsMatchRing
<1>. QED
  BY <1>1, <1>2, <1>3, <1>4, <1>5, <1>6, <1>7, <1>8, <1>9
  DEF Next, Apply, Snapshot, Main, Finished

LEMMA IInvAlways == Spec => []IInv
<1>1. Init => DirsMatchRing
  <2> SUFFICES ASSUME Init PROVE DirsMatchRing
    OBVIOUS
  <2>1. TypeOK
    BY InitLockInv DEF LockInv
  <2>2. \A i \in Slot : pastSnapshotList[i] = NoSnapshot
    BY DEF Init
  <2>3. GetSnapshotDirs = {}
    BY <2>2 DEF GetSnapshotDirs
  <2>4. \A count \in Slot : At(count) = NoSnapshot
    <3> SUFFICES ASSUME NEW count \in Slot PROVE At(count) = NoSnapshot
      OBVIOUS
    <3>1. (pastSnapshotIndex + count) % snapshotToKeep \in Slot
      BY <2>1, RingPlace, Constants DEF TypeOK
    <3>. QED
      BY <2>2, <3>1 DEF At
  <2>5. Noted = {}
    <3>1. Due = {}
      BY DEF Init, Due
    <3>. QED
      BY <3>1 DEF Init, Noted
  <2>6. RingHolds(Noted)
    BY <2>4, <2>5 DEF RingHolds
  <2>. QED
    BY <2>3, <2>6 DEF Init, DirsMatchRing
<1>2. DirsMatchRing /\ LockInv /\ LockInv' /\ [Next]_vars => DirsMatchRing'
  BY StepKeepsDirs
<1>. QED
  BY <1>1, <1>2, LockInvAlways, PTL DEF Spec, IInv

(* The ring names the newest snapshots of a set that it holds. *)
LEMMA RingIsNewest ==
    ASSUME TypeOK, NEW S \in SUBSET Block, RingHolds(S)
    PROVE  GetSnapshotDirs = Newest(S)
<1>1. GetSnapshotDirs = {At(count) : count \in Slot} \ {NoSnapshot}
  BY DirsInRing
<1>2. \A b : Cardinality({c \in S : c > b}) = Above(S, b)
  BY DEF Above
<1>3. ASSUME NEW count \in Slot, At(count) # NoSnapshot
      PROVE  At(count) \in Newest(S)
  <2>1. At(count) \in S /\ Above(S, At(count)) = snapshotToKeep - 1 - count
    BY <1>3 DEF RingHolds
  <2>2. snapshotToKeep - 1 - count < snapshotToKeep
    BY Constants
  <2>. QED
    BY <1>2, <2>1, <2>2 DEF Newest
<1>4. ASSUME NEW b \in Newest(S)
      PROVE  b \in GetSnapshotDirs
  <2>1. b \in S /\ Above(S, b) < snapshotToKeep
    BY <1>2 DEF Newest
  <2>2. \E count \in Slot : At(count) = b
    BY <2>1 DEF RingHolds
  <2>3. b # NoSnapshot
    BY <2>1, Constants DEF NoSnapshot
  <2>. QED
    BY <1>1, <2>2, <2>3
<1>. QED
  BY <1>1, <1>3, <1>4

(* The ring has at most snapshotToKeep entries. *)
LEMMA FewDirs ==
    ASSUME TypeOK, NEW D \in SUBSET GetSnapshotDirs
    PROVE  Cardinality(D) <= snapshotToKeep
<1> DEFINE T == {pastSnapshotList[i] : i \in Slot}
<1>1. pastSnapshotList \in Surjection(Slot, T)
  BY DEF TypeOK, Surjection
<1>2. IsFiniteSet(Slot) /\ Cardinality(Slot) = snapshotToKeep
  <2>1. 0 \in Int /\ snapshotToKeep - 1 \in Int /\ ~ (0 > snapshotToKeep - 1)
    BY Constants
  <2>2. IsFiniteSet(0 .. snapshotToKeep - 1)
        /\ Cardinality(0 .. snapshotToKeep - 1) = (snapshotToKeep - 1) - 0 + 1
    BY <2>1, FS_Interval
  <2>. QED
    BY <2>2, Constants
<1>3. D \in SUBSET T
  BY DEF GetSnapshotDirs
<1> HIDE DEF T
<1>4. IsFiniteSet(T) /\ Cardinality(T) <= Cardinality(Slot)
  BY <1>1, <1>2, FS_Surjection
<1>5. Cardinality(D) <= Cardinality(T) /\ Cardinality(D) \in Nat /\ Cardinality(T) \in Nat
  BY <1>3, <1>4, FS_Subset, FS_CardinalityType
<1>. QED
  BY <1>2, <1>4, <1>5, Constants

(* Whatever fails in a snapshot, the directories of this replay are at     *)
(* most snapshotToKeep, SnapshotHandler knows all of them, and while the   *)
(* replay goes on they are exactly the newest snapshots                    *)
(* (snapshot_handler.go).                                                  *)
THEOREM SnapshotsAlwaysKept == Spec => []SnapshotsKept
<1>1. IInv => SnapshotsKept
  <2> SUFFICES ASSUME IInv PROVE SnapshotsKept
    OBVIOUS
  <2>1. TypeOK /\ dirs \ Prior \subseteq GetSnapshotDirs
    BY DEF IInv, LockInv, DirsMatchRing
  <2>2. Cardinality(dirs \ Prior) <= snapshotToKeep
    BY <2>1, FewDirs
  <2>3. ASSUME apply \in {"next", "returned"}, main # "closed"
        PROVE  dirs \ Prior = Newest(Due) \ Prior
    <3>1. RingHolds(Due) /\ dirs \ Prior = GetSnapshotDirs \ Prior
      BY <2>3 DEF IInv, DirsMatchRing, Noted
    <3>2. Due \in SUBSET Block
      BY <2>1, Constants DEF Due, TypeOK
    <3>. QED
      BY <2>1, <3>1, <3>2, RingIsNewest
  <2>. QED
    BY <2>1, <2>2, <2>3 DEF SnapshotsKept
<1>. QED
  BY <1>1, IInvAlways, PTL

(* A replay without errors and without --keep-db leaves no snapshot of its *)
(* own (cleanupStateDbDir in replay.go).                                   *)
THEOREM CleanupAlwaysComplete == Spec => []CleanupIsComplete
<1>1. IInv => CleanupIsComplete
  BY DEF IInv, DirsMatchRing, CleanupIsComplete
<1>. QED
  BY <1>1, IInvAlways, PTL

==============================================================================
