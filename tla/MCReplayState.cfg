\* Snapshots at blocks 4, 6 and 8, two of which are kept; the file
\* system may fail any of them.
SPECIFICATION FairSpec
CONSTANTS
    Verifier = {v1}
    LastBlock = 9
    blockInterval = 2
    startBlock = 3
    endBlock = 8
    snapshotToKeep = 2
    poolCapacity = 2
    Prior = {}
    KeepDB = FALSE
    SnapshotMayFail = TRUE
INVARIANTS
    UsedWhileOpen
    
    SnapshotsKept
    CleanupIsComplete
PROPERTIES
    ReplayEnds
