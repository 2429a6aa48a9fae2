\* The file system may fail while a snapshot is taken.
SPECIFICATION Spec
CONSTANTS
    Verifier = {v1}
    LastBlock = 3
    blockInterval = 2
    startBlock = 1
    endBlock = 9
    snapshotToKeep = 1
    poolCapacity = 2
    Prior = {}
    KeepDB = FALSE
    SnapshotMayFail = TRUE
INVARIANT
    NoUseAfterClose
