\* Every vector of at most two ranges over 0..4, and every argument.
SPECIFICATION FairSpec
CONSTANTS
    MaxU64 = 5
    MaxEnd = 4
    MaxLen = 2
    EmptyDeletion = FALSE
INVARIANTS
    ComputesCanonicalRanges
PROPERTY
    Terminates
CHECK_DEADLOCK FALSE
