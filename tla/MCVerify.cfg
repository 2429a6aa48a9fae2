\* All databases of up to four blocks, one with failed bundles.
SPECIFICATION VerifySpec
CONSTANTS
    LastKey = 3
    MaxBundles = 1
    Absent = Absent
    Corrupt = Corrupt
    NoHash = NoHash
INVARIANTS
    EveryFaultCounted
    CommandsAgree
CHECK_DEADLOCK FALSE
