SPECIFICATION MCSpec
CONSTANTS
    Digit = 4
    U64Size = 2
    U256Size = 4
    AddressSize = 3
    HashSize = 4
    BloomSize = 5
    NanosSize = 1
    NanosPerSecond = 10
    None = None
    A1 = A1
    A2 = A2
    H1 = H1
    H2 = H2
    D1 = D1
    BufferSize = 6
    MinSliceSize = 3
    NoHeader = 0
    MaxBlocks = 4
    MaxSize = 4
    GFiles <- MCGFiles
    BloomBits <- MCBloomBits
    TrueBlocks <- MCTrueBlocks
    TypedBlocks <- MCTypedBlocks
INVARIANTS
    
    
    BloomHasEveryLog
    RefusesOnlyTheseBlocks
    BlocksInOrder
    EndsWithAllBlocks
CHECK_DEADLOCK FALSE
