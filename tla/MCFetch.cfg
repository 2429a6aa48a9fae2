\* Blocks of two contents, so that a block stored twice is noticed.
SPECIFICATION FairSpec
CONSTANTS
    MaxBlock = 2
    Payload = {p1, p2}
    NoBlock = NoBlock
    ChannelSize = 1
    ReadError = ReadError
    Last = Last
    U64Max = 3
INVARIANTS
    FilledFromBelow
PROPERTIES
    FetchKeepsPromise
    FetchEnds
