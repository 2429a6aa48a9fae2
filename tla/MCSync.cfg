\* Two chains of two blocks, restarted at any time.
SPECIFICATION FairSpec
CONSTANTS
    Chain = {c1, c2}
    MaxBlock = 1
    ChannelSize = 1
    Err = Err
INVARIANTS
    NoGaps
    NoSilentEnd
PROPERTIES
    StopsOnError
    EventuallyServed
