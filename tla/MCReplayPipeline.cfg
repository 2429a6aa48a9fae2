\* As many blocks as the channels and the hands of the stages hold together,
\* so that every stage can be waiting on the next.
SPECIFICATION MCSpec
CONSTANTS
    N = 5
    channelSize = 1
INVARIANTS
    NothingLost
PROPERTIES
    KeepsPromise
    Terminates
    CancelIsNoticed
