\* Three processes, two chains, one crash; three commands in two directories.
SPECIFICATION MCSpec
CONSTANTS
    Proc = {p1, p2, p3}
    Chain = {c1, c2}
    MaxCrashes = 1
    NoProc = NoProc
    Process = {p1, p2, p3}
    Dir = {"server", "client"}
    Document = {1}
    MaxBlocks = 1
    MaxEvents = 1
    Offered <- MCOffered
    Nobody = Nobody
VIEW Seen
SYMMETRY Symmetry
INVARIANTS
    InitIsEnough
    BlocksNeedVersion
    OnlyWithToken
PROPERTIES
    InitKeepsConfig
    
    
