\* All chains of four blocks whose sealing blocks do not patch the rules;
\* a ring of three hashes, and blocks enough to go round it more than twice.
SPECIFICATION MCSpec
CONSTANTS
    Field = {f1, f2}
    MaxBlock = 4
    SealPatches = FALSE
    NoRules = NoRules
    Len256 = 3
    LastBlock = 7
    Ahead = 2
    Zero = Zero
SYMMETRY Symmetry
INVARIANTS
    
    ArchiveFindsSameRules
    HistoryOfTheBlock
    AcceptedFollowsAccepted
