\* Files of up to three blocks; every block after the first fills a batch.
SPECIFICATION ImportSpec
CONSTANTS
    MaxBlock = 2
    Fork = {f1, f2}
    Zero = Zero
    Absent = Absent
    Malformed = Malformed
    NoHash = NoHash
    BatchSize = 1
SYMMETRY Symmetry
INVARIANTS
    AllImported
    VerifiedLinks
PROPERTY
    StoresFromAbove
