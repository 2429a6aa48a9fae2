\* One chain, so that ranges of up to four blocks merge and split.
SPECIFICATION Spec
CONSTANTS
    Chain = {c1}
    MaxBlock = 3
    Payload = {p1}
    NoBlock = NoBlock
    MetaKind = {rules}
    RulesKind = rules
    NoBatch = NoBatch
    NoView = NoView
INVARIANTS
    MetadataMatchesBlocks
