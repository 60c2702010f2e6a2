SPECIFICATION Spec
CONSTANTS
    Files = {f1, f2}
    NR_DIRECT_BLOCKS = 1
    NR_INDIRECT_BLOCKS = 2
    MaxFsBlocks = 5
    MaxLength = 3
SYMMETRY Alike
INVARIANTS
    TypeOK
    BlocksOwnedOnce
    ReadsBack
PROPERTIES
    RemovesSmallFiles
