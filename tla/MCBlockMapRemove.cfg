SPECIFICATION Spec
CONSTANTS
    Files = {f1}
    NR_DIRECT_BLOCKS = 1
    NR_INDIRECT_BLOCKS = 2
    MaxFsBlocks = 6
    MaxLength = 3
INVARIANTS
    AllBlocksFreed
