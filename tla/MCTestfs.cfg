SPECIFICATION Spec
CONSTANTS
    MaxInodes = 4
    FreemapBits = 5
    MaxFsBlocks = 3
    EntriesPerBlock = 3
    Names <- MCNames
    NameLength <- MCNameLength
    MaxListed = 1
    MaxCrashes = 1
INVARIANTS
    TypeOK
    TreeIntact
    MemoryAgrees
    CountersExact
    EntriesLeadToInodes
    CountersCover
