SPECIFICATION Spec
CONSTANTS
    a = a
    b = b
    c = c
    big = big
    giant = giant
    Workers = {w1, w2}
    Files <- WithGiant
    FileSize <- MCFileSize
    Row <- SharedRow
    MaxCacheSize = 3
    ReadsFail = TRUE
SYMMETRY Alike
INVARIANTS
    TypeOK
    ListAndTableAgree
    OccupiedExact
    SentStaysCached
PROPERTIES
    ImplementsLRUCache
