SPECIFICATION Spec
CONSTANTS
    a = a
    b = b
    c = c
    big = big
    giant = giant
    Workers = {w1, w2}
    Files <- WithBig
    FileSize <- MCFileSize
    Row <- OwnRows
    MaxCacheSize = 3
    ReadsFail = FALSE
INVARIANTS
    HitStaysCached
