SPECIFICATION Spec
CONSTANTS
    a = a
    b = b
    c = c
    big = big
    giant = giant
    Workers = {w1}
    Files <- WithBig
    FileSize <- MCFileSize
    Row <- SharedRow
    MaxCacheSize = 3
    ReadsFail = FALSE
INVARIANTS
    ListedIsFound
