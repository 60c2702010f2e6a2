SPECIFICATION Spec
CONSTANTS
    MaxThreads = 4
    ExitFill = 0
    WantTids <- MCWantTids
    KillTids <- MCKillTids
PROPERTIES
    ReapsOnlyExited
