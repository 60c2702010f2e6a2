SPECIFICATION FairSpec
CONSTANTS
    MaxThreads = 4
    ExitFill <- Nil
    WantTids <- MCWantTids
    KillTids <- MCKillTids
INVARIANTS
    TypeOK
    ReadyListIntact
    OnePlace
    StacksOwned
PROPERTIES
    ReapsOnlyExited
    ReadyRuns
    ExitedReaped
    ImplementsScheduler
