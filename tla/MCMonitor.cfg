SPECIFICATION SyncFairSpec
CONSTANTS
    MaxThreads = 3
    ExitFill <- Nil
    WantTids <- AnyTid
    KillTids <- MCKillTids
    Used <- AllObjects
    Rules <- AllRules
INVARIANTS
    SyncTypeOK
    WaitersIntact
    MutualExclusion
    NoSleepOnFreeLock
    HolderRunnable
    SyncOnePlace
PROPERTIES
    LockWaiterWoken
    ImplementsMonitor
