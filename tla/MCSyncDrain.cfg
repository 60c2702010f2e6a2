SPECIFICATION SyncSpec
CONSTANTS
    MaxThreads = 3
    ExitFill <- Nil
    WantTids <- AnyTid
    KillTids <- MCKillTids
    Used <- BareObjects
    Rules <- AllRules
INVARIANTS
    WakesSuspended
