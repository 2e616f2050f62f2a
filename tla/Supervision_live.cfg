SPECIFICATION FairSpec
CONSTANTS
    w1 = w1
    w2 = w2
    Workers <- OneWorker
    SupervisorMayDie = FALSE
    MarkersFail = {}
    UserMayStart <- NotDuringFiles
    NumFiles = 2
    Failing <- Phases
    Killable = TRUE
    Interruptible = TRUE
    MaxUpdates = 2
CHECK_DEADLOCK FALSE
INVARIANTS
    AppliedIsWhole
PROPERTIES
    CrashIsRestarted
    ReaderReturns
