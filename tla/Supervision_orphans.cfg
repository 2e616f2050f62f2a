SPECIFICATION Spec
CONSTANTS
    w1 = w1
    w2 = w2
    Workers <- TwoWorkers
    SupervisorMayDie = TRUE
    MarkersFail = {"suspend", "unlink"}
    UserMayStart <- NotDuringFiles
    NumFiles = 2
    Failing <- AfterBackup
    Killable = TRUE
    Interruptible = FALSE
    MaxUpdates = 1
SYMMETRY Symmetry
INVARIANTS
    NobodyDuringUpdate
    SingleReader
    RollbackRestores
    OriginalsKept
PROPERTIES
    ExitIsFinal
