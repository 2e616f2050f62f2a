SPECIFICATION SLSpec
CONSTANTS
    NumManagers = 3
    Supervised = TRUE
    Calibrates = TRUE
    OpensReturn = TRUE
    JoinTimesOut = FALSE
INVARIANTS
    OneManager
