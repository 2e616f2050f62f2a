SPECIFICATION UpdSpec
CONSTANTS
    NumFiles = 2
    Failing <- BeforeBackup
    Killable = FALSE
    Interruptible = FALSE
    MaxUpdates = 1
INVARIANT
    RollbackRestores
