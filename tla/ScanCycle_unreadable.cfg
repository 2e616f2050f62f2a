SPECIFICATION CycleSpec
CONSTANTS
    r1 = r1
    r2 = r2
    u1 = u1
    u2 = u2
    c1 = c1
    c2 = c2
    NoConfig = NoConfig
    Readers <- OneReader
    Users <- OneUser
    UserActions <- NoAction
    Configs <- TwoConfigs
    ConfigReads <- BrokenFile
    MaxJobs = 2
    MaxChanges = 0
    Capacity = 1
    ProcessingSlots = 2
    PromptThreads = TRUE
INVARIANT
    ReservationHasOwner
