SPECIFICATION CycleSpec
CONSTANTS
    r1 = r1
    r2 = r2
    u1 = u1
    u2 = u2
    c1 = c1
    c2 = c2
    NoConfig = NoConfig
    Readers <- OneReader
    Users <- TwoUsers
    UserActions <- Discards
    Configs <- TwoConfigs
    ConfigReads <- EveryRead
    MaxJobs = 3
    MaxChanges = 1
    Capacity = 1
    ProcessingSlots = 2
    PromptThreads = FALSE
SYMMETRY Interchangeable
INVARIANTS
    ConfigurationBarrier
    ScanOrderKept
