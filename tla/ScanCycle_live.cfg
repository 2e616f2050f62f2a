SPECIFICATION FairCycleSpec
CONSTANTS
    r1 = r1
    r2 = r2
    u1 = u1
    u2 = u2
    c1 = c1
    c2 = c2
    NoConfig = NoConfig
    Readers <- OneReader
    Users <- OneUser
    UserActions <- WithChanges
    Configs <- OneConfig
    ConfigReads <- ReadableFiles
    MaxJobs = 2
    MaxChanges = 1
    Capacity = 1
    ProcessingSlots = 1
    PromptThreads = TRUE
INVARIANTS
    ReservationHasOwner
    SlotsAccounted
PROPERTIES
    CycleFrees
    AdmittedFrameIsDecided
