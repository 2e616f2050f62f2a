SPECIFICATION ApplicationSpec
CONSTANTS
    r1 = r1
    r2 = r2
    u1 = u1
    u2 = u2
    c1 = c1
    c2 = c2
    NoConfig = NoConfig
    Readers <- TwoReaders
    Users <- OneUser
    UserActions <- WriteControls
    Configs <- TwoConfigs
    ConfigReads <- ReadableFiles
    MaxJobs = 3
    MaxChanges = 0
    Capacity = 1
    ProcessingSlots = 2
    PromptThreads = TRUE
    f1 = f1
    f2 = f2
    Forms = {f1, f2}
    MaxEdits = 3
    MaxSwitches = 1
    Mislabels = {FALSE, TRUE}
    Faults = {"write", "close"}
    Overlaps = FALSE
SYMMETRY Interchangeable
INVARIANTS
    AtMostOneCycle
    EditSurvives
