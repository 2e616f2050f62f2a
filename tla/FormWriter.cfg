SPECIFICATION WriterFairSpec
CONSTANTS
    Jobs <- SmallJobs
    Attempts = 2
    Chars = 2
    MaxLeaves = 1
    MaxCopies = 1
    MayLock = TRUE
    MayRaise = TRUE
    PromptTarget = TRUE
CHECK_DEADLOCK FALSE
INVARIANTS
    StrayKeys
    CancelStopsTyping
    CompletedForm
    ClipboardRespected
PROPERTIES
    WriteEnds
