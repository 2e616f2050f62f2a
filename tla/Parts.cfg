SPECIFICATION PartsSpec
CONSTANTS
    NumManagers = 3
    Supervised = TRUE
    Calibrates = TRUE
    OpensReturn = TRUE
    JoinTimesOut = FALSE
    Clients = {c1}
    MaxOps = 2
    MaxTime = 2
    MaxBuilds = 3
    Durations = {1, 2}
    Tolerance = 1
    Holders <- People
    Documents <- Cards
    Fields <- OneField
    MaxEntries = 1
    TimeToLive = 0
    f1 = f1
    f2 = f2
    Forms = {f1, f2}
    MaxEdits = 3
    MaxSwitches = 2
    Mislabels = {FALSE}
    Faults = {"dump"}
    Overlaps = FALSE
CHECK_DEADLOCK FALSE
INVARIANTS
    StopReleasesPort
    InstalledVerifies
    LicenceBacksRecord
    TurnedAwayByClock
    WrittenIsTheDocuments
    SoundDocumentPasses
    CatalogueAgrees
    ReferencesRepaired
