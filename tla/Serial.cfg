SPECIFICATION SerialSpec
CONSTANTS
    NumManagers = 4
    Supervised = TRUE
    Calibrates = FALSE
    OpensReturn = TRUE
    JoinTimesOut = TRUE
    Idle = 2
    Settle = 2
    Timeout = 9
    MaxBytes = 3
    MinBytes = 2
    Scans = 2
    ScanBytes = 5
    MaxGap = 3
    MinPause = 6
    MayStop = TRUE
INVARIANTS
    OneManager
    QuietMeansScanEnd
    OneScanPerFrame
PROPERTIES
    ReaderRecovers
    EveryByteIsFramed
