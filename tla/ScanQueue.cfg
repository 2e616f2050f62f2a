SPECIFICATION FairSpec
CONSTANTS
    MaxJobs = 3
    Capacity = 2
    u1 = u1
    u2 = u2
    Users <- TwoUsers
    UserActions <- EveryQueueAction
INVARIANTS
    JobsAccounted
    StoppedWriteIsCancelled
    PauseAdmitsOneWrite
PROPERTIES
    RefinesDelivery
    StopEndsWorker
    QueuedJobEnds
