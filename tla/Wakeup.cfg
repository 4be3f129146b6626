SPECIFICATION FairSpec_Wakeup
CONSTANTS
    Job = {j1, j2}
    Worker = {w1}
    NULL = NULL
    MaxAttempts = 2
    BackoffBase = 1
    ClaimBatch = 2
    ReapBatch = 1
    Concurrency = 1
    Interval = 1
    ReaperIdle = 1
    FinalizeMax = 1
    MaxOverdue = 0
    MaxFaults = 1
INVARIANTS NoLostWakeup NoOrphanLease ReapedOnlyIfSilent
PROPERTIES NewJobsNeedNoPoll PollSettlesEveryJob
