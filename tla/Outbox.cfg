SPECIFICATION Spec
CONSTANTS
    Job = {j1}
    Worker = {w1, w2, w3}
    NULL = NULL
    MaxAttempts = 2
    BackoffBase = 1
    ClaimBatch = 2
    ReapBatch = 1
    Concurrency = 1
    Interval = 1
    ReaperIdle = 2
    FinalizeMax = 2
    MaxOverdue = 0
    MaxFaults = 2
SYMMETRY Symmetry
INVARIANTS TypeOK FenceNamesTheClaim OneEmailPerAttempt CompletedWasSent DuplicatesNeedFaults ExtraAttemptsNeedFaults
PROPERTIES TerminalIsFinal AtLeastOnce
