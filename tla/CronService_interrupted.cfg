SPECIFICATION Spec
CONSTANTS
    j1 = j1
    j2 = j2
    None = None
    Jobs = {j1}
    Fresh = {}
    Kinds <- MCOneShot
    Times = {1}
    Period = 1
    DeletesAfterRun = {}
    Outcomes = {"ok", "error", "transient"}
    Backoff <- MCBackoff
    RefireGap = 1
    StuckAfter = 1
    MaxAttempts = 1
    MaxImmediate = 1
    Stagger = 1
    Concurrency = 1
    MaxTime = 2
    MaxCrashes = 1
    MaxRequests = 0
CHECK_DEADLOCK FALSE
PROPERTIES
    InterruptedIsNotReplayed
