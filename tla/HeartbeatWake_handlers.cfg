SPECIFICATION WakeSpec
CONSTANTS
    t1 = t1
    t2 = t2
    h1 = h1
    h2 = h2
    r1 = r1
    r2 = r2
    NoHandler = NoHandler
    Targets = {t1, t2}
    Handlers = {h1, h2}
    Runs = {r1, r2}
    Priorities = {2, 4}
    CoalesceMs = 1
    RetryMs = 2
SYMMETRY MCSymmetry
INVARIANTS
    RunsExclude
    WakesAreKept
    PendingIsScheduled
