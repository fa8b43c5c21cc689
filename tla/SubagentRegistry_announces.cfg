SPECIFICATION FairSpec
CONSTANTS
    a = a
    b = b
    Main = Main
    Sessions = {a, b}
    Parent <- MCParent
    Deletes = {b}
    MaxRetries = 2
    MaxAsks = 1
    MaxRuns = 1
    MaxTroubles = 1
CHECK_DEADLOCK FALSE
INVARIANTS TypeOK AnnouncedOnce SettledForCause
PROPERTY EndedSettles
