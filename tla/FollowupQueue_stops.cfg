SPECIFICATION FollowupFairSpec
CONSTANTS
    m1 = m1
    m2 = m2
    m3 = m3
    m4 = m4
    o1 = o1
    o2 = o2
    NoQueue = NoQueue
    Msgs = {m1, m2, m3, m4}
    Route <- MCRoute
    Redelivered = {}
    Unroutable <- MCUnroutable
    Settings <- MCDropNew
    Objects = {o1, o2}
    Stop = TRUE
INVARIANTS
    NothingVanishesUnstopped
PROPERTIES
    DrainedOnceStarted
