SPECIFICATION FollowupSpec
CONSTANTS
    m1 = m1
    m2 = m2
    m3 = m3
    m4 = m4
    o1 = o1
    o2 = o2
    NoQueue = NoQueue
    Msgs = {m1, m2, m3, m4}
    Route <- MCRoute
    Redelivered = {m2}
    Unroutable <- MCUnroutable
    Settings <- MCAllDrops
    Objects = {o1}
    Stop = FALSE
INVARIANTS
    InArrivalOrder
PROPERTIES
    PresentedOnce
