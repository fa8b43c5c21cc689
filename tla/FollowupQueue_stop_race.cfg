SPECIFICATION FollowupSpec
CONSTANTS
    m1 = m1
    m2 = m2
    m3 = m3
    m4 = m4
    o1 = o1
    o2 = o2
    NoQueue = NoQueue
    Msgs = {m1, m2, m3}
    Route <- MCRoute
    Redelivered = {m2}
    Unroutable = {}
    Settings <- MCFollowupNew
    Objects = {o1, o2}
    Stop = TRUE
SYMMETRY MCObjectSymmetry
INVARIANTS
    NothingVanishes
