SPECIFICATION FairSpec
CONSTANTS
    l1 = l1
    l2 = l2
    t1 = t1
    t2 = t2
    t3 = t3
    NoTask = NoTask
    Lanes = {l1, l2}
    Tasks = {t1, t2, t3}
    LaneOf <- MCLaneOf
    Concurrency = {0, 2}
    MaxGeneration = 1
INVARIANTS
    TypeOK
    SlotsAreRunningTasks
    NoStalledLane
    DrainedMeansSettled
PROPERTIES
    ImplementsLaneScheduler
    QueuedIsServed
