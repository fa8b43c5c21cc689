SPECIFICATION Spec
CONSTANTS
    t1 = t1
    t2 = t2
    t3 = t3
    t4 = t4
    p1 = p1
    p2 = p2
    p3 = p3
    None = None
    Procs = {p1, p2, p3}
    Tasks = {t1, t2, t3, t4}
    ProcOf <- MCProcOf
    Kinds = {"file"}
    StartTimes = TRUE
    MaxFaults = 0
CHECK_DEADLOCK FALSE
INVARIANTS
    Exclusive
