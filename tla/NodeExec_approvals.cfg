SPECIFICATION FairSpec
CONSTANTS
    x1 = x1
    k1 = k1
    c1 = c1
    c2 = c2
    None = None
    Execs = {x1}
    Others = {k1}
    Conns = {c1, c2}
    Fallbacks = {"deny", "allowlist", "full"}
INVARIANTS OnceMeansOnce WaitsForANode
PROPERTY ExecEnds
CHECK_DEADLOCK FALSE
