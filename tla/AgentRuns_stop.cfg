SPECIFICATION Spec
CONSTANTS
    message = message
    step = step
    job = job
    compact = compact
    s1 = s1
    s2 = s2
    None = None
    Runs <- MCRuns
    Sessions <- MCSessions
    SessionOf <- MCSessionOf
    Kind <- MCKind
    Width <- MCWidth
    Copilot <- MCCopilot
    Rotations = 1
    MaxFallbacks = 1
PROPERTIES
    StopIsFinal
CHECK_DEADLOCK FALSE
