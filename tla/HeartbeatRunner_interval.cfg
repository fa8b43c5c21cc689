SPECIFICATION FairSpec
CONSTANTS
    a1 = a1
    a2 = a2
    everyone = everyone
    h1 = h1
    h2 = h2
    r1 = r1
    r2 = r2
    NoHandler = NoHandler
    Agents = {a1}
    Everyone = everyone
    Targets = {a1, everyone}
    Handlers = {h1}
    Runs = {r1}
    Priorities = {2, 4}
    CoalesceMs = 1
    RetryMs = 2
    Interval = 2
PROPERTIES
    NoRepetition
    DueIsServed
