SPECIFICATION Spec
CONSTANTS
    d1 = d1
    d2 = d2
    Recovery = Recovery
    Deliveries = {d1, d2}
    Payloads <- MCPayloads
    BestEffort = {}
    OnError = {}
    MaxRetries = 2
    Left = {d2}
    MaxFaults = 1
INVARIANTS
    TypeOK
    NothingLost
    GivenUpForCause
    NeverReplayed
