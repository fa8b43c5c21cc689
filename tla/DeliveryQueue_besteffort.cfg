SPECIFICATION Spec
CONSTANTS
    d1 = d1
    d2 = d2
    Recovery = Recovery
    Deliveries = {d1}
    Payloads <- MCPayloads
    BestEffort = {d1}
    OnError = {d1}
    MaxRetries = 2
    Left = {}
    MaxFaults = 0
INVARIANTS
    NothingLost
