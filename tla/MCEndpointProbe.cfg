SPECIFICATION Spec
CONSTANTS
    Calls = {c1, c2}
    NoCall = NoCall
    Endpoints = {e1, e2}
    NoEndpoint = NoEndpoint
    Elsewhere = Elsewhere
    MaxFaults = 1
INVARIANTS
    ClosedOnce
    VerdictEarned
PROPERTY RecordSettles
