SPECIFICATION Spec
CONSTANTS
    n1 = n1
    n2 = n2
    a1 = a1
    a2 = a2
    a3 = a3
    Nodes = {n1, n2}
    Addrs = {a1, a2, a3}
    NoAddr = NoAddr
    Relay = Relay
    HomeOf <- MCHomeOf
    MaxFaults = 1
INVARIANTS
    InStep
PROPERTIES
    PunchFirst
    ReconnectsUnlessRoamed
